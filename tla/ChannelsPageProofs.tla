------------------------- MODULE ChannelsPageProofs -------------------------
(***************************************************************************)
(* Proofs about ChannelsPage for any channels and rules, and any number of  *)
(* handlers in flight, failed and begun: what the page waits for, what its  *)
(* rows show, and whose rule a dialog writes.                              *)
(*                                                                         *)
(* One form, one target and one rule id serve every dialog, and a handler   *)
(* carries what they held when it was begun.  So the invariant says of the  *)
(* dialog on screen, and of each save on its way, whose text and whose rule *)
(* it holds; and of everything the page waits for, that a handler in flight *)
(* is going to take it down.                                               *)
(***************************************************************************)
EXTENDS ChannelsPage, SequenceTheorems, TLAPS

\* What the module takes for granted of its constants: no channel is taken
\* for the absence of one, or for a dialog.
Parameters ==
    /\ {"none", "sync", "rule"} \cap Channel = {}
    /\ MaxFaults \in Nat /\ MaxPresses \in Nat /\ MaxClicks \in Nat

Loading == {"analyze", "global_rules"}
Saving == {"save", "use_global"}

\* A handler knows its channel, if its request is about one.
Sound ==
    {job \in Job :
        /\ job.kind \in {"sync", "check", "listen", "unlisten", "clear", "analyze", "use_global"}
              => job.channel \in Channel
        /\ job.kind = "global_rules" => job.channel = "none"
        /\ job.kind \in Loading => job.at = "ask"}

Typed ==
    /\ view \in View
    /\ watchRules \in [RuleId -> [channel : Channel, text : Text] \cup NoRule]
    /\ globalRule \in Text /\ ruleForm \in Text
    /\ listens \subseteq Channel /\ items \subseteq Channel
    /\ jobs \in Seq(Sound)
    /\ spins \subseteq Spin
    /\ open \in {"none", "sync", "rule"} \cup Channel
    /\ syncTarget \in Channel \cup {"none"} /\ ruleTarget \in Channel \cup {"none"}
    /\ ruleScope \in {"global", "channel"}
    /\ channelRuleId \in RuleId \cup {"none"}
    /\ busy \in BOOLEAN /\ ruleLoading \in BOOLEAN /\ ruleSaving \in BOOLEAN
    /\ excused \in BOOLEAN /\ failed \in BOOLEAN
    /\ faults \in 0..MaxFaults /\ presses \in 0..MaxPresses /\ clicks \in 0..MaxClicks

\* A dialog on screen is about something.
Targets ==
    /\ open = "sync" => syncTarget \in Channel
    /\ open = "rule" => IF ruleScope = "global" THEN ruleTarget = "none" ELSE ruleTarget \in Channel

\* What the handlers in flight are, and the spinners they are going to end.
Kinds == {jobs[k].kind : k \in DOMAIN jobs}
Spinning == {SpinOf(jobs[k]) : k \in DOMAIN jobs}

Waits ==
    /\ spins \subseteq Spinning
    /\ busy => Kinds # {}
    /\ ruleLoading => Kinds \cap Loading # {}
    /\ ruleSaving => Kinds \cap Saving # {}

RowsTrue == failed \/ items = listens

\* What may be written into the rule of a channel, or into the global one.
Own(c) == IF c = "none" THEN {"global"} ELSE {c, "default"}

\* A rule id that a save for channel c may name, among these rules.
Of(rules, id, c) ==
    c # "none" /\ id # "none" =>
        /\ id \in RuleId /\ rules[id] # UnusedId
        /\ rules[id] \notin NoRule => rules[id].channel = c

AtHome ==
    /\ globalRule = "global"
    /\ \A id \in RuleId : Live(id) => watchRules[id].text \in Own(watchRules[id].channel)

\* The form of the dialog on screen holds its own text once its rules are in.
FormFits ==
    open = "rule" =>
        /\ ruleForm \in Own(ruleTarget) \cup {"default"}
        /\ ~ruleLoading => ruleForm \in Own(ruleTarget)
        /\ Of(watchRules, channelRuleId, ruleTarget)

SaveFits(rules, job) ==
    job.kind = "save" /\ job.at = "ask" =>
        job.text \in Own(job.channel) /\ Of(rules, job.rule, job.channel)

JobsFit ==
    \A k \in DOMAIN jobs : (jobs[k].kind \in Loading => ruleLoading) /\ SaveFits(watchRules, jobs[k])

Unmixed == ~excused => AtHome /\ FormFits /\ JobsFit

Inv == Typed /\ Targets /\ Waits /\ RowsTrue /\ Unmixed

LEMMA InvHolds == Inv => TypeOK /\ QuietPageIsTrue
<1> SUFFICES ASSUME Inv PROVE TypeOK /\ QuietPageIsTrue
  OBVIOUS
<1>1. \A k \in DOMAIN jobs : jobs[k] \in Job
  BY ElementOfSeq DEF Inv, Typed, Sound
<1>2. TypeOK
  BY <1>1 DEF Inv, Typed, TypeOK
<1>3. ASSUME jobs = <<>> PROVE QuietPageIsTrue
  <2>1. Kinds = {} /\ Spinning = {}
    BY <1>3 DEF Kinds, Spinning
  <2>2. QED
    BY <2>1 DEF Inv, Typed, Waits, RowsTrue, QuietPageIsTrue
<1>4. QED
  BY <1>2, <1>3 DEF QuietPageIsTrue

-----------------------------------------------------------------------------
(* The handlers in flight.  Alike: the same but for the question on screen.  *)

Alike(a, b) ==
    a.kind = b.kind /\ a.at = b.at /\ a.channel = b.channel /\ a.rule = b.rule /\ a.text = b.text

\* What an ending handler leaves: all the others, and nothing else.
Left(js, k, rest) ==
    /\ \A m \in DOMAIN rest : \E j \in DOMAIN js \ {k} : Alike(rest[m], js[j])
    /\ \A j \in DOMAIN js \ {k} : \E m \in DOMAIN rest : Alike(rest[m], js[j])

LEMMA RemoveAtTyped ==
    ASSUME NEW S, NEW js \in Seq(S), NEW k \in DOMAIN js
    PROVE  /\ RemoveAt(js, k) \in Seq(S)
           /\ \A m \in DOMAIN RemoveAt(js, k) :
                 \E j \in DOMAIN js \ {k} : RemoveAt(js, k)[m] = js[j]
           /\ \A j \in DOMAIN js \ {k} :
                 \E m \in DOMAIN RemoveAt(js, k) : RemoveAt(js, k)[m] = js[j]
<1>1. k \in 1..Len(js) /\ Len(js) \in Nat /\ DOMAIN js = 1..Len(js)
  BY LenProperties
<1> DEFINE before == SubSeq(js, 1, k - 1)
           after == SubSeq(js, k + 1, Len(js))
           rest == before \o after
<1>2. /\ before \in Seq(S) /\ after \in Seq(S)
      /\ Len(before) = k - 1 /\ Len(after) = Len(js) - k
      /\ \A m \in 1..k - 1 : before[m] = js[m]
      /\ \A m \in 1..Len(js) - k : after[m] = js[k + m]
  <2>1. \A m \in 1..Len(js) : js[m] \in S
    BY <1>1, ElementOfSeq
  <2>2. /\ before \in Seq(S) /\ Len(before) = k - 1
        /\ \A m \in 1..k - 1 : before[m] = js[m]
    BY <1>1, <2>1, SubSeqProperties
  <2>3. /\ after \in Seq(S) /\ Len(after) = Len(js) - k
        /\ \A m \in 1..Len(js) - k : after[m] = js[k + m]
    BY <1>1, <2>1, SubSeqProperties
  <2>4. QED
    BY <2>2, <2>3
<1> HIDE DEF before, after
<1>3. /\ rest \in Seq(S) /\ Len(rest) = Len(before) + Len(after)
      /\ \A m \in 1..Len(before) + Len(after) :
            rest[m] = IF m <= Len(before) THEN before[m] ELSE after[m - Len(before)]
  BY <1>2, ConcatProperties
<1> HIDE DEF rest
<1>4. DOMAIN rest = 1..Len(js) - 1
  BY <1>1, <1>2, <1>3, LenProperties
<1>5. \A m \in 1..k - 1 : rest[m] = js[m]
  BY <1>1, <1>2, <1>3
<1>6. ASSUME NEW m \in k..Len(js) - 1 PROVE rest[m] = js[m + 1]
  <2>1. /\ m - (k - 1) \in 1..Len(js) - k /\ k + (m - (k - 1)) = m + 1 /\ ~(m <= k - 1)
        /\ m \in 1..(k - 1) + (Len(js) - k)
    BY <1>1
  <2>2. rest[m] = after[m - (k - 1)]
    <3>1. \A i \in 1..(k - 1) + (Len(js) - k) :
            rest[i] = IF i <= k - 1 THEN before[i] ELSE after[i - (k - 1)]
      BY <1>2, <1>3
    <3>2. QED
      BY <2>1, <3>1
  <2>3. QED
    BY <1>2, <2>1, <2>2
<1>7. ASSUME NEW m \in DOMAIN rest PROVE \E j \in DOMAIN js \ {k} : rest[m] = js[j]
  <2>1. CASE m < k
    BY <1>1, <1>4, <1>5, <2>1
  <2>2. CASE ~(m < k)
    <3>1. m \in k..Len(js) - 1 /\ m + 1 \in DOMAIN js \ {k}
      BY <1>1, <1>4, <2>2
    <3>2. QED
      BY <1>6, <3>1
  <2>3. QED
    BY <2>1, <2>2
<1>8. ASSUME NEW j \in DOMAIN js \ {k} PROVE \E m \in DOMAIN rest : rest[m] = js[j]
  <2>1. CASE j < k
    BY <1>1, <1>4, <1>5, <2>1
  <2>2. CASE ~(j < k)
    <3>1. j - 1 \in k..Len(js) - 1 /\ j - 1 \in DOMAIN rest /\ (j - 1) + 1 = j
      BY <1>1, <1>4, <2>2
    <3>2. rest[j - 1] = js[j]
      BY <1>6, <3>1
    <3>3. QED
      BY <3>1, <3>2
  <2>3. QED
    BY <2>1, <2>2
<1>9. QED
  BY <1>3, <1>7, <1>8 DEF RemoveAt, rest, before, after

LEMMA UnaskedTyped ==
    ASSUME NEW js \in Seq(Sound)
    PROVE  /\ Unasked(js) \in Seq(Sound) /\ DOMAIN Unasked(js) = DOMAIN js
           /\ \A j \in DOMAIN js : Alike(Unasked(js)[j], js[j])
<1>1. DOMAIN js = 1..Len(js) /\ Len(js) \in Nat /\ \A j \in DOMAIN js : js[j] \in Sound
  BY LenProperties, ElementOfSeq
<1>2. \A job \in Sound : [job EXCEPT !.asks = FALSE] \in Sound
  BY DEF Sound, Job
<1>3. Unasked(js) \in Seq(Sound)
  BY <1>1, <1>2, IsASeq DEF Unasked
<1>4. ASSUME NEW j \in DOMAIN js PROVE Alike(Unasked(js)[j], js[j])
  <2>1. js[j] \in Job
    BY <1>1 DEF Sound
  <2>2. Unasked(js)[j] = [js[j] EXCEPT !.asks = FALSE]
    BY DEF Unasked
  <2>3. QED
    BY <2>1, <2>2 DEF Alike, Job
<1>5. QED
  BY <1>1, <1>3, <1>4 DEF Unasked

LEMMA JobAt ==
    ASSUME Typed, NEW k \in DOMAIN jobs
    PROVE  jobs[k] \in Sound /\ jobs[k] \in Job
  BY ElementOfSeq DEF Typed, Sound

\* The end of a handler.
LEMMA Ended ==
    ASSUME Typed, NEW k \in DOMAIN jobs, NEW ok \in BOOLEAN, Ends(k, ok)
    PROVE  /\ jobs' \in Seq(Sound) /\ Left(jobs, k, jobs')
           /\ spins' = spins \ {SpinOf(jobs[k])}
           /\ ruleLoading' \in BOOLEAN /\ ruleSaving' \in BOOLEAN
<1> DEFINE rest == RemoveAt(jobs, k)
<1>1. jobs \in Seq(Sound)
  BY DEF Typed
<1>2. rest \in Seq(Sound)
      /\ (\A m \in DOMAIN rest : \E j \in DOMAIN jobs \ {k} : rest[m] = jobs[j])
      /\ \A j \in DOMAIN jobs \ {k} : \E m \in DOMAIN rest : rest[m] = jobs[j]
  BY <1>1, RemoveAtTyped
<1> HIDE DEF rest
<1>3. Left(jobs, k, rest)
  BY <1>2 DEF Left, Alike
<1>4. Unasked(rest) \in Seq(Sound) /\ Left(jobs, k, Unasked(rest))
  <2>1. /\ Unasked(rest) \in Seq(Sound) /\ DOMAIN Unasked(rest) = DOMAIN rest
        /\ \A m \in DOMAIN rest : Alike(Unasked(rest)[m], rest[m])
    BY <1>2, UnaskedTyped
  <2>2. QED
    BY <1>2, <2>1 DEF Left
<1>5. jobs' \in {rest, Unasked(rest)}
  BY DEF Ends, rest
<1>6. QED
  BY <1>2, <1>3, <1>4, <1>5 DEF Ends, Typed

\* The begin of a handler.
LEMMA Begun ==
    ASSUME Typed, NEW job \in Sound, Begin(job)
    PROVE  /\ jobs' \in Seq(Sound) /\ busy' = TRUE
           /\ UNCHANGED <<view, server, items, failed, faults>>
           /\ \A k \in DOMAIN jobs : k \in DOMAIN jobs' /\ jobs'[k] = jobs[k]
           /\ \A k \in DOMAIN jobs' : jobs'[k] = job \/ (k \in DOMAIN jobs /\ jobs'[k] = jobs[k])
           /\ \E k \in DOMAIN jobs' : jobs'[k] = job
<1>1. jobs \in Seq(Sound) /\ Len(jobs) \in Nat /\ DOMAIN jobs = 1..Len(jobs)
  BY LenProperties DEF Typed
<1>2. jobs' = Append(jobs, job)
  BY DEF Begin
<1>3. /\ jobs' \in Seq(Sound) /\ DOMAIN jobs' = 1..Len(jobs) + 1
      /\ jobs'[Len(jobs) + 1] = job /\ \A k \in 1..Len(jobs) : jobs'[k] = jobs[k]
  BY <1>1, <1>2
<1>4. QED
  BY <1>1, <1>3 DEF Begin

LEMMA NewJobTyped ==
    ASSUME NEW kind \in Kind, NEW c \in Channel \cup {"none"}
    PROVE  /\ NewJob(kind, c) \in Job
           /\ NewJob(kind, c).kind = kind /\ NewJob(kind, c).channel = c
           /\ kind \in Loading => NewJob(kind, c).at = "ask"
  BY DEF NewJob, Job, Text, Loading

\* What is in flight while handlers begin, go on and end.
LEMMA KindsBegun ==
    ASSUME Typed, NEW job \in Sound, Begin(job)
    PROVE  Kinds' = Kinds \cup {job.kind} /\ Spinning' = Spinning \cup {SpinOf(job)}
<1>1. /\ \A k \in DOMAIN jobs : k \in DOMAIN jobs' /\ jobs'[k] = jobs[k]
      /\ \A k \in DOMAIN jobs' : jobs'[k] = job \/ (k \in DOMAIN jobs /\ jobs'[k] = jobs[k])
      /\ \E k \in DOMAIN jobs' : jobs'[k] = job
  BY Begun
<1>2. Kinds' = Kinds \cup {job.kind}
  BY <1>1 DEF Kinds
<1>3. Spinning' = Spinning \cup {SpinOf(job)}
  BY <1>1 DEF Spinning
<1>4. QED
  BY <1>2, <1>3

LEMMA KindsEnded ==
    ASSUME Typed, NEW k \in DOMAIN jobs, NEW ok \in BOOLEAN, Ends(k, ok)
    PROVE  /\ Kinds \subseteq Kinds' \cup {jobs[k].kind} /\ Kinds' \subseteq Kinds
           /\ Spinning \subseteq Spinning' \cup {SpinOf(jobs[k])}
<1>1. Left(jobs, k, jobs')
  BY Ended
<1>2. \A a, b : Alike(a, b) => a.kind = b.kind /\ SpinOf(a) = SpinOf(b)
  BY DEF Alike, SpinOf
<1>3. ASSUME NEW j \in DOMAIN jobs, j # k
      PROVE  jobs[j].kind \in Kinds' /\ SpinOf(jobs[j]) \in Spinning'
  BY <1>1, <1>2, <1>3 DEF Left, Kinds, Spinning
<1>4. ASSUME NEW m \in DOMAIN jobs' PROVE jobs'[m].kind \in Kinds
  BY <1>1, <1>2 DEF Left, Kinds
<1>5. QED
  BY <1>3, <1>4 DEF Kinds, Spinning

\* Handlers that neither begin nor end.
LEMMA KindsKept ==
    ASSUME DOMAIN jobs' = DOMAIN jobs,
           \A k \in DOMAIN jobs :
              jobs'[k].kind = jobs[k].kind /\ jobs'[k].channel = jobs[k].channel
    PROVE  Kinds' = Kinds /\ Spinning' = Spinning
  BY DEF Kinds, Spinning, SpinOf

LEMMA SpinTyped ==
    ASSUME NEW job \in Sound, job.kind \in {"sync", "check", "listen", "unlisten", "clear"}
                               \/ job = NewJob("batch", "none")
    PROVE  SpinOf(job) \in Spin
  BY DEF Sound, Job, SpinOf, Spin, NewJob

LEMMA HideJobs ==
    ASSUME Typed, Hide
    PROVE  /\ jobs' \in Seq(Sound) /\ DOMAIN jobs' = DOMAIN jobs
           /\ \A k \in DOMAIN jobs : Alike(jobs'[k], jobs[k])
<1>1. jobs \in Seq(Sound)
  BY DEF Typed
<1>2. QED
  BY <1>1, UnaskedTyped DEF Hide, Alike

LEMMA GoesOnJobs ==
    ASSUME Typed, NEW k \in DOMAIN jobs, GoesOn(k)
    PROVE  /\ jobs' \in Seq(Sound) /\ DOMAIN jobs' = DOMAIN jobs
           /\ \A j \in DOMAIN jobs : j # k => jobs'[j] = jobs[j]
           /\ jobs'[k].kind = jobs[k].kind /\ jobs'[k].channel = jobs[k].channel
           /\ jobs'[k].at = "load"
<1>1. jobs \in Seq(Sound) /\ jobs[k] \in Sound /\ jobs[k] \in Job
  BY JobAt DEF Typed
<1>2. jobs' = [jobs EXCEPT ![k] = [jobs[k] EXCEPT !.at = "load"]]
  BY DEF GoesOn
<1>3. [jobs[k] EXCEPT !.at = "load"] \in Sound
  BY <1>1 DEF GoesOn, Sound, Job, Loading
<1>4. jobs' \in Seq(Sound)
  BY <1>1, <1>2, <1>3, ExceptSeq
<1>5. QED
  BY <1>1, <1>2, <1>4 DEF Job

-----------------------------------------------------------------------------
(* The server.                                                              *)

\* What every step does to the rules: an id keeps its channel or is deleted,
\* and a deleted one is not given again.
RulesKept ==
    \A id \in RuleId :
        /\ watchRules[id] = Deleted => watchRules'[id] = Deleted
        /\ Live(id) => \/ watchRules'[id] = Deleted
                       \/ Live(id)' /\ watchRules'[id].channel = watchRules[id].channel

LEMMA LiveIs ==
    ASSUME Parameters, Typed, NEW id \in RuleId
    PROVE  \/ Live(id) /\ watchRules[id] \in [channel : Channel, text : Text]
           \/ ~Live(id) /\ watchRules[id] \in NoRule
  BY DEF Typed, Live

LEMMA RuleIsLive ==
    ASSUME Parameters, NEW c \in Channel, NEW text
    PROVE  [channel |-> c, text |-> text] \notin NoRule
  BY DEF Parameters, NoRule, UnusedId, Deleted

LEMMA ServerTyped ==
    ASSUME Parameters, Typed, NEW job \in Sound, ServerDoes(job)
    PROVE  /\ watchRules' \in [RuleId -> [channel : Channel, text : Text] \cup NoRule]
           /\ globalRule' \in Text /\ listens' \subseteq Channel
<1>1. job \in Job
  BY DEF Sound
<1>2. watchRules' \in [RuleId -> [channel : Channel, text : Text] \cup NoRule]
  <2>1. CASE job.kind = "save" /\ job.channel # "none"
    <3> DEFINE id == IF job.rule = "none" THEN CHOOSE n \in UnusedIds : TRUE ELSE job.rule
               rule == [channel |-> job.channel, text |-> job.text]
    <3>1. rule \in [channel : Channel, text : Text]
      BY <1>1, <2>1 DEF Job
    <3>2. watchRules' = [watchRules EXCEPT ![id] = rule]
      BY <2>1 DEF ServerDoes
    <3> HIDE DEF id, rule
    <3>3. QED
      BY <3>1, <3>2 DEF Typed
  <2>2. CASE job.kind = "use_global"
    <3>1. watchRules' = [watchRules EXCEPT ![job.rule] = Deleted] /\ Deleted \in NoRule
      BY <2>2 DEF ServerDoes, NoRule
    <3>2. QED
      BY <3>1 DEF Typed
  <2>3. CASE ~(job.kind = "save" /\ job.channel # "none") /\ job.kind # "use_global"
    BY <2>3 DEF ServerDoes, Typed
  <2>4. QED
    BY <2>1, <2>2, <2>3
<1>3. globalRule' \in Text
  BY <1>1 DEF ServerDoes, Typed, Job
<1>4. listens' \subseteq Channel
  BY <1>1 DEF ServerDoes, Typed, Sound
<1>5. QED
  BY <1>2, <1>3, <1>4

\* A request that carries its own text and names its own rule leaves every
\* rule with its own text, and every rule that is named with its channel.
LEMMA ServerKeepsHome ==
    ASSUME Parameters, Typed, AtHome, NEW job \in Sound, job.at = "ask", SaveFits(watchRules, job),
           Accepts(job), ServerDoes(job)
    PROVE  AtHome' /\ RulesKept
<1>1. job \in Job
  BY DEF Sound
<1>2. globalRule' = "global"
  BY DEF ServerDoes, AtHome, SaveFits, Own
<1>3. CASE job.kind = "save" /\ job.channel # "none"
  <2> DEFINE id == IF job.rule = "none" THEN CHOOSE n \in UnusedIds : TRUE ELSE job.rule
             rule == [channel |-> job.channel, text |-> job.text]
  <2>1. watchRules' = [watchRules EXCEPT ![id] = rule] /\ job.channel \in Channel
    BY <1>1, <1>3 DEF ServerDoes, Job
  <2>2. rule \notin NoRule /\ rule.channel = job.channel /\ rule.text = job.text
    BY <2>1, RuleIsLive
  <2>3. job.text \in Own(job.channel)
    BY <1>3 DEF SaveFits
  <2>4. id \in RuleId
        /\ (watchRules[id] = UnusedId \/ (Live(id) /\ watchRules[id].channel = job.channel))
    <3>1. CASE job.rule = "none"
      BY <1>3, <3>1 DEF Accepts, UnusedIds
    <3>2. CASE job.rule # "none"
      BY <1>3, <3>2 DEF Accepts, SaveFits, Of, Live
    <3>3. QED
      BY <3>1, <3>2
  <2> HIDE DEF id, rule
  <2>5. watchRules'[id] = rule /\ \A n \in RuleId \ {id} : watchRules'[n] = watchRules[n]
    BY <2>1, <2>4 DEF Typed
  <2>6. RulesKept
    <3> SUFFICES ASSUME NEW n \in RuleId
                 PROVE  /\ watchRules[n] = Deleted => watchRules'[n] = Deleted
                        /\ Live(n) => \/ watchRules'[n] = Deleted
                                      \/ /\ Live(n)'
                                         /\ watchRules'[n].channel = watchRules[n].channel
      BY DEF RulesKept
    <3>1. CASE n = id
      BY <2>2, <2>4, <2>5, <3>1 DEF Live, NoRule, UnusedId, Deleted
    <3>2. CASE n # id
      BY <2>5, <3>2 DEF Live
    <3>3. QED
      BY <3>1, <3>2
  <2>7. ASSUME NEW n \in RuleId, Live(n)'
        PROVE  watchRules'[n].text \in Own(watchRules'[n].channel)
    <3>1. CASE n = id
      BY <2>2, <2>3, <2>5, <3>1
    <3>2. CASE n # id
      BY <2>5, <2>7, <3>2 DEF AtHome, Live
    <3>3. QED
      BY <3>1, <3>2
  <2>8. QED
    BY <1>2, <2>6, <2>7 DEF AtHome
<1>4. CASE job.kind = "use_global"
  <2>1. watchRules' = [watchRules EXCEPT ![job.rule] = Deleted]
    BY <1>4 DEF ServerDoes
  <2>2. \A n \in RuleId : watchRules'[n] = Deleted \/ watchRules'[n] = watchRules[n]
    BY <2>1 DEF Typed
  <2>3. Deleted \in NoRule
    BY DEF NoRule
  <2>4. QED
    BY <1>2, <2>2, <2>3 DEF AtHome, RulesKept, Live
<1>5. CASE ~(job.kind = "save" /\ job.channel # "none") /\ job.kind # "use_global"
  <2>1. watchRules' = watchRules
    BY <1>5 DEF ServerDoes
  <2>2. QED
    BY <1>2, <2>1 DEF AtHome, RulesKept, Live
<1>6. QED
  BY <1>3, <1>4, <1>5

LEMMA OfKept ==
    ASSUME Parameters, Typed, RulesKept, NEW id, NEW c, Of(watchRules, id, c)
    PROVE  Of(watchRules', id, c)
<1> SUFFICES ASSUME c # "none", id # "none"
             PROVE  /\ id \in RuleId /\ watchRules'[id] # UnusedId
                    /\ Live(id)' => watchRules'[id].channel = c
  BY DEF Of, Live
<1>1. id \in RuleId /\ watchRules[id] # UnusedId /\ (Live(id) => watchRules[id].channel = c)
  BY DEF Of, Live
<1>2. UnusedId # Deleted
  BY DEF UnusedId, Deleted
<1>3. CASE Live(id)
  BY <1>1, <1>2, <1>3 DEF RulesKept, Live, NoRule
<1>4. CASE ~Live(id)
  <2>1. watchRules[id] = Deleted
    BY <1>1, <1>4 DEF Live, NoRule
  <2>2. QED
    BY <1>1, <1>2, <2>1 DEF RulesKept, Live, NoRule
<1>5. QED
  BY <1>3, <1>4

-----------------------------------------------------------------------------
(* The types.                                                               *)

\* Everything but the handlers and the server.
PageTyped ==
    /\ view \in View /\ ruleForm \in Text /\ items \subseteq Channel /\ spins \subseteq Spin
    /\ open \in {"none", "sync", "rule"} \cup Channel
    /\ syncTarget \in Channel \cup {"none"} /\ ruleTarget \in Channel \cup {"none"}
    /\ ruleScope \in {"global", "channel"} /\ channelRuleId \in RuleId \cup {"none"}
    /\ busy \in BOOLEAN /\ ruleLoading \in BOOLEAN /\ ruleSaving \in BOOLEAN
    /\ excused \in BOOLEAN /\ failed \in BOOLEAN
    /\ faults \in 0..MaxFaults /\ presses \in 0..MaxPresses /\ clicks \in 0..MaxClicks

Rule == [channel : Channel, text : Text] \cup NoRule
ServerSound == watchRules \in [RuleId -> Rule] /\ globalRule \in Text /\ listens \subseteq Channel

LEMMA TypedParts == Typed <=> PageTyped /\ ServerSound /\ jobs \in Seq(Sound)
  BY DEF Typed, PageTyped, ServerSound, Rule

LEMMA TypedPartsNext == Typed' <=> PageTyped' /\ ServerSound' /\ (jobs \in Seq(Sound))'
  BY DEF Typed, PageTyped, ServerSound, Rule

LEMMA Counted ==
    ASSUME Parameters, Typed
    PROVE  /\ Click => clicks' \in 0..MaxClicks /\ presses' = presses
           /\ Press => clicks' \in 0..MaxClicks /\ presses' \in 0..MaxPresses
  BY DEF Parameters, Typed, Click, Press

\* The user begins a handler.
UserBegins ==
    \/ Refresh \/ BatchCheckWebAccess \/ ConfirmSyncHistory \/ ClearChannel
    \/ OpenGlobalRules \/ SaveRule \/ UseGlobalRule
    \/ \E c \in Channel : CheckWebAccess(c) \/ ToggleListening(c) \/ OpenChannelRules(c)

\* The user works with a dialog.
UserTurns ==
    \/ TypeRule \/ Hide \/ CloseSyncModal \/ CloseRuleModal
    \/ \E c \in Channel : SyncHistory(c) \/ ConfirmClearChannel(c)

\* A handler and the flags that tell of it.
Starts(job) ==
    /\ Begin(job)
    /\ spins' \subseteq Spin /\ spins' \subseteq spins \cup {SpinOf(job)}
    /\ ruleLoading' = (ruleLoading \/ job.kind \in Loading)
    /\ ruleSaving' = (ruleSaving \/ job.kind \in Saving)
    /\ excused' = excused

\* What else the user may change.
Chosen ==
    /\ open \in {"none", "sync", "rule"} \cup Channel
    /\ syncTarget \in Channel \cup {"none"} /\ ruleTarget \in Channel \cup {"none"}
    /\ ruleScope \in {"global", "channel"} /\ channelRuleId \in RuleId \cup {"none"}
    /\ ruleForm \in Text
    /\ presses \in 0..MaxPresses /\ clicks \in 0..MaxClicks
    /\ Targets

\* A begun handler that keeps what is promised of dialogs and saves.
BeginsWell(job) ==
    /\ Starts(job) /\ Chosen'
    /\ ~excused /\ Unmixed => FormFits' /\ SaveFits(watchRules, job)

LEMMA RulesUnchanged == ASSUME UNCHANGED watchRules PROVE RulesKept
  BY DEF Live, RulesKept

LEMMA DialogUnchanged ==
    ASSUME UNCHANGED <<open, ruleTarget, channelRuleId, ruleForm, watchRules>>,
           ruleLoading => ruleLoading', FormFits
    PROVE  FormFits'
  BY DEF FormFits, Own, Of

LEMMA TargetsUnchanged ==
    ASSUME UNCHANGED <<open, syncTarget, ruleScope, ruleTarget>>, Targets
    PROVE  Targets'
  BY DEF Targets

LEMMA RowButtonWell ==
    ASSUME Parameters, Typed, Targets, NEW job \in Sound, RowButton(job),
           \/ job.kind \in {"sync", "check", "listen", "unlisten", "clear"}
           \/ job = NewJob("batch", "none")
    PROVE  BeginsWell(job)
<1>1. /\ SpinOf(job) \in Spin /\ job.kind \notin Loading /\ job.kind \notin Saving
      /\ job.kind # "save"
  BY SpinTyped DEF NewJob, Loading, Saving
<1>2. Starts(job)
  BY <1>1 DEF RowButton, Starts, Typed, ruleWaits
<1>3. Chosen'
  BY Counted, TargetsUnchanged DEF RowButton, Chosen, Typed, ruleDialog
<1>4. Unmixed /\ ~excused => FormFits'
  BY DialogUnchanged DEF RowButton, ruleDialog, ruleWaits, Unmixed, Begin, server
<1>5. SaveFits(watchRules, job)
  BY <1>1 DEF SaveFits
<1>6. QED
  BY <1>2, <1>3, <1>4, <1>5 DEF BeginsWell

LEMMA ConfirmedWell ==
    ASSUME Parameters, Typed, Targets, NEW c \in Channel, NEW kind \in {"sync", "clear"},
           Confirmed(NewJob(kind, c))
    PROVE  NewJob(kind, c) \in Sound /\ BeginsWell(NewJob(kind, c))
<1> DEFINE job == NewJob(kind, c)
<1>1. job \in Job /\ job.kind = kind /\ job.channel = c
  BY NewJobTyped DEF Kind, Pressed
<1>2. job \in Sound
  BY <1>1 DEF Sound, Loading
<1>3. /\ SpinOf(job) \in Spin /\ job.kind \notin Loading /\ job.kind \notin Saving
      /\ job.kind # "save"
  BY <1>1, <1>2, SpinTyped DEF Loading, Saving
<1> HIDE DEF job
<1>4. Confirmed(job)
  BY DEF job
<1>5. Starts(job)
  BY <1>3, <1>4 DEF Confirmed, Starts, Typed, ruleWaits
<1>6. Chosen'
  BY <1>4, TargetsUnchanged DEF Confirmed, Chosen, Typed, ruleDialog
<1>7. Unmixed /\ ~excused => FormFits'
  BY <1>4, DialogUnchanged DEF Confirmed, ruleDialog, ruleWaits, Unmixed, Begin, server
<1>8. SaveFits(watchRules, job)
  BY <1>3 DEF SaveFits
<1>9. BeginsWell(job)
  BY <1>5, <1>6, <1>7, <1>8 DEF BeginsWell
<1>10. QED
  BY <1>2, <1>9 DEF job

LEMMA RefreshWell ==
    ASSUME Parameters, Typed, Targets, Refresh
    PROVE  \E job \in Sound : BeginsWell(job)
<1> DEFINE job == NewJob("load", "none")
<1>1. job \in Sound /\ job.kind = "load"
  BY NewJobTyped DEF Sound, Kind, Pressed
<1> HIDE DEF job
<1>2. Begin(job) /\ Press
      /\ UNCHANGED <<spins, ruleWaits, open, syncTarget, ruleDialog, excused>>
  BY DEF Refresh, job
<1>3. Starts(job)
  BY <1>1, <1>2 DEF Starts, Typed, ruleWaits, Loading, Saving
<1>4. Chosen'
  BY <1>2, Counted, TargetsUnchanged DEF Chosen, Typed, ruleDialog
<1>5. Unmixed /\ ~excused => FormFits'
  BY <1>2, DialogUnchanged DEF ruleDialog, ruleWaits, Unmixed, Begin, server
<1>6. SaveFits(watchRules, job)
  BY <1>1 DEF SaveFits
<1>7. QED
  BY <1>1, <1>3, <1>4, <1>5, <1>6 DEF BeginsWell

LEMMA OpenRuleWell ==
    ASSUME Parameters, Typed, NEW kind \in Loading, NEW c \in Channel \cup {"none"},
           IF kind = "analyze" THEN c \in Channel /\ ruleScope' = "channel"
                               ELSE c = "none" /\ ruleScope' = "global",
           channelRuleId' = "none", OpenRuleModal(NewJob(kind, c))
    PROVE  NewJob(kind, c) \in Sound /\ BeginsWell(NewJob(kind, c))
<1> DEFINE job == NewJob(kind, c)
<1>1. job \in Job /\ job.kind = kind /\ job.channel = c
  BY NewJobTyped DEF Kind, Loading
<1>2. job \in Sound
  BY <1>1, NewJobTyped DEF Sound, Loading, Kind
<1> HIDE DEF job
<1>3. OpenRuleModal(job)
  BY DEF job
<1>4. Starts(job)
  BY <1>1, <1>3 DEF OpenRuleModal, Starts, Typed, Loading, Saving
<1>5. Chosen'
  <2>1. clicks' \in 0..MaxClicks /\ presses' = presses
    BY <1>3, Counted DEF OpenRuleModal
  <2>2. Targets'
    BY <1>1, <1>3 DEF OpenRuleModal, Targets, Loading
  <2>3. QED
    BY <1>1, <1>3, <2>1, <2>2 DEF OpenRuleModal, Chosen, Typed, Text
<1>6. FormFits'
  BY <1>3 DEF OpenRuleModal, FormFits, Of
<1>7. SaveFits(watchRules, job)
  BY <1>1 DEF SaveFits, Loading
<1>8. BeginsWell(job)
  BY <1>4, <1>5, <1>6, <1>7 DEF BeginsWell
<1>9. QED
  BY <1>2, <1>8 DEF job

LEMMA SaveRuleWell ==
    ASSUME Parameters, Typed, Targets, SaveRule
    PROVE  \E job \in Sound : BeginsWell(job)
<1> DEFINE job == [NewJob("save", ruleTarget) EXCEPT !.rule = channelRuleId, !.text = ruleForm]
<1>1. /\ job \in Sound /\ job.kind = "save" /\ job.channel = ruleTarget
      /\ job.rule = channelRuleId /\ job.text = ruleForm
  BY DEF NewJob, Sound, Job, Kind, Typed
<1> HIDE DEF job
<1>2. /\ Begin(job) /\ Click /\ ruleSaving' = TRUE /\ open = "rule" /\ ~ruleLoading
      /\ UNCHANGED <<spins, ruleLoading, open, syncTarget, ruleDialog, excused>>
  BY DEF SaveRule, job
<1>3. Starts(job)
  BY <1>1, <1>2 DEF Starts, Typed, Loading, Saving
<1>4. Chosen'
  BY <1>2, Counted, TargetsUnchanged DEF Chosen, Typed, ruleDialog
<1>5. Unmixed /\ ~excused => FormFits'
  BY <1>2, DialogUnchanged DEF ruleDialog, Unmixed, Begin, server
<1>6. Unmixed /\ ~excused => SaveFits(watchRules, job)
  BY <1>1, <1>2 DEF SaveFits, Unmixed, FormFits
<1>7. QED
  BY <1>1, <1>3, <1>4, <1>5, <1>6 DEF BeginsWell

LEMMA UseGlobalRuleWell ==
    ASSUME Parameters, Typed, Targets, UseGlobalRule
    PROVE  \E job \in Sound : BeginsWell(job)
<1> DEFINE job == [NewJob("use_global", ruleTarget) EXCEPT !.rule = channelRuleId]
<1>1. ruleTarget \in Channel
  BY DEF UseGlobalRule, Targets
<1>2. job \in Sound /\ job.kind = "use_global"
  BY <1>1 DEF NewJob, Sound, Job, Kind, Typed, Text
<1> HIDE DEF job
<1>3. /\ Begin(job) /\ Click /\ ruleSaving' = TRUE
      /\ UNCHANGED <<spins, ruleLoading, open, syncTarget, ruleDialog, excused>>
  BY DEF UseGlobalRule, job
<1>4. Starts(job)
  BY <1>2, <1>3 DEF Starts, Typed, Loading, Saving
<1>5. Chosen'
  BY <1>3, Counted, TargetsUnchanged DEF Chosen, Typed, ruleDialog
<1>6. Unmixed /\ ~excused => FormFits'
  BY <1>3, DialogUnchanged DEF ruleDialog, Unmixed, Begin, server
<1>7. SaveFits(watchRules, job)
  BY <1>2 DEF SaveFits
<1>8. QED
  BY <1>2, <1>4, <1>5, <1>6, <1>7 DEF BeginsWell

LEMMA AllBeginWell ==
    ASSUME Parameters, Typed, Targets, UserBegins
    PROVE  \E job \in Sound : BeginsWell(job)
<1>1. CASE BatchCheckWebAccess
  <2>1. NewJob("batch", "none") \in Sound
    BY NewJobTyped DEF Sound, Kind, Pressed
  <2>2. QED
    BY <1>1, <2>1, RowButtonWell DEF BatchCheckWebAccess
<1>2. ASSUME NEW c \in Channel, CheckWebAccess(c) \/ ToggleListening(c)
      PROVE  \E job \in Sound : BeginsWell(job)
  <2>1. PICK kind \in {"check", "listen", "unlisten"} : RowButton(NewJob(kind, c))
    BY <1>2 DEF CheckWebAccess, ToggleListening
  <2>2. NewJob(kind, c) \in Job /\ NewJob(kind, c).kind = kind /\ NewJob(kind, c).channel = c
    BY NewJobTyped DEF Kind, Pressed
  <2>3. NewJob(kind, c) \in Sound
    BY <2>2 DEF Sound, Loading
  <2>4. QED
    BY <2>1, <2>2, <2>3, RowButtonWell
<1>3. CASE ConfirmSyncHistory \/ ClearChannel
  BY <1>3, ConfirmedWell DEF ConfirmSyncHistory, ClearChannel, Targets
<1>4. ASSUME NEW c \in Channel, OpenChannelRules(c)
      PROVE  \E job \in Sound : BeginsWell(job)
  BY <1>4, OpenRuleWell DEF OpenChannelRules, Loading
<1>5. CASE OpenGlobalRules
  BY <1>5, OpenRuleWell DEF OpenGlobalRules, Loading
<1>6. QED
  BY <1>1, <1>2, <1>3, <1>4, <1>5, RefreshWell, SaveRuleWell, UseGlobalRuleWell DEF UserBegins

-----------------------------------------------------------------------------
(* The steps.                                                               *)

\* What a step keeps.  Of the rules it is said for every step that begins
\* unmixed, even if it is the one that mixes up the dialogs.
StepWell ==
    /\ Typed' /\ Targets' /\ Waits' /\ RowsTrue'
    /\ ~excused => AtHome' /\ RulesKept
    /\ ~excused' => ~excused /\ FormFits' /\ JobsFit'

LEMMA ServerUnchanged ==
    ASSUME UNCHANGED server
    PROVE  /\ ServerSound => ServerSound'
           /\ AtHome => AtHome'
           /\ RulesKept
  BY RulesUnchanged DEF server, ServerSound, AtHome, Live

LEMMA SaveFitsKept ==
    ASSUME Parameters, Typed, RulesKept, NEW a, NEW b, SaveFits(watchRules, a),
           Alike(b, a) \/ b = a
    PROVE  SaveFits(watchRules', b)
  BY OfKept DEF SaveFits, Alike, Own

LEMMA BeginStep ==
    ASSUME Parameters, Inv, NEW job \in Sound, BeginsWell(job)
    PROVE  StepWell
<1>1. /\ Begin(job) /\ Starts(job) /\ Typed /\ Waits /\ RowsTrue
      /\ UNCHANGED <<view, server, items, failed, faults>> /\ busy' = TRUE
  BY Begun DEF BeginsWell, Starts, Inv
<1>2. Typed'
  BY <1>1, Begun, ServerUnchanged, TypedParts, TypedPartsNext
  DEF BeginsWell, Starts, Chosen, PageTyped
<1>3. Targets'
  BY DEF BeginsWell, Chosen
<1>4. Waits'
  <2>1. Kinds' = Kinds \cup {job.kind} /\ Spinning' = Spinning \cup {SpinOf(job)}
    BY <1>1, KindsBegun
  <2>2. QED
    BY <1>1, <2>1 DEF Starts, Waits
<1>5. RowsTrue'
  BY <1>1 DEF RowsTrue, server
<1>6. ASSUME ~excused PROVE AtHome' /\ RulesKept
  BY <1>1, <1>6, ServerUnchanged DEF Inv, Unmixed
<1>7. ASSUME ~excused' PROVE ~excused /\ FormFits' /\ JobsFit'
  <2>1. ~excused /\ FormFits' /\ SaveFits(watchRules, job) /\ JobsFit /\ RulesKept
    BY <1>1, <1>6, <1>7 DEF BeginsWell, Starts, Inv, Unmixed
  <2>2. ASSUME NEW k \in DOMAIN jobs'
        PROVE  (jobs'[k].kind \in Loading => ruleLoading') /\ SaveFits(watchRules', jobs'[k])
    <3>1. CASE jobs'[k] = job
      BY <1>1, <2>1, <3>1, SaveFitsKept DEF Starts
    <3>2. CASE k \in DOMAIN jobs /\ jobs'[k] = jobs[k]
      <4>1. SaveFits(watchRules', jobs'[k])
        BY <1>1, <2>1, <3>2, SaveFitsKept DEF JobsFit
      <4>2. QED
        BY <1>1, <2>1, <3>2, <4>1 DEF Starts, JobsFit
    <3>3. QED
      BY <1>1, <3>1, <3>2, Begun
  <2>3. QED
    BY <2>1, <2>2 DEF JobsFit
<1>8. QED
  BY <1>2, <1>3, <1>4, <1>5, <1>6, <1>7 DEF StepWell

LEMMA TurnTyped == ASSUME Parameters, Typed, Targets, UserTurns PROVE Typed'
<1>1. jobs' \in Seq(Sound)
  BY HideJobs
  DEF UserTurns, TypeRule, CloseSyncModal, CloseRuleModal, SyncHistory, ConfirmClearChannel,
      OpenFor, Typed
<1>2. ServerSound'
  BY ServerUnchanged, TypedParts
  DEF UserTurns, TypeRule, Hide, CloseSyncModal, CloseRuleModal, SyncHistory,
      ConfirmClearChannel, OpenFor
<1>3. CASE TypeRule
  <2>1. ruleForm' \in Text
    BY <1>3 DEF TypeRule, Targets, Text, Typed
  <2>2. QED
    BY <1>1, <1>2, <1>3, <2>1, TypedParts, TypedPartsNext
    DEF TypeRule, PageTyped, ruleWaits
<1>4. CASE Hide \/ CloseSyncModal \/ CloseRuleModal
  BY <1>1, <1>2, <1>4, TypedParts, TypedPartsNext
  DEF Hide, CloseSyncModal, CloseRuleModal, PageTyped, ruleWaits, ruleDialog
<1>5. ASSUME NEW c \in Channel, SyncHistory(c) \/ ConfirmClearChannel(c) PROVE Typed'
  <2>1. clicks' \in 0..MaxClicks /\ presses' \in 0..MaxPresses
    BY <1>5, Counted DEF SyncHistory, ConfirmClearChannel, OpenFor
  <2>2. QED
    BY <1>1, <1>2, <1>5, <2>1, TypedParts, TypedPartsNext
    DEF SyncHistory, ConfirmClearChannel, OpenFor, PageTyped, ruleWaits, ruleDialog
<1>6. QED
  BY <1>3, <1>4, <1>5 DEF UserTurns

LEMMA TurnStep == ASSUME Parameters, Inv, UserTurns PROVE StepWell
<1>1. /\ UNCHANGED <<server, spins, busy, ruleLoading, ruleSaving, items, failed, excused>>
      /\ Typed /\ Targets /\ Waits /\ RowsTrue
  BY DEF UserTurns, TypeRule, Hide, CloseSyncModal, CloseRuleModal, SyncHistory,
         ConfirmClearChannel, OpenFor, ruleWaits, Inv
<1>2. /\ DOMAIN jobs' = DOMAIN jobs
      /\ \A k \in DOMAIN jobs : Alike(jobs'[k], jobs[k])
  BY <1>1, HideJobs
  DEF UserTurns, TypeRule, CloseSyncModal, CloseRuleModal, SyncHistory, ConfirmClearChannel,
      OpenFor, Alike
<1>3. Targets'
  BY <1>1
  DEF UserTurns, TypeRule, Hide, CloseSyncModal, CloseRuleModal, SyncHistory,
      ConfirmClearChannel, OpenFor, Targets, ruleDialog, Parameters
<1>4. Waits'
  <2>1. Kinds' = Kinds /\ Spinning' = Spinning
    BY <1>2, KindsKept DEF Alike
  <2>2. QED
    BY <1>1, <2>1 DEF Waits
<1>5. RowsTrue'
  BY <1>1 DEF RowsTrue, server
<1>6. RulesKept /\ (AtHome => AtHome')
  BY <1>1, ServerUnchanged
<1>7. ASSUME ~excused, FormFits PROVE FormFits'
  <2>1. CASE TypeRule
    <3>1. UNCHANGED <<watchRules, channelRuleId, ruleTarget, ruleLoading, open>>
      BY <2>1 DEF TypeRule, server, ruleWaits
    <3>2. ruleForm' \in Own(ruleTarget)
      BY <1>1, <2>1 DEF TypeRule, Own, Targets, Parameters
    <3>3. QED
      BY <1>7, <2>1, <3>1, <3>2 DEF TypeRule, FormFits, Own, Of
  <2>2. CASE Hide \/ CloseSyncModal \/ CloseRuleModal
             \/ \E c \in Channel : SyncHistory(c) \/ ConfirmClearChannel(c)
    BY <2>2 DEF Hide, CloseSyncModal, CloseRuleModal, SyncHistory, ConfirmClearChannel, OpenFor,
                FormFits, Parameters
  <2>3. QED
    BY <2>1, <2>2 DEF UserTurns
<1>8. ASSUME ~excused, JobsFit PROVE JobsFit'
  <2>1. ASSUME NEW k \in DOMAIN jobs' PROVE SaveFits(watchRules', jobs'[k])
    BY <1>1, <1>2, <1>6, <1>8, SaveFitsKept DEF JobsFit
  <2>2. QED
    BY <1>1, <1>2, <1>8, <2>1 DEF JobsFit, Alike
<1>9. QED
  BY <1>1, <1>3, <1>4, <1>5, <1>6, <1>7, <1>8, TurnTyped DEF StepWell, Inv, Unmixed

-----------------------------------------------------------------------------
(* The answers.                                                             *)

\* A handler that ends takes down what it put up, and nothing else.
LEMMA EndedWaits ==
    ASSUME Typed, Waits, NEW k \in DOMAIN jobs, NEW ok \in BOOLEAN, Ends(k, ok), busy' = FALSE
    PROVE  Waits'
<1>1. /\ Kinds \subseteq Kinds' \cup {jobs[k].kind}
      /\ Spinning \subseteq Spinning' \cup {SpinOf(jobs[k])}
  BY KindsEnded
<1>2. spins' \subseteq Spinning'
  BY <1>1 DEF Ends, Waits
<1>3. ruleLoading' => Kinds' \cap Loading # {}
  BY <1>1 DEF Ends, Waits, Loading
<1>4. ruleSaving' => Kinds' \cap Saving # {}
  BY <1>1 DEF Ends, Waits, Saving
<1>5. QED
  BY <1>2, <1>3, <1>4 DEF Waits

\* The others are as they were, and the rules of at most one dialog are on
\* their way, unless the dialogs are mixed up.
LEMMA EndedJobs ==
    ASSUME Parameters, Typed, JobsFit, RulesKept, NEW k \in DOMAIN jobs, NEW ok \in BOOLEAN,
           Ends(k, ok),
           jobs[k].kind \in Loading => \A j \in DOMAIN jobs \ {k} : jobs[j].kind \notin Loading
    PROVE  JobsFit'
<1> SUFFICES ASSUME NEW m \in DOMAIN jobs'
             PROVE  (jobs'[m].kind \in Loading => ruleLoading') /\ SaveFits(watchRules', jobs'[m])
  BY DEF JobsFit
<1>1. PICK j \in DOMAIN jobs \ {k} : Alike(jobs'[m], jobs[j])
  BY Ended DEF Left
<1>2. SaveFits(watchRules', jobs'[m])
  BY <1>1, SaveFitsKept DEF JobsFit
<1>3. jobs'[m].kind \in Loading => ruleLoading'
  BY <1>1 DEF JobsFit, Ends, Loading, Alike
<1>4. QED
  BY <1>2, <1>3

LEMMA Closed ==
    ASSUME Parameters, Typed, Targets, NEW job \in Sound, Closes(job)
    PROVE  /\ Targets'
           /\ open' \in {"none", "sync", "rule"} \cup Channel
           /\ syncTarget' \in Channel \cup {"none"} /\ ruleTarget' \in Channel \cup {"none"}
           /\ UNCHANGED <<ruleScope, ruleForm>>
           /\ channelRuleId' \in RuleId \cup {"none"}
           /\ open' = "rule" =>
                 open = "rule" /\ UNCHANGED <<ruleTarget, channelRuleId>>
  BY DEF Closes, Targets, Typed, ruleDialog, Parameters

LEMMA FormKept ==
    ASSUME Parameters, Typed, RulesKept, FormFits, ruleLoading => ruleLoading',
           open' = "rule" => UNCHANGED <<open, ruleTarget, channelRuleId, ruleForm>>
    PROVE  FormFits'
<1> SUFFICES ASSUME open' = "rule"
             PROVE  /\ ruleForm' \in Own(ruleTarget') \cup {"default"}
                    /\ ~ruleLoading' => ruleForm' \in Own(ruleTarget')
                    /\ Of(watchRules', channelRuleId', ruleTarget')
  BY DEF FormFits, Own
<1>1. Of(watchRules, channelRuleId, ruleTarget)
  BY DEF FormFits
<1>2. Of(watchRules', channelRuleId', ruleTarget')
  BY <1>1, OfKept
<1>3. QED
  BY <1>2 DEF FormFits

\* What a request does to the server, if it may do it.
LEMMA RequestKeeps ==
    ASSUME Parameters, Typed, NEW k \in DOMAIN jobs,
           jobs[k].at = "ask" /\ Accepts(jobs[k]) /\ ServerDoes(jobs[k])
    PROVE  /\ ServerSound'
           /\ ~excused /\ Unmixed => AtHome' /\ RulesKept
<1>1. jobs[k] \in Sound
  BY JobAt
<1>2. ServerSound'
  BY <1>1, ServerTyped DEF ServerSound, Rule
<1>3. ASSUME ~excused, Unmixed PROVE AtHome' /\ RulesKept
  <2>1. AtHome /\ SaveFits(watchRules, jobs[k])
    BY <1>3 DEF Unmixed, JobsFit
  <2>2. QED
    BY <1>1, <2>1, ServerKeepsHome
<1>4. QED
  BY <1>2, <1>3

LEMMA GoesOnStep == ASSUME Parameters, Inv, NEW k \in DOMAIN jobs, GoesOn(k) PROVE StepWell
<1> DEFINE job == jobs[k]
<1>1. /\ Typed /\ Targets /\ Waits /\ RowsTrue /\ Unmixed
      /\ job \in Sound /\ job \in Job
  BY JobAt DEF Inv
<1>2. /\ job.at = "ask" /\ Accepts(job) /\ ServerDoes(job) /\ busy' = TRUE
      /\ job.kind \in {"check", "batch", "use_global", "save"}
      /\ UNCHANGED <<view, items, spins, ruleLoading, ruleSaving, open, syncTarget, ruleScope,
                     ruleTarget, channelRuleId, ruleForm, excused, failed, faults, presses, clicks>>
  BY DEF GoesOn, ruleWaits, ruleDialog
<1>3. /\ jobs' \in Seq(Sound) /\ DOMAIN jobs' = DOMAIN jobs
      /\ \A j \in DOMAIN jobs : j # k => jobs'[j] = jobs[j]
      /\ jobs'[k].kind = job.kind /\ jobs'[k].channel = job.channel /\ jobs'[k].at = "load"
  BY <1>1, GoesOnJobs
<1>4. ServerSound' /\ (~excused => AtHome' /\ RulesKept)
  BY <1>1, <1>2, RequestKeeps
<1> HIDE DEF job
<1>5. Typed'
  <2>1. PageTyped
    BY <1>1, TypedParts
  <2>2. PageTyped'
    BY <1>2, <2>1 DEF PageTyped
  <2>3. QED
    BY <1>3, <1>4, <2>2, TypedPartsNext
<1>6. Targets'
  BY <1>1, <1>2, TargetsUnchanged
<1>7. Waits'
  <2>1. Kinds' = Kinds /\ Spinning' = Spinning
    BY <1>3, KindsKept DEF job
  <2>2. Kinds # {}
    BY DEF Kinds
  <2>3. QED
    BY <1>1, <1>2, <2>1, <2>2 DEF Waits
<1>8. RowsTrue'
  BY <1>1, <1>2 DEF RowsTrue, ServerDoes
<1>9. ASSUME ~excused' PROVE ~excused /\ FormFits' /\ JobsFit'
  <2>1. ~excused /\ FormFits /\ JobsFit /\ RulesKept
    BY <1>1, <1>2, <1>4, <1>9 DEF Unmixed
  <2>2. FormFits'
    BY <1>1, <1>2, <2>1, FormKept
  <2>3. ASSUME NEW j \in DOMAIN jobs'
        PROVE  (jobs'[j].kind \in Loading => ruleLoading') /\ SaveFits(watchRules', jobs'[j])
    <3>1. CASE j = k
      BY <1>2, <1>3, <3>1 DEF SaveFits, Loading
    <3>2. CASE j # k
      <4>1. jobs'[j] = jobs[j] /\ j \in DOMAIN jobs
        BY <1>3, <3>2
      <4>2. SaveFits(watchRules', jobs'[j])
        BY <1>1, <2>1, <4>1, SaveFitsKept DEF JobsFit
      <4>3. QED
        BY <1>2, <2>1, <4>1, <4>2 DEF JobsFit
    <3>3. QED
      BY <3>1, <3>2
  <2>4. QED
    BY <2>1, <2>2, <2>3 DEF JobsFit
<1>10. QED
  BY <1>4, <1>5, <1>6, <1>7, <1>8, <1>9 DEF StepWell

\* An answer that ends its handler and may close a dialog.
LEMMA ClosingStep ==
    ASSUME Parameters, Inv, NEW k \in DOMAIN jobs, jobs[k].kind \notin Loading,
           Ends(k, TRUE), Closes(jobs[k]), busy' = FALSE, ServerSound', RowsTrue',
           items' \subseteq Channel, failed' \in BOOLEAN, ~excused => AtHome' /\ RulesKept,
           UNCHANGED <<view, excused, faults, presses, clicks>>
    PROVE  StepWell
<1>1. Typed /\ Targets /\ Waits /\ Unmixed /\ jobs[k] \in Sound
  BY JobAt DEF Inv
<1>2. /\ jobs' \in Seq(Sound) /\ spins' = spins \ {SpinOf(jobs[k])}
      /\ ruleLoading' \in BOOLEAN /\ ruleSaving' \in BOOLEAN
      /\ ruleLoading => ruleLoading'
  BY <1>1, Ended DEF Ends, Loading
<1>3. /\ Targets'
      /\ open' \in {"none", "sync", "rule"} \cup Channel
      /\ syncTarget' \in Channel \cup {"none"} /\ ruleTarget' \in Channel \cup {"none"}
      /\ UNCHANGED <<ruleScope, ruleForm>>
      /\ channelRuleId' \in RuleId \cup {"none"}
      /\ open' = "rule" => open = "rule" /\ UNCHANGED <<ruleTarget, channelRuleId>>
  BY <1>1, Closed
<1>4. Typed'
  <2>1. PageTyped'
    BY <1>1, <1>2, <1>3 DEF Typed, PageTyped
  <2>2. QED
    BY <1>2, <2>1, TypedPartsNext
<1>5. Waits'
  BY <1>1, EndedWaits
<1>6. ASSUME ~excused' PROVE ~excused /\ FormFits' /\ JobsFit'
  <2>1. ~excused /\ FormFits /\ JobsFit /\ RulesKept
    BY <1>1, <1>6 DEF Unmixed
  <2>2. FormFits'
    BY <1>1, <1>2, <1>3, <2>1, FormKept
  <2>3. JobsFit'
    BY <1>1, <2>1, EndedJobs
  <2>4. QED
    BY <2>1, <2>2, <2>3
<1>7. QED
  BY <1>3, <1>4, <1>5, <1>6 DEF StepWell

LEMMA AnsweredStep == ASSUME Parameters, Inv, NEW k \in DOMAIN jobs, Answered(k) PROVE StepWell
<1> DEFINE job == jobs[k]
<1>1. Typed /\ RowsTrue /\ Unmixed /\ job \in Sound /\ job \in Job
  BY JobAt DEF Inv
<1>2. /\ job.at = "ask" /\ ServerDoes(job) /\ busy' = FALSE
      /\ job.kind \in {"sync", "listen", "unlisten", "clear", "save"}
      /\ job.kind = "save" => job.channel = "none"
      /\ job.kind # "save" => job.channel \in Channel
      /\ items' = IF job.kind \in {"sync", "save"} THEN items
                  ELSE (items \ {job.channel}) \cup (listens' \cap {job.channel})
      /\ Ends(k, TRUE) /\ Closes(job)
      /\ UNCHANGED <<view, excused, failed, faults, presses, clicks>>
  BY <1>1 DEF Answered, Sound
<1>3. Accepts(job) /\ job.kind \notin Loading
  BY <1>2 DEF Accepts, Loading
<1>4. ServerSound' /\ (~excused => AtHome' /\ RulesKept)
  BY <1>1, <1>2, <1>3, RequestKeeps
<1>5. items' \subseteq Channel
  BY <1>1, <1>2 DEF Typed
<1>6. RowsTrue'
  <2> HIDE DEF job
  <2>1. CASE failed
    BY <1>2, <2>1 DEF RowsTrue
  <2>2. CASE items = listens
    <3>1. CASE job.kind \in {"sync", "save"}
      BY <1>2, <2>2, <3>1 DEF RowsTrue, ServerDoes
    <3>2. CASE job.kind = "listen"
      BY <1>2, <2>2, <3>2 DEF RowsTrue, ServerDoes
    <3>3. CASE job.kind \in {"unlisten", "clear"}
      BY <1>2, <2>2, <3>3 DEF RowsTrue, ServerDoes
    <3>4. QED
      BY <1>2, <3>1, <3>2, <3>3
  <2>3. QED
    BY <1>1, <2>1, <2>2 DEF RowsTrue
<1>7. failed' \in BOOLEAN
  BY <1>1, <1>2 DEF Typed
<1>8. QED
  BY <1>2, <1>3, <1>4, <1>5, <1>6, <1>7, ClosingStep

LEMMA ListedStep == ASSUME Parameters, Inv, NEW k \in DOMAIN jobs, Listed(k) PROVE StepWell
<1>1. Typed /\ Unmixed /\ jobs[k] \in Sound
  BY JobAt DEF Inv
<1>2. /\ jobs[k].at = "load" /\ items' = listens /\ busy' = FALSE /\ failed' = FALSE
      /\ Ends(k, TRUE) /\ Closes(jobs[k])
      /\ UNCHANGED <<view, server, excused, faults, presses, clicks>>
  BY DEF Listed
<1>3. jobs[k].kind \notin Loading
  BY <1>1, <1>2 DEF Sound
<1>4. ServerSound' /\ (~excused => AtHome' /\ RulesKept)
  BY <1>1, <1>2, ServerUnchanged, TypedParts DEF Unmixed
<1>5. items' \subseteq Channel /\ RowsTrue'
  BY <1>1, <1>2 DEF Typed, RowsTrue, server
<1>6. QED
  BY <1>2, <1>3, <1>4, <1>5, ClosingStep

\* The rules that arrive are those of the dialog on screen, or the dialogs
\* are mixed up.
LEMMA ArrivedForm ==
    ASSUME Parameters, Typed, Targets, AtHome, FormFits, NEW k \in DOMAIN jobs, RulesArrive(k),
           ~excused'
    PROVE  FormFits'
<1> DEFINE job == jobs[k]
<1>1. job \in Sound
  BY JobAt
<1>2. /\ job.kind \in Loading /\ job.channel = ruleTarget
      /\ ~(job.kind = "global_rules" /\ ruleScope = "channel")
      /\ UNCHANGED <<server, open, ruleTarget>>
  BY DEF RulesArrive, Loading
<1>3. UNCHANGED watchRules
  BY <1>2 DEF server
<1> SUFFICES ASSUME open = "rule"
             PROVE  /\ ruleForm' \in Own(ruleTarget)
                    /\ Of(watchRules, channelRuleId', ruleTarget)
  BY <1>2, <1>3 DEF FormFits, Own, Of
<1>4. CASE job.kind = "global_rules"
  BY <1>1, <1>2, <1>4 DEF RulesArrive, Sound, Own, AtHome, FormFits
<1>5. CASE job.kind = "analyze"
  <2>1. ruleTarget \in Channel /\ ruleTarget # "none"
    BY <1>1, <1>2, <1>5 DEF Sound, Parameters
  <2>2. CASE UNCHANGED <<ruleForm, channelRuleId>>
    BY <2>1, <2>2 DEF FormFits, Own
  <2>3. ASSUME NEW id \in RulesOf(ruleTarget), ruleForm' = watchRules[id].text,
               channelRuleId' = id
        PROVE  /\ ruleForm' \in Own(ruleTarget)
               /\ Of(watchRules, channelRuleId', ruleTarget)
    <3>1. id \in RuleId /\ Live(id) /\ watchRules[id].channel = ruleTarget
      BY <2>3 DEF RulesOf
    <3>2. watchRules[id].text \in Own(ruleTarget)
      BY <3>1 DEF AtHome
    <3>3. Of(watchRules, id, ruleTarget)
      BY <3>1 DEF Of, Live, NoRule
    <3>4. QED
      BY <2>3, <3>2, <3>3
  <2>4. QED
    BY <1>2, <1>5, <2>2, <2>3 DEF RulesArrive
<1>6. QED
  BY <1>2, <1>4, <1>5 DEF Loading

LEMMA RulesArriveStep ==
    ASSUME Parameters, Inv, NEW k \in DOMAIN jobs, RulesArrive(k)
    PROVE  StepWell
<1>1. Typed /\ Targets /\ Waits /\ RowsTrue /\ Unmixed /\ jobs[k] \in Sound
  BY JobAt DEF Inv
<1>2. /\ jobs[k].kind \in Loading /\ busy' = FALSE /\ Ends(k, TRUE)
      /\ UNCHANGED <<view, server, items, open, syncTarget, ruleScope, ruleTarget, failed, faults,
                     presses, clicks>>
      /\ excused => excused'
      /\ ~excused' => \A j \in DOMAIN jobs \ {k} : jobs[j].kind \notin Loading
  BY DEF RulesArrive, Loading
<1>3. ruleForm' \in Text /\ channelRuleId' \in RuleId \cup {"none"} /\ excused' \in BOOLEAN
  <2>1. CASE UNCHANGED channelRuleId /\ ruleForm' \in {globalRule, ruleForm}
    BY <1>1, <2>1 DEF Typed, RulesArrive
  <2>2. ASSUME NEW id \in RulesOf(jobs[k].channel), ruleForm' = watchRules[id].text,
               channelRuleId' = id
        PROVE  ruleForm' \in Text /\ channelRuleId' \in RuleId \cup {"none"}
    BY <1>1, <2>2, LiveIs DEF RulesOf
  <2>3. excused' \in BOOLEAN
    BY <1>1 DEF RulesArrive, Typed
  <2>4. (UNCHANGED channelRuleId /\ ruleForm' \in {globalRule, ruleForm})
        \/ \E id \in RulesOf(jobs[k].channel) :
              ruleForm' = watchRules[id].text /\ channelRuleId' = id
    BY DEF RulesArrive
  <2>5. QED
    BY <1>1, <2>1, <2>2, <2>3, <2>4 DEF Typed
<1>4. /\ jobs' \in Seq(Sound) /\ spins' = spins \ {SpinOf(jobs[k])}
      /\ ruleLoading' \in BOOLEAN /\ ruleSaving' \in BOOLEAN
  BY <1>1, <1>2, Ended
<1>5. Typed'
  <2>1. ServerSound'
    BY <1>1, <1>2, ServerUnchanged, TypedParts
  <2>2. PageTyped'
    BY <1>1, <1>2, <1>3, <1>4 DEF Typed, PageTyped
  <2>3. QED
    BY <1>4, <2>1, <2>2, TypedPartsNext
<1>6. Targets' /\ RowsTrue'
  BY <1>1, <1>2, TargetsUnchanged DEF RowsTrue, server
<1>7. Waits'
  BY <1>1, <1>2, EndedWaits
<1>8. RulesKept /\ (~excused => AtHome')
  BY <1>1, <1>2, ServerUnchanged DEF Unmixed
<1>9. ASSUME ~excused' PROVE ~excused /\ FormFits' /\ JobsFit'
  <2>1. ~excused /\ AtHome /\ FormFits /\ JobsFit
    BY <1>1, <1>2, <1>9 DEF Unmixed
  <2>2. FormFits'
    BY <1>1, <1>9, <2>1, ArrivedForm
  <2>3. JobsFit'
    BY <1>1, <1>2, <1>8, <1>9, <2>1, EndedJobs
  <2>4. QED
    BY <2>1, <2>2, <2>3
<1>10. QED
  BY <1>5, <1>6, <1>7, <1>8, <1>9 DEF StepWell

LEMMA FailsStep ==
    ASSUME Parameters, Inv, NEW k \in DOMAIN jobs, NEW done \in BOOLEAN, Fails(k, done)
    PROVE  StepWell
<1>1. Typed /\ Targets /\ Waits /\ Unmixed /\ jobs[k] \in Sound
  BY JobAt DEF Inv
<1>2. /\ busy' = FALSE /\ failed' = TRUE /\ Ends(k, FALSE)
      /\ UNCHANGED <<view, items, open, syncTarget, ruleScope, ruleTarget, channelRuleId, ruleForm,
                     presses, clicks>>
      /\ excused' = (excused \/ jobs[k].kind \in Loading)
  BY DEF Fails, ruleDialog, Loading
<1>3. ServerSound' /\ (~excused => AtHome' /\ RulesKept)
  <2>1. CASE done
    BY <1>1, <2>1, RequestKeeps DEF Fails
  <2>2. CASE ~done
    BY <1>1, <2>2, ServerUnchanged, TypedParts DEF Fails, Unmixed
  <2>3. QED
    BY <2>1, <2>2
<1>4. faults' \in 0..MaxFaults
  BY <1>1 DEF Fails, Typed, Parameters
<1>5. /\ jobs' \in Seq(Sound) /\ spins' = spins \ {SpinOf(jobs[k])}
      /\ ruleLoading' \in BOOLEAN /\ ruleSaving' \in BOOLEAN
  BY <1>1, <1>2, Ended
<1>6. Typed'
  <2>1. PageTyped'
    BY <1>1, <1>2, <1>4, <1>5 DEF Typed, PageTyped
  <2>2. QED
    BY <1>3, <1>5, <2>1, TypedPartsNext
<1>7. Targets' /\ RowsTrue'
  BY <1>1, <1>2, TargetsUnchanged DEF RowsTrue
<1>8. Waits'
  BY <1>1, <1>2, EndedWaits
<1>9. ASSUME ~excused' PROVE ~excused /\ FormFits' /\ JobsFit'
  <2>1. ~excused /\ jobs[k].kind \notin Loading /\ FormFits /\ JobsFit /\ RulesKept
    BY <1>1, <1>2, <1>3, <1>9 DEF Unmixed
  <2>2. ruleLoading => ruleLoading'
    BY <1>2, <2>1 DEF Ends, Loading
  <2>3. FormFits'
    BY <1>1, <1>2, <2>1, <2>2, FormKept
  <2>4. JobsFit'
    BY <1>1, <1>2, <2>1, EndedJobs
  <2>5. QED
    BY <2>1, <2>3, <2>4
<1>10. QED
  BY <1>3, <1>6, <1>7, <1>8, <1>9 DEF StepWell

-----------------------------------------------------------------------------
(* The invariant and what follows from it.                                  *)

LEMMA InvInit == ASSUME Parameters, Init PROVE Inv
<1>1. Typed /\ AtHome
  <2> DEFINE id == CHOOSE f \in [Channel -> RuleId] : IsInjective(f)
  <2>1. PICK ruled \in SUBSET Channel :
             watchRules = [n \in RuleId |->
                              IF \E c \in ruled : id[c] = n
                              THEN LET c == CHOOSE c \in ruled : id[c] = n
                                   IN  [channel |-> c, text |-> c]
                              ELSE UnusedId]
    BY Zenon DEF Init
  <2> HIDE DEF id
  <2>2. \A n \in RuleId :
           \/ \E c \in Channel : watchRules[n] = [channel |-> c, text |-> c]
           \/ watchRules[n] = UnusedId
    BY <2>1
  <2>3. watchRules \in [RuleId -> [channel : Channel, text : Text] \cup NoRule]
    <3>1. \A c \in Channel : [channel |-> c, text |-> c] \in [channel : Channel, text : Text]
      BY DEF Text
    <3>2. \A n \in RuleId : watchRules[n] \in [channel : Channel, text : Text] \cup NoRule
      BY <2>2, <3>1 DEF NoRule
    <3>3. watchRules = [n \in RuleId |-> watchRules[n]]
      BY <2>1
    <3>4. QED
      BY <3>2, <3>3
  <2>4. NewJob("load", "none") \in Sound
    BY NewJobTyped DEF Sound, Kind, Pressed, Loading
  <2>5. Typed
    <3>1. <<NewJob("load", "none")>> \in Seq(Sound)
      BY <2>4
    <3>2. 0 \in 0..MaxFaults /\ 0 \in 0..MaxPresses /\ 0 \in 0..MaxClicks
      BY DEF Parameters
    <3>3. QED
      BY <2>3, <3>1, <3>2 DEF Init, Typed, Text
  <2>6. AtHome
    BY <2>2 DEF Init, AtHome, Live, NoRule, Own, Parameters
  <2>7. QED
    BY <2>5, <2>6
<1>2. DOMAIN jobs = {1} /\ jobs[1].kind = "load"
  BY DEF Init, NewJob
<1>3. Waits
  BY <1>2 DEF Init, Waits, Kinds
<1>4. Targets /\ FormFits /\ JobsFit /\ RowsTrue
  BY <1>2 DEF Init, Targets, FormFits, JobsFit, SaveFits, Loading, RowsTrue
<1>5. QED
  BY <1>1, <1>3, <1>4 DEF Inv, Unmixed

LEMMA IdleStep == ASSUME Parameters, Inv, UNCHANGED vars PROVE Inv' /\ RulesKept
<1>1. Typed' /\ Targets' /\ RowsTrue' /\ RulesKept
  BY RulesUnchanged
  DEF vars, server, ruleWaits, ruleDialog, Inv, Typed, Targets, RowsTrue
<1>2. Waits'
  BY DEF vars, ruleWaits, Inv, Waits, Kinds, Spinning
<1>3. Unmixed'
  BY DEF vars, server, ruleWaits, ruleDialog, Inv, Unmixed, AtHome, Live, FormFits, JobsFit, Of,
         SaveFits, Own
<1>4. QED
  BY <1>1, <1>2, <1>3 DEF Inv

LEMMA NextStep == ASSUME Parameters, Inv, Next PROVE StepWell
<1>1. Typed /\ Targets
  BY DEF Inv
<1>2. CASE UserBegins
  BY <1>1, <1>2, AllBeginWell, BeginStep
<1>3. CASE UserTurns
  BY <1>3, TurnStep
<1>4. ASSUME NEW k \in DOMAIN jobs,
             \/ GoesOn(k) \/ Answered(k) \/ Listed(k) \/ RulesArrive(k)
             \/ \E done \in BOOLEAN : Fails(k, done)
      PROVE  StepWell
  BY <1>4, GoesOnStep, AnsweredStep, ListedStep, RulesArriveStep, FailsStep
<1>5. QED
  BY <1>2, <1>3, <1>4 DEF Next, UserBegins, UserTurns

LEMMA InvStep == ASSUME Parameters, Inv, [Next]_vars PROVE Inv'
<1>1. CASE Next
  <2>1. StepWell
    BY <1>1, NextStep
  <2>2. QED
    BY <2>1 DEF StepWell, Inv, Unmixed
<1>2. CASE UNCHANGED vars
  BY <1>2, IdleStep
<1>3. QED
  BY <1>1, <1>2

\* Also a step that changes nothing here leaves every rule at home.
LEMMA StaysHomeStep == ASSUME Parameters, Inv, [Next]_vars PROVE RulesStayHome
<1> SUFFICES ASSUME ~excused PROVE RulesStayHome
  BY DEF RulesStayHome
<1>1. Typed' /\ AtHome' /\ RulesKept
  <2>1. CASE Next
    BY <2>1, NextStep DEF StepWell
  <2>2. CASE UNCHANGED vars
    <3>1. excused' = excused
      BY <2>2 DEF vars
    <3>2. QED
      BY <2>2, <3>1, IdleStep DEF Inv, Unmixed
  <2>3. QED
    BY <2>1, <2>2
<1>2. ASSUME NEW id \in RuleId, Live(id)'
      PROVE  /\ watchRules'[id].text \in {watchRules'[id].channel, "default"}
             /\ Live(id) => watchRules'[id].channel = watchRules[id].channel
  <2>1. watchRules'[id].channel \in Channel
    BY <1>1, <1>2 DEF Typed, Live
  <2>2. watchRules'[id].text \in Own(watchRules'[id].channel)
    BY <1>1, <1>2 DEF AtHome
  <2>3. watchRules'[id] # Deleted
    BY <1>2 DEF Live, NoRule
  <2>4. QED
    BY <1>1, <2>1, <2>2, <2>3 DEF Own, RulesKept, Parameters
<1>3. QED
  BY <1>1, <1>2 DEF AtHome, RulesStayHome

-----------------------------------------------------------------------------
(* The theorems.                                                            *)

\* What the page waits for, what its rows show and whose rule each dialog and
\* each save on its way holds.
THEOREM Invariance == Parameters => (Spec => []Inv)
<1> SUFFICES ASSUME Parameters PROVE Spec => []Inv
  OBVIOUS
<1>1. Init => Inv
  BY InvInit
<1>2. Inv /\ [Next]_vars => Inv'
  BY InvStep
<1>3. QED
  BY <1>1, <1>2, PTL DEF Spec

\* Every state of the page is well typed.
THEOREM TypeCorrect == Parameters => (Spec => []TypeOK)
<1> SUFFICES ASSUME Parameters PROVE Spec => []TypeOK
  OBVIOUS
<1>1. Spec => []Inv
  BY Invariance
<1>2. Inv => TypeOK
  BY InvHolds
<1>3. QED
  BY <1>1, <1>2, PTL

\* Whatever failed, in whatever order the answers came, and however many
\* handlers ran at once: when none is left no button spins, and a row that
\* shows another listening state than the server's was told of a failure.
THEOREM QuietPageCorrect == Parameters => (Spec => []QuietPageIsTrue)
<1> SUFFICES ASSUME Parameters PROVE Spec => []QuietPageIsTrue
  OBVIOUS
<1>1. Spec => []Inv
  BY Invariance
<1>2. Inv => QuietPageIsTrue
  BY InvHolds
<1>3. QED
  BY <1>1, <1>2, PTL

\* A dialog never writes its rule over another's, for any number of channels,
\* ids, dialogs and saves on their way.
THEOREM RulesStayHomeCorrect == Parameters => (Spec => [][RulesStayHome]_vars)
<1> SUFFICES ASSUME Parameters PROVE Spec => [][RulesStayHome]_vars
  OBVIOUS
<1>1. Spec => []Inv
  BY Invariance
<1>2. Inv /\ [Next]_vars => [RulesStayHome]_vars
  <2> SUFFICES ASSUME Inv, [Next]_vars PROVE RulesStayHome
    OBVIOUS
  <2>1. QED
    BY StaysHomeStep
<1>3. QED
  BY <1>1, <1>2, PTL DEF Spec
=============================================================================
