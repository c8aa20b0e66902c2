--------------------------- MODULE SettingsForms ---------------------------
(***************************************************************************)
(* The form of SettingsView that edits the runtime settings, on its tabs    *)
(* for the storage limits and for the AI providers, with what the server    *)
(* makes of it, and the panel that shows the API key.                       *)
(*                                                                         *)
(* The server never sends a provider's key back; an empty key in a request  *)
(* means the one it has, found by the provider's id.  The form is filled    *)
(* again by every answer, whatever was typed since.                        *)
(*                                                                         *)
(* The server reads the stored settings by decoding them into a copy of its *)
(* configuration, which shares the list of providers with it: a provider    *)
(* stored without a key takes the key that stands at its place, an empty    *)
(* list is not written and so leaves the list of the configuration, and     *)
(* each read overwrites the list for the next one, until a restart.         *)
(*                                                                         *)
(* Abstracted: a provider is its id, the vendor whose address it has, and   *)
(* the vendor its key was typed for; one of the two limits stands for both; *)
(* the other fields are passed through.                                    *)
(***************************************************************************)
EXTENDS Naturals, Sequences, SequencesExt

CONSTANTS
    Vendor,     \* the AI provider presets
    Keyless,    \* those that need no key
    RowId,      \* the ids addAIProvider can draw (bound)
    Mega, Giga, \* the size units, in bytes
    MinLimit,   \* minStorageLimitBytes
    Limits,     \* the limits of a configuration file that are considered
    MaxRows,    \* bound: rows of providers
    MaxKey,     \* bound: API keys made
    MaxEdits,   \* bound: changes the user makes to the form
    MaxJobs, MaxFaults, MaxClicks

VARIABLES
    view,     \* the tab: "storage", "ai", or the "api-key" panel
    stored,   \* server: the runtime settings; the configuration file's if none were saved
    config,   \* server: RuntimeConfig of the process
    apiKey,   \* server: the number of the valid API key
    rows,     \* runtimeForm.aiProviders
    vendor,   \* runtimeForm.aiProvider
    limit,    \* runtimeForm.maxDBSize and its unit
    filled,   \* the other fields of runtimeForm hold what the server sent
    typed,    \* the limit was typed since the form was filled
    shown,    \* apiKey.current
    busy,     \* runtimeLoading, apiKey.loading
    jobs,     \* the handlers in flight
    excused,  \* history: see KeysGoHome and KeyShownIsLive
    edits, faults, clicks

form == <<rows, vendor, limit, filled, typed>>
vars == <<view, stored, config, apiKey, form, shown, busy, jobs, excused, edits, faults, clicks>>

FirstVendor == CHOOSE v \in Vendor : TRUE
View == {"storage", "ai", "api-key"}
Id == Vendor \cup RowId
Key == Vendor \cup {"blank"}
Provider == [id : Id, vendor : Vendor, key : Key]
NoProvider == [id |-> FirstVendor, vendor |-> FirstVendor, key |-> "blank"]
Amount == [value : Nat, unit : {"GB", "MB"}]
NoSize == [value |-> 0, unit |-> "GB"]
Settings == [limit |-> 0, providers |-> <<>>, legacy |-> [vendor |-> FirstVendor, key |-> "blank"]]
NoPayload == [limit |-> 0, rows |-> <<>>, vendor |-> FirstVendor, typed |-> FALSE]

IsRows(s) == \A k \in DOMAIN s : s[k] \in Provider

TypeOK ==
    /\ view \in View
    /\ stored.limit \in Nat /\ IsRows(stored.providers) /\ stored.legacy \in [vendor : Vendor, key : Key]
    /\ IsRows(config.array) /\ config.len \in 0..Len(config.array)
    /\ apiKey \in 1..MaxKey /\ shown \in 0..MaxKey
    /\ IsRows(rows) /\ vendor \in Vendor /\ limit \in Amount /\ {filled, typed} \subseteq BOOLEAN
    /\ busy \in BOOLEAN /\ excused \in BOOLEAN
    /\ \A k \in DOMAIN jobs :
          /\ jobs[k].kind \in {"load", "save", "key_load", "regenerate"}
          /\ jobs[k].at \in {"ask", "back", "usage"} /\ jobs[k].key \in 0..MaxKey
    /\ edits \in 0..MaxEdits /\ faults \in 0..MaxFaults /\ clicks \in 0..MaxClicks

NewJob(kind, payload) ==
    [kind |-> kind, at |-> "ask", payload |-> payload, result |-> Settings, key |-> 0]

-----------------------------------------------------------------------------
(* The conversions.                                                         *)

\* (mutant) Bytes that make no whole MB are cut off.
SplitDown(bytes) ==
    IF bytes % Giga = 0 THEN [value |-> bytes \div Giga, unit |-> "GB"]
    ELSE [value |-> bytes \div Mega, unit |-> "MB"]

\* splitSizeForInput
Split(bytes) ==
    IF bytes > 0 /\ bytes % Giga = 0 THEN [value |-> bytes \div Giga, unit |-> "GB"]
    ELSE [value |-> (bytes + Mega - 1) \div Mega, unit |-> "MB"]

\* sizeLimitBytes, which throws unless Legal
Bytes(size) == size.value * (IF size.unit = "GB" THEN Giga ELSE Mega)
Legal(size) == size.value > 0 /\ Bytes(size) >= MinLimit

\* EffectiveProviders: without a list the old single provider counts.
Effective(s) ==
    IF s.providers # <<>> THEN s.providers
    ELSE <<[id |-> s.legacy.vendor, vendor |-> s.legacy.vendor, key |-> s.legacy.key]>>

\* The list of RuntimeConfig is the first len elements of array, its backing
\* store; what a list was decoded into stays there, beyond len too.
Remembered(k, c) == IF k \in DOMAIN c.array THEN c.array[k].key ELSE "blank"

Decoded(list, c) ==
    [k \in DOMAIN list |->
        [list[k] EXCEPT !.key = IF @ = "blank" THEN Remembered(k, c) ELSE @]]

\* LoadRuntimeSettings: empty fields are not in the stored text.
Loaded(s, c) ==
    [limit |-> s.limit,
     legacy |-> [s.legacy EXCEPT !.key = IF @ = "blank" THEN c.legacy.key ELSE @],
     providers |-> IF s.providers = <<>> THEN SubSeq(c.array, 1, c.len)
                   ELSE Decoded(s.providers, c)]

\* ... and what it makes of the configuration it was given.
Overwritten(s, c) ==
    [c EXCEPT !.array = [k \in DOMAIN c.array |-> IF k \in DOMAIN s.providers
                                                 THEN Decoded(s.providers, c)[k] ELSE c.array[k]]]

\* main: the settings are loaded over the configuration file and become the
\* configuration of the process.  A list that outgrows that of the file is
\* copied to a new array, which may be up to twice as long.
Started(file, s, capacity) ==
    LET fresh == [file |-> file, array |-> file.providers, len |-> Len(file.providers),
                  legacy |-> file.legacy]
        read == Loaded(s, fresh)
    IN
    [file |-> file, legacy |-> read.legacy, len |-> Len(read.providers),
     array |-> [k \in 1..capacity |->
                   IF k \in DOMAIN read.providers THEN read.providers[k]
                   ELSE IF k \in DOMAIN file.providers THEN file.providers[k] ELSE NoProvider]]

Capacity(file, s) ==
    IF Len(s.providers) <= Len(file.providers) THEN {Len(file.providers)}
    ELSE Len(s.providers)..(2 * Len(s.providers))

\* What the handlers of the server see of the settings.
Current == Loaded(stored, config)
Known == Effective(Current)

\* A provider without a key is stored at a place that remembers one.
Inherits(s, c) ==
    \E k \in DOMAIN s.providers : s.providers[k].key = "blank" /\ Remembered(k, c) # "blank"

\* (mutant) A blank key is looked up by the place of the row.
PreserveByPlace(p, s) ==
    [limit |-> p.limit,
     legacy |-> [vendor |-> p.vendor,
                 key |-> IF p.rows # <<>> /\ p.rows[1].key # "blank" THEN p.rows[1].key
                         ELSE s.legacy.key],
     providers |-> [k \in DOMAIN p.rows |->
                       [p.rows[k] EXCEPT !.key = IF @ = "blank" /\ k \in DOMAIN Effective(s)
                                                 THEN Effective(s)[k].key ELSE @]]]

\* (mutant) Only the key of the old single provider is kept.
PreserveLegacyOnly(p, s) ==
    [limit |-> p.limit,
     legacy |-> [vendor |-> p.vendor,
                 key |-> IF p.rows # <<>> /\ p.rows[1].key # "blank" THEN p.rows[1].key
                         ELSE s.legacy.key],
     providers |-> p.rows]

\* PreserveRuntimeSecrets
Preserve(p, s) ==
    LET old(id) == {q.key : q \in {r \in ToSet(Effective(s)) : r.id = id /\ r.key # "blank"}}
    IN
    [limit |-> p.limit,
     legacy |-> [vendor |-> p.vendor,
                 key |-> IF p.rows # <<>> /\ p.rows[1].key # "blank" THEN p.rows[1].key
                         ELSE s.legacy.key],
     providers |-> [k \in DOMAIN p.rows |->
                       [p.rows[k] EXCEPT !.key =
                           IF @ = "blank" /\ old(p.rows[k].id) # {}
                           THEN CHOOSE key \in old(p.rows[k].id) : TRUE ELSE @]]]

\* runtimePayload
Payload ==
    [limit |-> Bytes(limit), rows |-> rows, typed |-> typed,
     vendor |-> IF rows = <<>> THEN vendor ELSE rows[1].vendor]

-----------------------------------------------------------------------------

TwoProviders(key) ==
    LET w == CHOOSE v \in Vendor : v # FirstVendor
        n == CHOOSE id \in RowId : TRUE
    IN  <<[id |-> FirstVendor, vendor |-> FirstVendor, key |-> key],
          [id |-> n, vendor |-> w, key |-> w]>>

SettingsWith(key, bytes, list) ==
    [limit |-> bytes, legacy |-> [vendor |-> FirstVendor, key |-> key], providers |-> list]

\* The configuration file and the stored settings, which may not exist yet,
\* hold the old single provider or a list of two; mounted, the page loads its
\* settings or its key.
Init ==
    /\ view \in View
    /\ \E key \in {FirstVendor, "blank"}, bytes \in Limits :
       \E inFile, inStore \in {<<>>, TwoProviders(key)} :
          /\ view # "ai" => key = "blank" /\ inFile = <<>> /\ inStore = <<>>
          /\ view # "storage" => bytes = CHOOSE m \in Limits : TRUE
          /\ stored = SettingsWith(key, bytes, inStore)
          /\ \E capacity \in Capacity(SettingsWith(key, bytes, inFile), stored) :
                config = Started(SettingsWith(key, bytes, inFile), stored, capacity)
    /\ apiKey = 1
    /\ rows = <<>> /\ vendor = FirstVendor /\ limit = NoSize
    /\ filled = FALSE /\ typed = FALSE
    /\ shown = 0 /\ busy = (view = "api-key")
    /\ jobs = <<NewJob(IF view = "api-key" THEN "key_load" ELSE "load", NoPayload)>>
    /\ excused = FALSE /\ edits = 0 /\ faults = 0 /\ clicks = 0

-----------------------------------------------------------------------------
(* The user.                                                                *)

Edit == edits < MaxEdits /\ edits' = edits + 1

Edited(newRows) ==
    /\ view = "ai" /\ Edit /\ rows' = newRows
    /\ UNCHANGED <<view, stored, config, apiKey, vendor, limit, filled, typed, shown, busy, jobs,
                   faults, clicks>>

TypeKey(k) ==
    Edited([rows EXCEPT ![k].key = rows[k].vendor]) /\ UNCHANGED excused

StoredKey(id) == \E p \in ToSet(Known) : p.id = id /\ p.key # "blank"

\* applyAIProviderRowPreset: another vendor for the row, whose id and, unless
\* the vendor needs none, whose key stay.
Preset(k, v) ==
    /\ v # rows[k].vendor
    /\ Edited([rows EXCEPT ![k] = [id |-> rows[k].id, vendor |-> v,
                                   key |-> IF v \in Keyless THEN "blank" ELSE rows[k].key]])
    /\ excused' = (excused \/ rows[k].key # "blank" \/ StoredKey(rows[k].id))

\* addAIProvider: the id is the time.
AddRow ==
    LET lists == {rows, stored.providers, config.array, config.file.providers}
                 \cup {jobs[k].payload.rows : k \in DOMAIN jobs}
        taken == UNION {{p.id : p \in ToSet(list)} : list \in lists}
    IN
    \E id \in RowId \ taken :
        /\ id = CHOOSE n \in RowId \ taken : TRUE
        /\ Edited(Append(rows, [id |-> id, vendor |-> FirstVendor, key |-> "blank"]))
        /\ UNCHANGED excused

RemoveRow(k) == Edited(RemoveAt(rows, k)) /\ UNCHANGED excused

\* moveAIProvider, downwards; upwards it is the same for the row above.
MoveRow(k) ==
    /\ k + 1 \in DOMAIN rows
    /\ Edited([rows EXCEPT ![k] = rows[k + 1], ![k + 1] = rows[k]])
    /\ UNCHANGED excused

TypeLimit(size) ==
    /\ view = "storage" /\ Edit /\ limit' = size /\ typed' = TRUE
    /\ UNCHANGED <<view, stored, config, apiKey, rows, vendor, filled, shown, busy, jobs, excused,
                   faults, clicks>>

Begin(job) ==
    /\ clicks < MaxClicks /\ clicks' = clicks + 1 /\ Len(jobs) < MaxJobs
    /\ jobs' = Append(jobs, job) /\ busy' = TRUE
    /\ UNCHANGED <<view, stored, config, apiKey, form, shown, edits, faults>>

\* updateRuntimeSettings: runtimePayload refuses a limit that is too small,
\* and a form that was never filled.
Save ==
    /\ view \in {"storage", "ai"} /\ ~busy /\ filled /\ Legal(limit)
    /\ Begin(NewJob("save", Payload))
    /\ excused' = (excused \/ rows = <<>>)

\* (mutant) The button does not wait for the key to be loaded.
RegenerateEager ==
    /\ view = "api-key" /\ apiKey < MaxKey
    /\ Begin(NewJob("regenerate", NoPayload)) /\ UNCHANGED excused

Regenerate ==
    /\ view = "api-key" /\ ~busy /\ apiKey < MaxKey
    /\ Begin(NewJob("regenerate", NoPayload)) /\ UNCHANGED excused

\* The page is left and opened again: the store of the key survives, with its
\* requests, and their answers may overtake one another.
Remount ==
    /\ view = "api-key"
    /\ Begin(NewJob("key_load", NoPayload))
    /\ excused' = (excused \/ jobs # <<>>)

-----------------------------------------------------------------------------
(* The server, and the answers.                                             *)

\* getRuntimeSettings, updateRuntimeSettings and regenerateAPIKey of the
\* server.  A save answers with what it stored, a load with what it read.
Served(k) ==
    LET job == jobs[k] IN
    /\ job.at = "ask"
    /\ stored' = IF job.kind = "save" THEN Preserve(job.payload, Current) ELSE stored
    /\ config' = IF job.kind \in {"load", "save"} THEN Overwritten(stored, config) ELSE config
    /\ excused' = (excused \/ Inherits(stored', config'))
    /\ apiKey' = IF job.kind = "regenerate" /\ apiKey < MaxKey THEN apiKey + 1 ELSE apiKey
    /\ jobs' = [jobs EXCEPT ![k] = [kind |-> job.kind, at |-> "back", payload |-> NoPayload,
                                    result |-> IF job.kind = "load" THEN Current ELSE stored',
                                    key |-> apiKey']]
    /\ UNCHANGED <<view, form, shown, busy, edits, faults, clicks>>

\* The processor of live updates, a sync, an AI task, a link check, the list of
\* AI models or a test of one, or a save that is refused afterwards:
\* LoadRuntimeSettings.
ReadElsewhere ==
    /\ view = "ai" /\ config' = Overwritten(stored, config)
    /\ UNCHANGED <<view, stored, apiKey, form, shown, busy, jobs, excused, edits, faults, clicks>>

\* The process ends and is started again; a request it had not served Fails.
Restart ==
    /\ view = "ai" /\ faults < MaxFaults /\ faults' = faults + 1
    /\ \A k \in DOMAIN jobs : jobs[k].at # "ask"
    /\ \E capacity \in Capacity(config.file, stored) :
          config' = Started(config.file, stored, capacity)
    /\ excused' = (excused \/ Inherits(stored, config'))
    /\ UNCHANGED <<view, stored, apiKey, form, shown, busy, jobs, edits, clicks>>

\* fillRuntimeForm with normalizeAIProviderRows
Fill(s) ==
    /\ rows' = [k \in DOMAIN Effective(s) |-> [Effective(s)[k] EXCEPT !.key = "blank"]]
    /\ vendor' = s.legacy.vendor
    /\ limit' = Split(s.limit) /\ filled' = TRUE /\ typed' = FALSE

\* loadRuntimeSettings; a save then loads the storage usage, still busy.
Filled(k) ==
    LET job == jobs[k] IN
    /\ job.kind \in {"load", "save"} /\ job.at = "back"
    /\ Fill(job.result)
    /\ jobs' = IF job.kind = "save"
               THEN [jobs EXCEPT ![k] = [kind |-> "save", at |-> "usage", payload |-> NoPayload,
                                         result |-> Settings, key |-> job.key]]
               ELSE RemoveAt(jobs, k)
    /\ UNCHANGED <<view, stored, config, apiKey, shown, busy, excused, edits, faults, clicks>>

\* loadStorageUsage, whichever way it ends.
UsageShown(k) ==
    /\ jobs[k].at = "usage"
    /\ jobs' = RemoveAt(jobs, k) /\ busy' = FALSE
    /\ UNCHANGED <<view, stored, config, apiKey, form, shown, excused, edits, faults, clicks>>

\* load and regenerate of the apiKey store.
KeyArrives(k) ==
    /\ jobs[k].kind \in {"key_load", "regenerate"} /\ jobs[k].at = "back"
    /\ shown' = jobs[k].key
    /\ jobs' = RemoveAt(jobs, k) /\ busy' = FALSE
    /\ UNCHANGED <<view, stored, config, apiKey, form, excused, edits, faults, clicks>>

\* A request or its answer is lost, or the server refuses.
Fails(k) ==
    LET job == jobs[k] IN
    /\ job.at \in {"ask", "back"}
    /\ faults < MaxFaults /\ faults' = faults + 1
    /\ jobs' = RemoveAt(jobs, k)
    /\ busy' = (busy /\ job.kind = "load")
    /\ excused' = (excused \/ (job.kind = "regenerate" /\ job.at = "back"))
    /\ UNCHANGED <<view, stored, config, apiKey, form, shown, edits, clicks>>

Next ==
    \/ \E k \in DOMAIN rows :
          \/ TypeKey(k) \/ RemoveRow(k) \/ MoveRow(k)
          \/ \E v \in Vendor : Preset(k, v)
    \/ Len(rows) < MaxRows /\ AddRow
    \/ \E value \in 0..3, unit \in {"GB", "MB"} : TypeLimit([value |-> value, unit |-> unit])
    \/ Save \/ Regenerate \/ Remount \/ ReadElsewhere \/ Restart
    \/ \E k \in DOMAIN jobs : Served(k) \/ Filled(k) \/ UsageShown(k) \/ KeyArrives(k) \/ Fails(k)

Spec == Init /\ [][Next]_vars

-----------------------------------------------------------------------------
(* Properties.                                                              *)

\* The key typed for one vendor never becomes the key of another's provider,
\* however rows are added, removed, moved and saved and the server is restarted,
\* while it knows the key of an untouched row only by its id.  Excused are the
\* cases in which the code does hand a key on: another preset for a row that
\* has a key, the providers that come back when all rows were removed, and a
\* provider without a key that was saved, or is found by a restart, at a place
\* where the running process remembers one.
KeysGoHome == ~excused => \A p \in ToSet(Known) : p.key \in {"blank", p.vendor}

\* Neither a save nor a restart loses the key of a provider that stays,
\* although the form does not know it, and the process remembers others.
KeysKept ==
    \A p \in ToSet(Known), q \in ToSet(Known') :
        (p.id = q.id /\ p.key # "blank" /\ ~excused) => q.key # "blank"

\* A save of limits nobody typed never lowers them, and at most rounds them up
\* to the next unit the form can show.
SizesRoundUp ==
    \/ stored'.limit \in stored.limit..(stored.limit + Mega - 1)
    \/ \E k \in DOMAIN jobs : jobs[k].at = "ask" /\ jobs[k].payload.typed

\* Once all answers are in, the API key on screen is the valid one, although
\* loads and a regeneration answer in any order.  Excused are a page opened
\* again while requests are on their way, and a lost answer.
KeyShownIsLive == (view = "api-key" /\ jobs = <<>> /\ ~excused) => shown \in {0, apiKey}
=============================================================================
