------------------------ MODULE SettingsFormsProofs ------------------------
(***************************************************************************)
(* Proofs about SettingsForms for any vendors, rows, size units, limits and *)
(* any number of requests: whose key is stored, what a save makes of the    *)
(* limits, and that the API key on screen is the valid one.                 *)
(***************************************************************************)
EXTENDS SettingsForms, SequenceTheorems, TLAPS

\* What the module takes for granted of its constants.
Parameters ==
    /\ "blank" \notin Vendor /\ \E v, w \in Vendor : v # w
    /\ RowId # {} /\ Vendor \cap RowId = {}
    /\ Mega \in Nat \ {0} /\ Giga \in Nat \ {0} /\ Giga % Mega = 0 /\ MinLimit \in Nat
    /\ Limits \subseteq Nat /\ Limits # {} /\ MaxKey \in Nat \ {0}
    /\ MaxEdits \in Nat /\ MaxFaults \in Nat /\ MaxClicks \in Nat

PayloadSet == [limit : Nat, rows : Seq(Provider), vendor : Vendor, typed : BOOLEAN]
SettingsSet == [limit : Nat, providers : Seq(Provider), legacy : [vendor : Vendor, key : Key]]
ConfigSet == [file : SettingsSet, array : Seq(Provider), len : Nat,
              legacy : [vendor : Vendor, key : Key]]
JobSet == [kind : {"load", "save", "key_load", "regenerate"}, at : {"ask", "back", "usage"},
           payload : PayloadSet, result : SettingsSet, key : 0..MaxKey]

Typed ==
    /\ view \in View
    /\ stored \in SettingsSet
    /\ config \in ConfigSet /\ config.len <= Len(config.array)
    /\ apiKey \in 1..MaxKey /\ shown \in 0..MaxKey
    /\ rows \in Seq(Provider) /\ vendor \in Vendor /\ limit \in Amount
    /\ filled \in BOOLEAN /\ typed \in BOOLEAN
    /\ busy \in BOOLEAN /\ excused \in BOOLEAN
    /\ jobs \in Seq(JobSet)
    /\ edits \in 0..MaxEdits /\ faults \in 0..MaxFaults /\ clicks \in 0..MaxClicks

\* The buttons that wait (busy) leave one handler in flight at a time, in its
\* own page; a page of the key opened again is excused.
Alone ==
    /\ \A k \in DOMAIN jobs :
          /\ view # "api-key" <=> jobs[k].kind \in {"load", "save"}
          /\ jobs[k].at = "usage" => jobs[k].kind = "save"
    /\ view # "api-key" \/ ~excused => Len(jobs) <= 1
    /\ view # "api-key" =>
          \A k \in DOMAIN jobs :
             /\ IF filled THEN busy /\ jobs[k].kind = "save" ELSE jobs[k].kind = "load"
             /\ jobs[k].at = "back" => jobs[k].result.limit = stored.limit
    /\ view = "api-key" /\ ~excused => (jobs # <<>> => busy)

Sending(k) == jobs[k].kind = "save" /\ jobs[k].at = "ask"

UpTo(bytes) == stored.limit <= bytes /\ bytes <= stored.limit + Mega - 1

\* A limit nobody typed is the stored one, at most rounded up, in the form and
\* in the save under way.
Sized ==
    /\ filled /\ ~typed => UpTo(Bytes(limit))
    /\ \A k \in DOMAIN jobs : Sending(k) =>
          IF jobs[k].payload.typed THEN typed
          ELSE UpTo(jobs[k].payload.limit) /\ (~typed => Bytes(limit) = jobs[k].payload.limit)

Home(s) == \A k \in DOMAIN s : s[k].key \in {"blank", s[k].vendor}
Unique(s) == \A k, m \in DOMAIN s : s[k].id = s[m].id => k = m

\* A row whose key the server knows has the vendor of that key.
Agree(s, known) ==
    \A k \in DOMAIN s, m \in DOMAIN known :
       (s[k].id = known[m].id /\ known[m].key # "blank") => s[k].vendor = known[m].vendor

\* The form and the rows a save sent: a key that was sent is still in its row,
\* and where the server has or gets a key the vendor is the same.
Follows(s, sent) ==
    \A k \in DOMAIN s, m \in DOMAIN sent : s[k].id = sent[m].id =>
       /\ sent[m].key # "blank" => s[k].key # "blank"
       /\ (sent[m].key # "blank" \/ StoredKey(s[k].id)) => s[k].vendor = sent[m].vendor

\* No provider is stored without a key at a place where the configuration
\* remembers one; while no list is stored the configuration is that of the start.
Clean ==
    ~excused =>
       /\ ~Inherits(stored, config)
       /\ stored.providers = <<>> =>
             config = Started(config.file, stored, Len(config.file.providers))

Keyed ==
    ~excused =>
       /\ \A k \in DOMAIN jobs :
             (jobs[k].kind \in {"load", "save"} /\ jobs[k].at = "back")
                => Effective(jobs[k].result) = Known
       /\ Home(Known) /\ Unique(Known)
       /\ Home(rows) /\ Unique(rows) /\ Agree(rows, Known)
       /\ \A k \in DOMAIN jobs : Sending(k) =>
             LET sent == jobs[k].payload.rows IN
             /\ sent # <<>> /\ Home(sent) /\ Unique(sent) /\ Agree(sent, Known)
             /\ Follows(rows, sent)

\* The answer on its way brings the valid key, or the valid key is on screen.
KeyLive ==
    view = "api-key" /\ ~excused =>
       /\ \A k \in DOMAIN jobs : jobs[k].at = "back" => jobs[k].key = apiKey
       /\ \/ shown \in {0, apiKey}
          \/ \E k \in DOMAIN jobs : jobs[k].kind = "regenerate" /\ jobs[k].at = "back"

Inv == Typed /\ Alone /\ Sized /\ Clean /\ Keyed /\ KeyLive

-----------------------------------------------------------------------------
(* Sequences.                                                               *)

LEMMA RemoveAtTyped ==
    ASSUME NEW S, NEW s \in Seq(S), NEW k \in DOMAIN s
    PROVE  /\ RemoveAt(s, k) \in Seq(S)
           /\ Len(RemoveAt(s, k)) = Len(s) - 1
           /\ \A m \in 1..Len(s) - 1 : RemoveAt(s, k)[m] = s[IF m < k THEN m ELSE m + 1]
<1>1. k \in 1..Len(s) /\ Len(s) \in Nat
  BY LenProperties
<1> DEFINE a == SubSeq(s, 1, k - 1)
           b == SubSeq(s, k + 1, Len(s))
<1>2. a \in Seq(S) /\ b \in Seq(S) /\ Len(a) = k - 1 /\ Len(b) = Len(s) - k
      /\ (\A m \in 1..k - 1 : a[m] = s[m]) /\ \A m \in 1..Len(s) - k : b[m] = s[k + m]
  BY <1>1
<1> HIDE DEF a, b
<1>3. a \o b \in Seq(S) /\ Len(a \o b) = Len(s) - 1
      /\ \A m \in 1..Len(s) - 1 : (a \o b)[m] = IF m <= k - 1 THEN a[m] ELSE b[m - (k - 1)]
  <2>1. a \o b \in Seq(S) /\ Len(a \o b) = Len(a) + Len(b)
        /\ \A m \in 1..Len(a) + Len(b) :
              (a \o b)[m] = IF m <= Len(a) THEN a[m] ELSE b[m - Len(a)]
    BY <1>2, ConcatProperties
  <2>2. Len(a) + Len(b) = Len(s) - 1
    BY <1>1, <1>2
  <2>3. QED
    BY <1>2, <2>1, <2>2
<1>4. \A m \in 1..Len(s) - 1 : (a \o b)[m] = s[IF m < k THEN m ELSE m + 1]
  <2> SUFFICES ASSUME NEW m \in 1..Len(s) - 1
               PROVE  (a \o b)[m] = s[IF m < k THEN m ELSE m + 1]
    OBVIOUS
  <2>1. CASE m < k
    BY <1>1, <1>2, <1>3, <2>1
  <2>2. CASE ~(m < k)
    <3>1. m - (k - 1) \in 1..Len(s) - k /\ k + (m - (k - 1)) = m + 1
      BY <1>1, <2>2
    <3>2. (a \o b)[m] = b[m - (k - 1)]
      BY <1>1, <1>3, <2>2
    <3>3. QED
      BY <1>2, <2>2, <3>1, <3>2
  <2>3. QED
    BY <2>1, <2>2
<1>5. QED
  BY <1>3, <1>4 DEF RemoveAt, a, b

\* Each element of what is left comes from a place of its own.
LEMMA RemoveAtFrom ==
    ASSUME NEW S, NEW s \in Seq(S), NEW k \in DOMAIN s
    PROVE  \E place \in [DOMAIN RemoveAt(s, k) -> DOMAIN s] :
              \A m, n \in DOMAIN RemoveAt(s, k) :
                 RemoveAt(s, k)[m] = s[place[m]] /\ place[m] # k
                 /\ (place[m] = place[n] => m = n)
<1>1. k \in 1..Len(s) /\ Len(s) \in Nat /\ DOMAIN s = 1..Len(s)
  BY LenProperties
<1> DEFINE rest == RemoveAt(s, k)
           place == [m \in 1..Len(s) - 1 |-> IF m < k THEN m ELSE m + 1]
<1>2. rest \in Seq(S) /\ Len(rest) = Len(s) - 1
      /\ \A m \in 1..Len(s) - 1 : rest[m] = s[IF m < k THEN m ELSE m + 1]
  BY RemoveAtTyped
<1>3. DOMAIN rest = 1..Len(s) - 1
  BY <1>2, LenProperties
<1> HIDE DEF rest
<1>4. place \in [DOMAIN rest -> DOMAIN s]
  BY <1>1, <1>3
<1>5. \A m, n \in DOMAIN rest :
         rest[m] = s[place[m]] /\ place[m] # k /\ (place[m] = place[n] => m = n)
  BY <1>1, <1>2, <1>3
<1>6. QED
  BY <1>4, <1>5 DEF rest

\* With one handler in flight, its end leaves none.
LEMMA LastEnds ==
    ASSUME Typed, NEW k \in DOMAIN jobs, Len(jobs) <= 1
    PROVE  RemoveAt(jobs, k) = <<>>
<1>1. RemoveAt(jobs, k) \in Seq(JobSet) /\ Len(RemoveAt(jobs, k)) = Len(jobs) - 1
      /\ k \in 1..Len(jobs) /\ Len(jobs) \in Nat
  BY RemoveAtTyped, LenProperties DEF Typed
<1>2. Len(RemoveAt(jobs, k)) = 0
  BY <1>1
<1>3. QED
  BY <1>1, <1>2, EmptySeq

-----------------------------------------------------------------------------
(* The conversions.                                                         *)

\* What the form makes of a limit is the limit, at most rounded up to a unit.
LEMMA SplitRoundsUp ==
    ASSUME Parameters, NEW bytes \in Nat
    PROVE  /\ Split(bytes) \in Amount
           /\ bytes <= Bytes(Split(bytes)) /\ Bytes(Split(bytes)) <= bytes + Mega - 1
<1>1. CASE bytes > 0 /\ bytes % Giga = 0
  <2>1. Split(bytes) = [value |-> bytes \div Giga, unit |-> "GB"]
    BY <1>1 DEF Split
  <2>2. bytes \div Giga \in Nat /\ (bytes \div Giga) * Giga = bytes
    BY <1>1 DEF Parameters
  <2>3. Bytes(Split(bytes)) = (bytes \div Giga) * Giga
    BY <2>1 DEF Bytes
  <2>4. QED
    BY <2>1, <2>2, <2>3 DEF Amount, Parameters
<1>2. CASE ~(bytes > 0 /\ bytes % Giga = 0)
  <2> DEFINE up == bytes + Mega - 1
  <2>1. Split(bytes) = [value |-> up \div Mega, unit |-> "MB"]
    BY <1>2 DEF Split
  <2>2. up \in Nat /\ Mega \in Nat \ {0}
    BY DEF Parameters
  <2> HIDE DEF up
  <2>3. up \div Mega \in Nat /\ (up \div Mega) * Mega <= up /\ up < (up \div Mega) * Mega + Mega
    BY <2>2
  <2>4. Bytes(Split(bytes)) = (up \div Mega) * Mega
    BY <2>1 DEF Bytes
  <2>5. QED
    BY <2>1, <2>2, <2>3, <2>4 DEF Amount, up
<1>3. QED
  BY <1>1, <1>2

LEMMA EffectiveTyped ==
    ASSUME NEW s \in SettingsSet
    PROVE  Effective(s) \in Seq(Provider)
<1>1. CASE s.providers # <<>>
  BY <1>1 DEF Effective, SettingsSet
<1>2. CASE s.providers = <<>>
  <2> DEFINE p == [id |-> s.legacy.vendor, vendor |-> s.legacy.vendor, key |-> s.legacy.key]
  <2>1. p \in Provider
    BY DEF SettingsSet, Provider, Id
  <2>2. Effective(s) = <<p>>
    BY <1>2 DEF Effective
  <2> HIDE DEF p
  <2>3. QED
    BY <2>1, <2>2
<1>3. QED
  BY <1>1, <1>2

\* PreserveRuntimeSecrets keeps the rows of the request in their order, and
\* gives a row without a key one the server has for its id, if it has one.
LEMMA Preserved ==
    ASSUME NEW p \in PayloadSet, NEW s \in SettingsSet
    PROVE  /\ Preserve(p, s) \in SettingsSet
           /\ Preserve(p, s).limit = p.limit
           /\ DOMAIN Preserve(p, s).providers = DOMAIN p.rows
           /\ \A k \in DOMAIN p.rows :
                 LET row == Preserve(p, s).providers[k] IN
                 /\ row.id = p.rows[k].id /\ row.vendor = p.rows[k].vendor
                 /\ p.rows[k].key # "blank" => row.key = p.rows[k].key
                 /\ p.rows[k].key = "blank" =>
                      \/ /\ row.key = "blank"
                         /\ \A m \in DOMAIN Effective(s) :
                               Effective(s)[m].id = row.id => Effective(s)[m].key = "blank"
                      \/ \E m \in DOMAIN Effective(s) :
                            /\ Effective(s)[m].id = row.id /\ Effective(s)[m].key # "blank"
                            /\ row.key = Effective(s)[m].key
<1> DEFINE old(id) == {q.key : q \in {r \in ToSet(Effective(s)) : r.id = id /\ r.key # "blank"}}
           row(k) == [p.rows[k] EXCEPT !.key =
                         IF @ = "blank" /\ old(p.rows[k].id) # {}
                         THEN CHOOSE key \in old(p.rows[k].id) : TRUE ELSE @]
           new == [k \in DOMAIN p.rows |-> row(k)]
<1>1. /\ Preserve(p, s).limit = p.limit /\ Preserve(p, s).providers = new
      /\ Preserve(p, s).legacy.vendor = p.vendor
  BY DEF Preserve
<1>2. /\ p.rows \in Seq(Provider) /\ DOMAIN p.rows = 1..Len(p.rows) /\ Len(p.rows) \in Nat
      /\ \A k \in DOMAIN p.rows : p.rows[k] \in Provider
  BY LenProperties, ElementOfSeq DEF PayloadSet
<1>3. ASSUME NEW id
      PROVE  \A key : key \in old(id) <=>
                \E m \in DOMAIN Effective(s) :
                   /\ Effective(s)[m].id = id /\ Effective(s)[m].key # "blank"
                   /\ key = Effective(s)[m].key
  BY DEF ToSet
<1>4. \A m \in DOMAIN Effective(s) : Effective(s)[m] \in Provider
  BY EffectiveTyped, ElementOfSeq
<1> HIDE DEF old
<1>5. ASSUME NEW k \in DOMAIN p.rows
      PROVE  /\ row(k) \in Provider
             /\ row(k).id = p.rows[k].id /\ row(k).vendor = p.rows[k].vendor
             /\ p.rows[k].key # "blank" => row(k).key = p.rows[k].key
             /\ p.rows[k].key = "blank" =>
                  \/ row(k).key = "blank" /\ old(row(k).id) = {}
                  \/ row(k).key \in old(row(k).id)
  <2> DEFINE keep == CHOOSE key \in old(p.rows[k].id) : TRUE
             key == IF p.rows[k].key = "blank" /\ old(p.rows[k].id) # {} THEN keep
                    ELSE p.rows[k].key
  <2>1. old(p.rows[k].id) # {} => keep \in old(p.rows[k].id)
    OBVIOUS
  <2>2. keep \in old(p.rows[k].id) => keep \in Key
    BY <1>3, <1>4 DEF Provider
  <2> HIDE DEF keep
  <2>3. key \in Key
    BY <1>2, <2>1, <2>2 DEF Provider
  <2>4. row(k) = [p.rows[k] EXCEPT !.key = key]
    BY DEF keep
  <2>5. p.rows[k].key # "blank" => key = p.rows[k].key
    OBVIOUS
  <2>6. p.rows[k].key = "blank" =>
           (key = "blank" /\ old(p.rows[k].id) = {}) \/ key \in old(p.rows[k].id)
    BY <2>1
  <2> HIDE DEF key, row
  <2>7. /\ row(k) \in Provider /\ row(k).key = key
        /\ row(k).id = p.rows[k].id /\ row(k).vendor = p.rows[k].vendor
    BY <1>2, <2>3, <2>4 DEF Provider
  <2>8. QED
    BY <2>5, <2>6, <2>7
<1> HIDE DEF row
<1>6. new \in Seq(Provider)
  <2>1. new = [k \in 1..Len(p.rows) |-> row(k)]
    BY <1>2
  <2>2. \A k \in 1..Len(p.rows) : row(k) \in Provider
    BY <1>2, <1>5
  <2> HIDE DEF new
  <2>3. QED
    BY <1>2, <2>1, <2>2, IsASeq
<1>7. Preserve(p, s) \in SettingsSet
  <2> DEFINE key == IF p.rows # <<>> /\ p.rows[1].key # "blank" THEN p.rows[1].key
                    ELSE s.legacy.key
  <2>1. key \in Key
    <3>1. CASE p.rows # <<>>
      <4>1. 1 \in DOMAIN p.rows
        BY <1>2, <3>1, EmptySeq
      <4>2. QED
        BY <1>2, <4>1 DEF Provider, SettingsSet
    <3>2. CASE p.rows = <<>>
      BY <3>2 DEF SettingsSet
    <3>3. QED
      BY <3>1, <3>2
  <2>2. Preserve(p, s) = [limit |-> p.limit, legacy |-> [vendor |-> p.vendor, key |-> key],
                          providers |-> new]
    BY DEF Preserve, old, row
  <2> HIDE DEF new, key
  <2>3. QED
    BY <1>6, <2>1, <2>2 DEF SettingsSet, PayloadSet
<1>8. DOMAIN new = DOMAIN p.rows /\ \A k \in DOMAIN p.rows : new[k] = row(k)
  OBVIOUS
<1> HIDE DEF new
<1>9. ASSUME NEW k \in DOMAIN p.rows, p.rows[k].key = "blank"
      PROVE  \/ /\ row(k).key = "blank"
                /\ \A m \in DOMAIN Effective(s) :
                      Effective(s)[m].id = row(k).id => Effective(s)[m].key = "blank"
             \/ \E m \in DOMAIN Effective(s) :
                   /\ Effective(s)[m].id = row(k).id /\ Effective(s)[m].key # "blank"
                   /\ row(k).key = Effective(s)[m].key
  <2>1. CASE row(k).key \in old(row(k).id)
    BY <1>3, <2>1
  <2>2. CASE row(k).key = "blank" /\ old(row(k).id) = {}
    <3>1. ASSUME NEW m \in DOMAIN Effective(s), Effective(s)[m].id = row(k).id,
                 Effective(s)[m].key # "blank"
          PROVE  FALSE
      BY <1>3, <2>2, <3>1
    <3>2. QED
      BY <2>2, <3>1
  <2>3. QED
    BY <1>5, <1>9, <2>1, <2>2
<1>10. QED
  BY <1>1, <1>5, <1>7, <1>8, <1>9

-----------------------------------------------------------------------------
(* What the server reads, and what a read leaves in the configuration.      *)

\* A provider read from the store is the stored one; without a key it has the
\* one that is remembered at its place.
LEMMA DecodedTyped ==
    ASSUME NEW list \in Seq(Provider), NEW c \in ConfigSet
    PROVE  /\ Decoded(list, c) \in Seq(Provider)
           /\ DOMAIN Decoded(list, c) = DOMAIN list
           /\ Len(Decoded(list, c)) = Len(list)
           /\ list # <<>> => Decoded(list, c) # <<>>
           /\ \A k \in DOMAIN list :
                 /\ Decoded(list, c)[k] \in Provider
                 /\ Decoded(list, c)[k].id = list[k].id
                 /\ Decoded(list, c)[k].vendor = list[k].vendor
                 /\ Decoded(list, c)[k].key =
                       IF list[k].key = "blank" THEN Remembered(k, c) ELSE list[k].key
<1>1. DOMAIN list = 1..Len(list) /\ Len(list) \in Nat /\ \A k \in DOMAIN list : list[k] \in Provider
  BY LenProperties, ElementOfSeq
<1>2. \A k \in DOMAIN list : Remembered(k, c) \in Key
  <2>1. \A k \in DOMAIN c.array : c.array[k] \in Provider
    BY ElementOfSeq DEF ConfigSet
  <2>2. QED
    BY <2>1 DEF Remembered, Provider, Key
<1>3. ASSUME NEW k \in DOMAIN list
      PROVE  /\ Decoded(list, c)[k] \in Provider
             /\ Decoded(list, c)[k].id = list[k].id
             /\ Decoded(list, c)[k].vendor = list[k].vendor
             /\ Decoded(list, c)[k].key =
                   IF list[k].key = "blank" THEN Remembered(k, c) ELSE list[k].key
  <2> DEFINE key == IF list[k].key = "blank" THEN Remembered(k, c) ELSE list[k].key
  <2>1. key \in Key
    BY <1>1, <1>2 DEF Provider
  <2>2. Decoded(list, c)[k] = [list[k] EXCEPT !.key = key]
    BY DEF Decoded
  <2> HIDE DEF key
  <2>3. /\ Decoded(list, c)[k] \in Provider /\ Decoded(list, c)[k].id = list[k].id
        /\ Decoded(list, c)[k].vendor = list[k].vendor /\ Decoded(list, c)[k].key = key
    BY <1>1, <2>1, <2>2 DEF Provider
  <2>4. QED
    BY <2>3 DEF key
<1>4. Decoded(list, c) = [k \in 1..Len(list) |-> Decoded(list, c)[k]]
  BY <1>1 DEF Decoded
<1>5. DOMAIN Decoded(list, c) = DOMAIN list
  BY DEF Decoded
<1>6. Decoded(list, c) \in Seq(Provider) /\ Len(Decoded(list, c)) = Len(list)
  BY <1>1, <1>3, <1>4, <1>5, IsASeq, LenProperties
<1>7. list # <<>> => Decoded(list, c) # <<>>
  BY <1>1, <1>6, EmptySeq
<1>8. QED
  BY <1>3, <1>5, <1>6, <1>7

LEMMA LoadedTyped ==
    ASSUME NEW s \in SettingsSet, NEW c \in ConfigSet, c.len <= Len(c.array)
    PROVE  /\ Loaded(s, c) \in SettingsSet
           /\ Loaded(s, c).limit = s.limit /\ Loaded(s, c).legacy.vendor = s.legacy.vendor
           /\ s.providers # <<>> => Loaded(s, c).providers = Decoded(s.providers, c)
           /\ s.providers = <<>> => Loaded(s, c).providers = SubSeq(c.array, 1, c.len)
           /\ Loaded(s, c).legacy.key = IF s.legacy.key = "blank" THEN c.legacy.key ELSE s.legacy.key
<1> DEFINE key == IF s.legacy.key = "blank" THEN c.legacy.key ELSE s.legacy.key
           legacy == [s.legacy EXCEPT !.key = key]
           list == IF s.providers = <<>> THEN SubSeq(c.array, 1, c.len) ELSE Decoded(s.providers, c)
<1>1. Loaded(s, c) = [limit |-> s.limit, legacy |-> legacy, providers |-> list]
  BY DEF Loaded
<1>2. legacy \in [vendor : Vendor, key : Key] /\ legacy.vendor = s.legacy.vendor /\ legacy.key = key
  BY DEF SettingsSet, ConfigSet
<1>3. list \in Seq(Provider)
  <2>1. SubSeq(c.array, 1, c.len) \in Seq(Provider)
    BY DEF ConfigSet
  <2>2. Decoded(s.providers, c) \in Seq(Provider)
    BY DecodedTyped DEF SettingsSet
  <2>3. QED
    BY <2>1, <2>2
<1>4. s.limit \in Nat
  BY DEF SettingsSet
<1> HIDE DEF legacy, list
<1>5. Loaded(s, c) \in SettingsSet
  BY <1>1, <1>2, <1>3, <1>4 DEF SettingsSet
<1>6. Loaded(s, c).limit = s.limit /\ Loaded(s, c).legacy = legacy /\ Loaded(s, c).providers = list
  BY <1>1
<1>7. QED
  BY <1>2, <1>5, <1>6 DEF list

\* The vendors and the ids are the stored ones, or those of the configuration.
LEMMA OverwrittenTyped ==
    ASSUME NEW s \in SettingsSet, NEW c \in ConfigSet
    PROVE  LET o == Overwritten(s, c) IN
           /\ o \in ConfigSet /\ o.len = c.len /\ o.file = c.file /\ o.legacy = c.legacy
           /\ DOMAIN o.array = DOMAIN c.array /\ Len(o.array) = Len(c.array)
           /\ \A k \in DOMAIN c.array :
                 o.array[k] = IF k \in DOMAIN s.providers THEN Decoded(s.providers, c)[k]
                              ELSE c.array[k]
           /\ s.providers = <<>> => o = c
<1> DEFINE array == [k \in DOMAIN c.array |-> IF k \in DOMAIN s.providers
                                             THEN Decoded(s.providers, c)[k] ELSE c.array[k]]
<1>1. Overwritten(s, c) = [c EXCEPT !.array = array]
  BY DEF Overwritten
<1>2. /\ c.array \in Seq(Provider) /\ DOMAIN c.array = 1..Len(c.array) /\ Len(c.array) \in Nat
      /\ \A k \in DOMAIN c.array : c.array[k] \in Provider
  BY LenProperties, ElementOfSeq DEF ConfigSet
<1>3. \A k \in DOMAIN c.array : array[k] \in Provider
  BY <1>2, DecodedTyped DEF SettingsSet
<1>4. DOMAIN array = DOMAIN c.array
      /\ \A k \in DOMAIN c.array :
            array[k] = IF k \in DOMAIN s.providers THEN Decoded(s.providers, c)[k] ELSE c.array[k]
  OBVIOUS
<1>5. s.providers = <<>> => array = c.array
  BY <1>2
<1>6. array \in Seq(Provider) /\ Len(array) = Len(c.array)
  <2>1. array = [k \in 1..Len(c.array) |-> array[k]]
    BY <1>2
  <2>2. array \in Seq(Provider)
    <3> HIDE DEF array
    <3>1. \A k \in 1..Len(c.array) : array[k] \in Provider
      BY <1>2, <1>3
    <3>2. [k \in 1..Len(c.array) |-> array[k]] \in Seq(Provider)
      BY <1>2, <3>1, IsASeq
    <3>3. QED
      BY <2>1, <3>2
  <2> HIDE DEF array
  <2>3. DOMAIN array = 1..Len(array) /\ Len(array) \in Nat
    BY <2>2, LenProperties
  <2>4. DOMAIN array = 1..Len(c.array)
    BY <1>2, <1>4
  <2>5. QED
    BY <1>2, <2>2, <2>3, <2>4
<1> HIDE DEF array
<1>7. [c EXCEPT !.array = array] \in ConfigSet
  BY <1>6 DEF ConfigSet
<1>8. s.providers = <<>> => [c EXCEPT !.array = array] = c
  BY <1>5 DEF ConfigSet
<1>9. QED
  BY <1>1, <1>4, <1>6, <1>7, <1>8 DEF ConfigSet

\* To read again what was just read changes nothing.
LEMMA ReadAgain ==
    ASSUME NEW s \in SettingsSet, NEW c \in ConfigSet
    PROVE  /\ Loaded(s, Overwritten(s, c)) = Loaded(s, c)
           /\ Inherits(s, Overwritten(s, c)) => Inherits(s, c)
<1> DEFINE o == Overwritten(s, c)
<1>1. /\ o \in ConfigSet /\ o.len = c.len /\ o.legacy = c.legacy
      /\ DOMAIN o.array = DOMAIN c.array
      /\ \A k \in DOMAIN c.array :
            o.array[k] = IF k \in DOMAIN s.providers THEN Decoded(s.providers, c)[k]
                         ELSE c.array[k]
      /\ s.providers = <<>> => o = c
  BY OverwrittenTyped
<1> HIDE DEF o
<1>2. ASSUME NEW k \in DOMAIN s.providers, s.providers[k].key = "blank"
      PROVE  Remembered(k, o) = Remembered(k, c)
  <2>1. CASE k \in DOMAIN c.array
    <3>1. o.array[k] = Decoded(s.providers, c)[k]
      BY <1>1, <2>1
    <3>2. Decoded(s.providers, c)[k].key = Remembered(k, c)
      BY <1>2, DecodedTyped DEF SettingsSet
    <3>3. Remembered(k, o) = o.array[k].key
      BY <1>1, <2>1 DEF Remembered
    <3>4. QED
      BY <3>1, <3>2, <3>3
  <2>2. CASE k \notin DOMAIN c.array
    BY <1>1, <2>2 DEF Remembered
  <2>3. QED
    BY <2>1, <2>2
<1>3. Decoded(s.providers, o) = Decoded(s.providers, c)
  BY <1>2 DEF Decoded
<1>4. Loaded(s, o) = Loaded(s, c)
  <2>1. s.providers = <<>> => Loaded(s, o) = Loaded(s, c)
    BY <1>1
  <2>2. s.providers # <<>> => Loaded(s, o) = Loaded(s, c)
    BY <1>1, <1>3 DEF Loaded
  <2>3. QED
    BY <2>1, <2>2
<1>5. Inherits(s, o) => Inherits(s, c)
  BY <1>2 DEF Inherits
<1>6. QED
  BY <1>4, <1>5 DEF o

\* Where nothing is inherited the server sees what is stored.
LEMMA NothingInherited ==
    ASSUME NEW s \in SettingsSet, NEW c \in ConfigSet, c.len <= Len(c.array),
           s.providers # <<>>, ~Inherits(s, c)
    PROVE  Effective(Loaded(s, c)) = s.providers
<1>1. Decoded(s.providers, c) = s.providers
  <2>1. s.providers \in Seq(Provider) /\ \A k \in DOMAIN s.providers : s.providers[k] \in Provider
    BY ElementOfSeq DEF SettingsSet
  <2>2. ASSUME NEW k \in DOMAIN s.providers PROVE Decoded(s.providers, c)[k] = s.providers[k]
    <3>1. /\ Decoded(s.providers, c)[k] \in Provider /\ s.providers[k] \in Provider
          /\ Decoded(s.providers, c)[k].id = s.providers[k].id
          /\ Decoded(s.providers, c)[k].vendor = s.providers[k].vendor
          /\ Decoded(s.providers, c)[k].key = IF s.providers[k].key = "blank"
                                              THEN Remembered(k, c) ELSE s.providers[k].key
      BY <2>1, DecodedTyped
    <3>2. Decoded(s.providers, c)[k].key = s.providers[k].key
      BY <3>1 DEF Inherits
    <3>3. QED
      BY <3>1, <3>2 DEF Provider
  <2>3. DOMAIN Decoded(s.providers, c) = DOMAIN s.providers /\ Decoded(s.providers, c) \in Seq(Provider)
    BY <2>1, DecodedTyped
  <2>4. QED
    BY <2>1, <2>2, <2>3, SeqEqual, LenProperties
<1>2. Loaded(s, c).providers = s.providers
  BY <1>1, LoadedTyped
<1>3. QED
  BY <1>2 DEF Effective

\* The configuration of a process that starts.
LEMMA StartedTyped ==
    ASSUME Parameters, NEW file \in SettingsSet, NEW s \in SettingsSet,
           NEW capacity \in Capacity(file, s)
    PROVE  LET c == Started(file, s, capacity) IN
           /\ c \in ConfigSet /\ c.len <= Len(c.array) /\ c.file = file
           /\ DOMAIN c.array = 1..capacity /\ capacity \in Nat
           /\ s.providers = <<>> => capacity = Len(file.providers)
<1> DEFINE fresh == [file |-> file, array |-> file.providers, len |-> Len(file.providers),
                     legacy |-> file.legacy]
           read == Loaded(s, fresh)
           list == read.providers
           slot(k) == IF k \in DOMAIN list THEN list[k]
                      ELSE IF k \in DOMAIN file.providers THEN file.providers[k] ELSE NoProvider
           array == [k \in 1..capacity |-> slot(k)]
<1>1. /\ Len(file.providers) \in Nat /\ Len(s.providers) \in Nat
      /\ file.providers \in Seq(Provider) /\ s.providers \in Seq(Provider)
      /\ \A k \in DOMAIN file.providers : file.providers[k] \in Provider
  BY LenProperties, ElementOfSeq DEF SettingsSet
<1>2. fresh \in ConfigSet /\ fresh.len <= Len(fresh.array)
  BY <1>1 DEF ConfigSet, SettingsSet
<1>3. /\ capacity \in Nat /\ Len(s.providers) <= capacity
      /\ s.providers = <<>> => capacity = Len(file.providers)
  BY <1>1 DEF Capacity
<1>4. /\ read \in SettingsSet
      /\ s.providers # <<>> => list = Decoded(s.providers, fresh)
      /\ s.providers = <<>> => list = SubSeq(file.providers, 1, Len(file.providers))
  BY <1>2, LoadedTyped
<1> HIDE DEF read
<1>5. list \in Seq(Provider) /\ Len(list) \in Nat /\ \A k \in DOMAIN list : list[k] \in Provider
  BY <1>4, LenProperties, ElementOfSeq DEF SettingsSet
<1>6. Len(list) <= capacity
  <2>1. CASE s.providers = <<>>
    <3>1. SubSeq(file.providers, 1, Len(file.providers)) = file.providers
      BY <1>1
    <3>2. QED
      BY <1>1, <1>3, <1>4, <2>1, <3>1
  <2>2. CASE s.providers # <<>>
    <3>1. Len(list) = Len(s.providers)
      BY <1>1, <1>2, <1>4, <2>2, DecodedTyped
    <3>2. QED
      BY <1>3, <3>1
  <2>3. QED
    BY <2>1, <2>2
<1>7. NoProvider \in Provider
  BY DEF Parameters, NoProvider, FirstVendor, Provider, Id, Key
<1>8. \A k \in 1..capacity : slot(k) \in Provider
  BY <1>1, <1>5, <1>7
<1> HIDE DEF slot
<1>9. array \in Seq(Provider) /\ DOMAIN array = 1..capacity /\ Len(array) = capacity
  <2>1. array \in Seq(Provider)
    BY <1>3, <1>8, IsASeq
  <2>2. DOMAIN array = 1..capacity
    OBVIOUS
  <2> HIDE DEF array
  <2>3. QED
    BY <1>3, <2>1, <2>2, LenProperties
<1>10. Started(file, s, capacity) = [file |-> file, legacy |-> read.legacy, len |-> Len(list),
                                     array |-> array]
  BY DEF Started, read, slot
<1> HIDE DEF array, list
<1>11. read.legacy \in [vendor : Vendor, key : Key]
  BY <1>4 DEF SettingsSet
<1>12. Started(file, s, capacity) \in ConfigSet
  BY <1>5, <1>9, <1>10, <1>11 DEF ConfigSet
<1>13. QED
  BY <1>3, <1>6, <1>9, <1>10, <1>12

\* Without a stored list the process starts with that of the file.
LEMMA StartedWithoutList ==
    ASSUME Parameters, NEW file \in SettingsSet, NEW s \in SettingsSet, s.providers = <<>>
    PROVE  LET c == Started(file, s, Len(file.providers)) IN
           /\ Loaded(s, c).providers = file.providers
           /\ Loaded(s, c).legacy.key = IF s.legacy.key = "blank" THEN file.legacy.key
                                        ELSE s.legacy.key
<1> DEFINE fresh == [file |-> file, array |-> file.providers, len |-> Len(file.providers),
                     legacy |-> file.legacy]
           read == Loaded(s, fresh)
           n == Len(file.providers)
           c == Started(file, s, n)
<1>1. file.providers \in Seq(Provider) /\ n \in Nat /\ DOMAIN file.providers = 1..n
  BY LenProperties DEF SettingsSet
<1>2. fresh \in ConfigSet /\ fresh.len <= Len(fresh.array)
  BY <1>1 DEF ConfigSet, SettingsSet
<1>3. read.providers = SubSeq(file.providers, 1, n)
      /\ read.legacy.key = IF s.legacy.key = "blank" THEN file.legacy.key ELSE s.legacy.key
  BY <1>2, LoadedTyped
<1>4. SubSeq(file.providers, 1, n) = file.providers
  BY <1>1
<1> HIDE DEF read
<1>5. c = [file |-> file, legacy |-> read.legacy, len |-> Len(read.providers),
           array |-> [k \in 1..n |->
                         IF k \in DOMAIN read.providers THEN read.providers[k]
                         ELSE IF k \in DOMAIN file.providers THEN file.providers[k]
                         ELSE NoProvider]]
  BY DEF Started, read
<1>6. c.array = file.providers /\ c.len = n /\ c.legacy = read.legacy
  <2>1. c.array = [k \in 1..n |-> file.providers[k]]
    BY <1>1, <1>3, <1>4, <1>5
  <2>2. [k \in 1..n |-> file.providers[k]] = file.providers
    BY <1>1
  <2>3. Len(read.providers) = n
    BY <1>3, <1>4
  <2>4. c.len = n /\ c.legacy = read.legacy
    BY <1>5, <2>3
  <2>5. QED
    BY <2>1, <2>2, <2>4
<1>7. c \in ConfigSet /\ c.len <= Len(c.array)
  <2>1. n \in Capacity(file, s)
    BY <1>1 DEF Capacity
  <2>2. QED
    BY <2>1, StartedTyped
<1> HIDE DEF c
<1>8. Loaded(s, c).providers = SubSeq(c.array, 1, c.len)
      /\ Loaded(s, c).legacy.key = IF s.legacy.key = "blank" THEN c.legacy.key ELSE s.legacy.key
  BY <1>7, LoadedTyped
<1>9. QED
  BY <1>3, <1>4, <1>6, <1>8 DEF c

\* What the handlers see of the settings is well typed.
LEMMA CurrentTyped ==
    ASSUME Typed
    PROVE  /\ Current \in SettingsSet /\ Current.limit = stored.limit
           /\ Known \in Seq(Provider) /\ DOMAIN Known = 1..Len(Known) /\ Len(Known) \in Nat
           /\ \A m \in DOMAIN Known : Known[m] \in Provider
<1>1. Current \in SettingsSet /\ Current.limit = stored.limit
  BY LoadedTyped DEF Typed, Current
<1>2. Known \in Seq(Provider)
  BY <1>1, EffectiveTyped DEF Known
<1>3. QED
  BY <1>1, <1>2, LenProperties, ElementOfSeq

\* An id the server knows is stored, remembered, or that of a vendor.
LEMMA KnownIds ==
    ASSUME Typed, NEW m \in DOMAIN Known
    PROVE  \/ Known[m].id \in Vendor
           \/ \E k \in DOMAIN stored.providers : Known[m].id = stored.providers[k].id
           \/ \E k \in DOMAIN config.array : Known[m].id = config.array[k].id
<1>1. stored \in SettingsSet /\ config \in ConfigSet /\ config.len <= Len(config.array)
      /\ stored.providers \in Seq(Provider) /\ config.array \in Seq(Provider) /\ config.len \in Nat
  BY DEF Typed, SettingsSet, ConfigSet
<1>2. CASE stored.providers # <<>>
  <2>1. Current.providers = Decoded(stored.providers, config) /\ Current.providers # <<>>
    BY <1>1, <1>2, LoadedTyped, DecodedTyped DEF Current
  <2>2. Known = Decoded(stored.providers, config)
    BY <2>1 DEF Known, Effective
  <2>3. QED
    BY <1>1, <2>2, DecodedTyped
<1>3. CASE stored.providers = <<>> /\ Current.providers # <<>>
  <2>1. Known = SubSeq(config.array, 1, config.len)
    BY <1>1, <1>3, LoadedTyped DEF Current, Known, Effective
  <2>2. QED
    BY <1>1, <2>1
<1>4. CASE Current.providers = <<>>
  <2>1. Known = <<[id |-> Current.legacy.vendor, vendor |-> Current.legacy.vendor,
                   key |-> Current.legacy.key]>>
    BY <1>4 DEF Known, Effective
  <2>2. Current.legacy.vendor \in Vendor
    BY CurrentTyped DEF SettingsSet
  <2>3. QED
    BY <2>1, <2>2
<1>5. QED
  BY <1>2, <1>3, <1>4

\* A step that leaves the server's settings alone.
LEMMA CleanStays ==
    ASSUME Inv, UNCHANGED <<stored, config>>, excused => excused'
    PROVE  Clean' /\ Known' = Known
  BY DEF Inv, Clean, Known, Current

-----------------------------------------------------------------------------
(* The requests.                                                            *)

LEMMA NewJobTyped ==
    ASSUME Parameters, NEW kind \in {"load", "save", "key_load", "regenerate"},
           NEW payload \in PayloadSet
    PROVE  /\ NewJob(kind, payload) \in JobSet
           /\ NewJob(kind, payload).kind = kind /\ NewJob(kind, payload).at = "ask"
           /\ NewJob(kind, payload).payload = payload
<1>1. FirstVendor \in Vendor
  BY DEF Parameters, FirstVendor
<1>2. Settings \in SettingsSet
  BY <1>1 DEF Settings, SettingsSet, Key
<1>3. QED
  BY <1>2 DEF NewJob, JobSet, Parameters

LEMMA NoPayloadTyped ==
    ASSUME Parameters
    PROVE  NoPayload \in PayloadSet /\ Settings \in SettingsSet /\ FirstVendor \in Vendor
  BY DEF Parameters, NoPayload, PayloadSet, FirstVendor, Settings, SettingsSet, Key

-----------------------------------------------------------------------------
(* The invariant, at first and through the user's steps.                    *)

LEMMA AtFirst ==
    ASSUME Parameters, Init
    PROVE  /\ stored \in SettingsSet /\ config \in ConfigSet /\ config.len <= Len(config.array)
           /\ ~Inherits(stored, config)
           /\ stored.providers = <<>> =>
                 config = Started(config.file, stored, Len(config.file.providers))
           /\ Home(Known) /\ Unique(Known)
<1>1. PICK key \in {FirstVendor, "blank"}, bytes \in Limits :
         \E inFile, inStore \in {<<>>, TwoProviders(key)} :
            /\ stored = SettingsWith(key, bytes, inStore)
            /\ \E capacity \in Capacity(SettingsWith(key, bytes, inFile), stored) :
                  config = Started(SettingsWith(key, bytes, inFile), stored, capacity)
  BY DEF Init
<1>2. PICK inFile \in {<<>>, TwoProviders(key)}, inStore \in {<<>>, TwoProviders(key)} :
         /\ stored = SettingsWith(key, bytes, inStore)
         /\ \E capacity \in Capacity(SettingsWith(key, bytes, inFile), stored) :
               config = Started(SettingsWith(key, bytes, inFile), stored, capacity)
  BY <1>1
<1> DEFINE file == SettingsWith(key, bytes, inFile)
           two == TwoProviders(key)
           fresh == [file |-> file, array |-> file.providers, len |-> Len(file.providers),
                     legacy |-> file.legacy]
           read == Loaded(stored, fresh)
           w == CHOOSE v \in Vendor : v # FirstVendor
           n == CHOOSE id \in RowId : TRUE
           a == [id |-> FirstVendor, vendor |-> FirstVendor, key |-> key]
           b == [id |-> n, vendor |-> w, key |-> w]
<1>3. PICK capacity \in Capacity(file, stored) : config = Started(file, stored, capacity)
  BY <1>2
<1>4. FirstVendor \in Vendor /\ w \in Vendor /\ n \in RowId /\ n # FirstVendor
      /\ bytes \in Nat /\ key \in Key
  BY DEF Parameters, FirstVendor, Key
<1>5. two = <<a, b>>
  BY DEF TwoProviders
<1> HIDE DEF w, n
<1>6. /\ a \in Provider /\ a.id = FirstVendor /\ a.vendor = FirstVendor /\ a.key = key
      /\ b \in Provider /\ b.id = n /\ b.vendor = w /\ b.key = w
  BY <1>4 DEF Provider, Id, Key
<1> HIDE DEF a, b, two
<1>7. /\ two \in Seq(Provider) /\ two # <<>> /\ Home(two) /\ Unique(two)
      /\ Home(<<a>>) /\ Unique(<<a>>)
  BY <1>4, <1>5, <1>6 DEF Home, Unique
<1>8. inFile \in {<<>>, two} /\ inStore \in {<<>>, two}
  BY DEF two
<1>9. \A list \in {<<>>, two} :
         LET s == SettingsWith(key, bytes, list) IN
         /\ s \in SettingsSet /\ s.providers = list
         /\ s.legacy.vendor = FirstVendor /\ s.legacy.key = key
  <2>1. <<>> \in Seq(Provider)
    OBVIOUS
  <2>2. [vendor |-> FirstVendor, key |-> key] \in [vendor : Vendor, key : Key]
    BY <1>4
  <2>3. ASSUME NEW list \in Seq(Provider)
        PROVE  LET s == SettingsWith(key, bytes, list) IN
               /\ s \in SettingsSet /\ s.providers = list
               /\ s.legacy.vendor = FirstVendor /\ s.legacy.key = key
    BY <1>4, <2>2 DEF SettingsWith, SettingsSet
  <2>4. QED
    BY <1>7, <2>1, <2>3
<1>10. /\ stored \in SettingsSet /\ stored.providers = inStore
       /\ stored.legacy.vendor = FirstVendor /\ stored.legacy.key = key
       /\ file \in SettingsSet /\ file.providers = inFile /\ file.legacy.key = key
  BY <1>2, <1>8, <1>9
<1> HIDE DEF file
<1>11. /\ config \in ConfigSet /\ config.len <= Len(config.array) /\ config.file = file
       /\ capacity \in Nat /\ DOMAIN config.array = 1..capacity
       /\ stored.providers = <<>> => capacity = Len(file.providers)
  BY <1>3, <1>10, StartedTyped
<1>12. CASE inStore = two
  <2>1. fresh \in ConfigSet /\ fresh.len <= Len(fresh.array) /\ fresh.array = file.providers
    <3>1. Len(file.providers) \in Nat /\ file.providers \in Seq(Provider)
      BY <1>10, LenProperties DEF SettingsSet
    <3>2. QED
      BY <1>10, <3>1 DEF ConfigSet, SettingsSet
  <2>2. \A k \in DOMAIN two : two[k].key = "blank" => Remembered(k, fresh) = "blank"
    <3>1. CASE inFile = two
      BY <1>10, <2>1, <3>1 DEF Remembered
    <3>2. CASE inFile = <<>>
      BY <1>10, <2>1, <3>2 DEF Remembered
    <3>3. QED
      BY <1>8, <3>1, <3>2
  <2>3. read.providers = Decoded(two, fresh)
    BY <1>7, <1>10, <1>12, <2>1, LoadedTyped
  <2>4. config.array = [k \in 1..capacity |->
                           IF k \in DOMAIN read.providers THEN read.providers[k]
                           ELSE IF k \in DOMAIN file.providers THEN file.providers[k]
                           ELSE NoProvider]
    BY <1>3 DEF Started
  <2> HIDE DEF read, fresh
  <2>5. ASSUME NEW k \in DOMAIN two, two[k].key = "blank" PROVE Remembered(k, config) = "blank"
    <3>1. CASE k \in 1..capacity
      <4>1. k \in DOMAIN read.providers /\ read.providers[k].key = "blank"
        BY <1>7, <2>1, <2>2, <2>3, <2>5, DecodedTyped
      <4>2. config.array[k] = read.providers[k]
        BY <2>4, <3>1, <4>1
      <4>3. QED
        BY <1>11, <3>1, <4>1, <4>2 DEF Remembered
    <3>2. CASE k \notin 1..capacity
      BY <1>11, <3>2 DEF Remembered
    <3>3. QED
      BY <3>1, <3>2
  <2>6. stored.providers = two
    BY <1>10, <1>12
  <2>7. ~Inherits(stored, config)
    BY <2>5, <2>6 DEF Inherits
  <2>8. Known = two
    BY <1>7, <1>10, <1>11, <2>6, <2>7, NothingInherited DEF Known, Current
  <2>9. QED
    BY <1>7, <1>10, <1>11, <2>6, <2>7, <2>8
<1>13. CASE inStore = <<>>
  <2>1. stored.providers = <<>> /\ config = Started(config.file, stored, Len(config.file.providers))
    BY <1>3, <1>10, <1>11, <1>13
  <2>2. ~Inherits(stored, config)
    BY <2>1 DEF Inherits
  <2>3. Current.providers = file.providers /\ Current.legacy.key = key
        /\ Current.legacy.vendor = FirstVendor
    <3>1. Current.providers = file.providers
          /\ Current.legacy.key = IF stored.legacy.key = "blank" THEN file.legacy.key
                                  ELSE stored.legacy.key
      BY <1>10, <1>11, <2>1, StartedWithoutList DEF Current
    <3>2. Current.legacy.vendor = stored.legacy.vendor
      BY <1>10, <1>11, LoadedTyped DEF Current
    <3>3. QED
      BY <1>10, <3>1, <3>2
  <2>4. Known = two \/ Known = <<a>>
    <3>1. CASE inFile = two
      BY <1>7, <1>10, <2>3, <3>1 DEF Known, Effective
    <3>2. CASE inFile = <<>>
      BY <1>10, <2>3, <3>2 DEF Known, Effective, a
    <3>3. QED
      BY <1>8, <3>1, <3>2
  <2>5. QED
    BY <1>7, <1>10, <1>11, <2>1, <2>2, <2>4
<1>14. QED
  BY <1>8, <1>12, <1>13

LEMMA InvInit == Parameters /\ Init => Inv
<1> SUFFICES ASSUME Parameters, Init PROVE Inv
  OBVIOUS
<1> DEFINE kind == IF view = "api-key" THEN "key_load" ELSE "load"
           job == NewJob(kind, NoPayload)
<1>1. job \in JobSet /\ job.kind = kind /\ job.at = "ask"
  BY NoPayloadTyped, NewJobTyped
<1>2. jobs = <<job>>
  BY DEF Init
<1> HIDE DEF job
<1>3. jobs \in Seq(JobSet) /\ Len(jobs) = 1 /\ DOMAIN jobs = {1} /\ jobs[1] = job
  BY <1>1, <1>2
<1>4. rows = <<>> /\ DOMAIN rows = {} /\ rows \in Seq(Provider)
  BY DEF Init
<1>5. /\ view \in View /\ apiKey = 1 /\ shown = 0 /\ vendor = FirstVendor /\ limit = NoSize
      /\ filled = FALSE /\ typed = FALSE /\ busy = (view = "api-key") /\ excused = FALSE
      /\ edits = 0 /\ faults = 0 /\ clicks = 0
  BY DEF Init
<1>6. Typed
  <2>1. busy \in BOOLEAN
    BY <1>5
  <2>2. limit \in Amount /\ apiKey \in 1..MaxKey /\ shown \in 0..MaxKey
        /\ edits \in 0..MaxEdits /\ faults \in 0..MaxFaults /\ clicks \in 0..MaxClicks
    BY <1>5 DEF Parameters, NoSize, Amount
  <2>3. QED
    BY <1>3, <1>4, <1>5, <2>1, <2>2, AtFirst, NoPayloadTyped DEF Typed
<1>7. Alone
  <2>1. CASE view = "api-key"
    <3>1. busy /\ job.kind = "key_load" /\ job.at = "ask"
      BY <1>1, <1>5, <2>1
    <3>2. QED
      BY <1>3, <2>1, <3>1 DEF Alone
  <2>2. CASE view # "api-key"
    BY <1>1, <1>3, <1>5, <2>2 DEF Alone
  <2>3. QED
    BY <2>1, <2>2
<1>8. Sized
  BY <1>1, <1>3, <1>5 DEF Sized, Sending
<1>9. Keyed
  BY <1>1, <1>3, <1>4, AtFirst DEF Keyed, Sending, Home, Unique, Agree
<1>10. KeyLive
  BY <1>1, <1>3, <1>5 DEF KeyLive
<1>11. Clean
  BY AtFirst DEF Clean
<1>12. QED
  BY <1>6, <1>7, <1>8, <1>9, <1>10, <1>11 DEF Inv

\* A change of the rows of the form.
LEMMA EditedKeeps ==
    ASSUME Parameters, Inv, NEW newRows \in Seq(Provider), Edited(newRows),
           excused' \in BOOLEAN, excused => excused',
           ~excused' =>
              /\ Home(newRows) /\ Unique(newRows) /\ Agree(newRows, Known)
              /\ \A k \in DOMAIN jobs : Sending(k) => Follows(newRows, jobs[k].payload.rows)
    PROVE  Inv'
<1>1. /\ view = "ai" /\ edits < MaxEdits /\ edits' = edits + 1 /\ rows' = newRows
      /\ UNCHANGED <<view, stored, config, apiKey, vendor, limit, filled, typed, shown, busy, jobs,
                     faults, clicks>>
  BY DEF Edited, Edit
<1>2. Typed'
  BY <1>1 DEF Inv, Typed, Parameters
<1>3. Alone'
  BY <1>1 DEF Inv, Alone
<1>4. Sized'
  BY <1>1 DEF Inv, Sized, Sending, UpTo
<1>5. Clean' /\ Known' = Known
  BY <1>1, CleanStays
<1>6. Keyed'
  BY <1>1, <1>5 DEF Inv, Keyed, Sending, Follows, StoredKey
<1>7. KeyLive'
  BY <1>1 DEF KeyLive
<1>8. QED
  BY <1>2, <1>3, <1>4, <1>5, <1>6, <1>7 DEF Inv

LEMMA RowsTyped ==
    ASSUME Typed
    PROVE  /\ DOMAIN rows = 1..Len(rows) /\ Len(rows) \in Nat
           /\ \A k \in DOMAIN rows : rows[k] \in Provider
  BY LenProperties, ElementOfSeq DEF Typed

\* A handler in flight with its rows.
LEMMA JobsTyped ==
    ASSUME Typed
    PROVE  /\ DOMAIN jobs = 1..Len(jobs) /\ Len(jobs) \in Nat
           /\ \A k \in DOMAIN jobs :
                 /\ jobs[k] \in JobSet
                 /\ \A m \in DOMAIN jobs[k].payload.rows : jobs[k].payload.rows[m] \in Provider
<1>1. \A k \in DOMAIN jobs : jobs[k] \in JobSet
  BY ElementOfSeq DEF Typed
<1>2. \A k \in DOMAIN jobs : jobs[k].payload.rows \in Seq(Provider)
  BY <1>1 DEF JobSet, PayloadSet
<1>3. QED
  BY <1>1, <1>2, LenProperties, ElementOfSeq DEF Typed

LEMMA TypeKeyKeeps ==
    ASSUME Parameters, Inv, NEW k \in DOMAIN rows, TypeKey(k)
    PROVE  Inv'
<1> DEFINE newRows == [rows EXCEPT ![k].key = rows[k].vendor]
<1>1. rows[k] \in Provider /\ rows[k].vendor \in Vendor /\ rows[k].vendor # "blank"
  BY RowsTyped DEF Inv, Provider, Parameters
<1>2. /\ DOMAIN newRows = DOMAIN rows
      /\ \A m \in DOMAIN rows : /\ newRows[m].id = rows[m].id
                                /\ newRows[m].vendor = rows[m].vendor
                                /\ m # k => newRows[m].key = rows[m].key
      /\ newRows[k].key = rows[k].vendor
  BY <1>1, RowsTyped DEF Inv, Provider
<1>3. newRows \in Seq(Provider)
  <2>1. [rows[k] EXCEPT !.key = rows[k].vendor] \in Provider
    BY <1>1 DEF Provider, Key
  <2>2. QED
    BY <2>1 DEF Inv, Typed
<1> HIDE DEF newRows
<1>4. Edited(newRows) /\ UNCHANGED excused /\ excused \in BOOLEAN
  BY DEF TypeKey, newRows, Inv, Typed
<1>5. ASSUME ~excused
      PROVE  /\ Home(newRows) /\ Unique(newRows) /\ Agree(newRows, Known)
             /\ \A j \in DOMAIN jobs : Sending(j) => Follows(newRows, jobs[j].payload.rows)
  <2>1. Home(newRows) /\ Unique(newRows) /\ Agree(newRows, Known)
    BY <1>1, <1>2, <1>5 DEF Inv, Keyed, Home, Unique, Agree
  <2>2. ASSUME NEW j \in DOMAIN jobs, Sending(j)
        PROVE  Follows(newRows, jobs[j].payload.rows)
    <3>1. Follows(rows, jobs[j].payload.rows)
      BY <1>5, <2>2 DEF Inv, Keyed
    <3>2. QED
      BY <1>1, <1>2, <3>1 DEF Follows
  <2>3. QED
    BY <2>1, <2>2
<1>6. QED
  BY <1>3, <1>4, <1>5, EditedKeeps

LEMMA PresetKeeps ==
    ASSUME Parameters, Inv, NEW k \in DOMAIN rows, NEW v \in Vendor, Preset(k, v)
    PROVE  Inv'
<1> DEFINE row == [id |-> rows[k].id, vendor |-> v,
                   key |-> IF v \in Keyless THEN "blank" ELSE rows[k].key]
           newRows == [rows EXCEPT ![k] = row]
<1>1. row \in Provider /\ row.id = rows[k].id /\ row.vendor = v
      /\ (rows[k].key = "blank" => row.key = "blank")
  BY RowsTyped DEF Inv, Provider, Key
<1> HIDE DEF row
<1>2. /\ DOMAIN newRows = DOMAIN rows /\ newRows[k] = row /\ newRows \in Seq(Provider)
      /\ \A m \in DOMAIN rows : m # k => newRows[m] = rows[m]
  BY <1>1 DEF Inv, Typed
<1>3. Edited(newRows) /\ excused' = (excused \/ rows[k].key # "blank" \/ StoredKey(rows[k].id))
  BY DEF Preset, row
<1> HIDE DEF newRows
<1>4. excused' \in BOOLEAN /\ (excused => excused')
  <2>1. (rows[k].key # "blank" \/ StoredKey(rows[k].id)) \in BOOLEAN
    BY Zenon DEF StoredKey
  <2>2. QED
    BY Zenon, <1>3, <2>1 DEF Inv, Typed
<1>5. ASSUME ~excused'
      PROVE  /\ Home(newRows) /\ Unique(newRows) /\ Agree(newRows, Known)
             /\ \A j \in DOMAIN jobs : Sending(j) => Follows(newRows, jobs[j].payload.rows)
  <2>1. ~excused /\ rows[k].key = "blank" /\ ~StoredKey(rows[k].id)
    BY <1>3, <1>5
  <2>2. \A m \in DOMAIN Known : Known[m].id = rows[k].id => Known[m].key = "blank"
    BY <2>1 DEF StoredKey, ToSet
  <2>3. Home(newRows) /\ Unique(newRows) /\ Agree(newRows, Known)
    BY <1>1, <1>2, <2>1, <2>2 DEF Inv, Keyed, Home, Unique, Agree
  <2>4. ASSUME NEW j \in DOMAIN jobs, Sending(j)
        PROVE  Follows(newRows, jobs[j].payload.rows)
    <3>1. Follows(rows, jobs[j].payload.rows)
      BY <2>1, <2>4 DEF Inv, Keyed
    <3>2. QED
      BY <1>1, <1>2, <2>1, <3>1 DEF Follows
  <2>5. QED
    BY <2>3, <2>4
<1>6. QED
  BY <1>2, <1>3, <1>4, <1>5, EditedKeeps

LEMMA RemoveRowKeeps ==
    ASSUME Parameters, Inv, NEW k \in DOMAIN rows, RemoveRow(k)
    PROVE  Inv'
<1> DEFINE newRows == RemoveAt(rows, k)
<1>1. newRows \in Seq(Provider)
  BY RemoveAtTyped DEF Inv, Typed
<1>2. PICK place \in [DOMAIN newRows -> DOMAIN rows] :
         \A m, n \in DOMAIN newRows :
            newRows[m] = rows[place[m]] /\ place[m] # k /\ (place[m] = place[n] => m = n)
  BY RemoveAtFrom DEF Inv, Typed
<1>3. Edited(newRows) /\ UNCHANGED excused /\ excused \in BOOLEAN
  BY DEF RemoveRow, Inv, Typed
<1> HIDE DEF newRows
<1>4. ASSUME ~excused
      PROVE  /\ Home(newRows) /\ Unique(newRows) /\ Agree(newRows, Known)
             /\ \A j \in DOMAIN jobs : Sending(j) => Follows(newRows, jobs[j].payload.rows)
  <2>1. Home(newRows) /\ Unique(newRows) /\ Agree(newRows, Known)
    BY <1>2, <1>4 DEF Inv, Keyed, Home, Unique, Agree
  <2>2. ASSUME NEW j \in DOMAIN jobs, Sending(j)
        PROVE  Follows(newRows, jobs[j].payload.rows)
    <3>1. Follows(rows, jobs[j].payload.rows)
      BY <1>4, <2>2 DEF Inv, Keyed
    <3>2. QED
      BY <1>2, <3>1 DEF Follows
  <2>3. QED
    BY <2>1, <2>2
<1>5. QED
  BY <1>1, <1>3, <1>4, EditedKeeps

LEMMA MoveRowKeeps ==
    ASSUME Parameters, Inv, NEW k \in DOMAIN rows, MoveRow(k)
    PROVE  Inv'
<1> DEFINE newRows == [rows EXCEPT ![k] = rows[k + 1], ![k + 1] = rows[k]]
           place == [m \in DOMAIN rows |-> IF m = k THEN k + 1 ELSE IF m = k + 1 THEN k ELSE m]
<1>1. k + 1 \in DOMAIN rows /\ k # k + 1 /\ rows[k] \in Provider /\ rows[k + 1] \in Provider
  BY RowsTyped DEF MoveRow, Inv
<1>2. newRows \in Seq(Provider) /\ DOMAIN newRows = DOMAIN rows
  BY <1>1 DEF Inv, Typed
<1>3. /\ place \in [DOMAIN newRows -> DOMAIN rows]
      /\ \A m, n \in DOMAIN newRows :
            newRows[m] = rows[place[m]] /\ (place[m] = place[n] => m = n)
  BY <1>1, <1>2
<1>4. Edited(newRows) /\ UNCHANGED excused /\ excused \in BOOLEAN
  BY DEF MoveRow, Inv, Typed
<1> HIDE DEF newRows, place
<1>5. ASSUME ~excused
      PROVE  /\ Home(newRows) /\ Unique(newRows) /\ Agree(newRows, Known)
             /\ \A j \in DOMAIN jobs : Sending(j) => Follows(newRows, jobs[j].payload.rows)
  <2>1. Home(newRows) /\ Unique(newRows) /\ Agree(newRows, Known)
    BY <1>3, <1>5 DEF Inv, Keyed, Home, Unique, Agree
  <2>2. ASSUME NEW j \in DOMAIN jobs, Sending(j)
        PROVE  Follows(newRows, jobs[j].payload.rows)
    <3>1. Follows(rows, jobs[j].payload.rows)
      BY <1>5, <2>2 DEF Inv, Keyed
    <3>2. QED
      BY <1>3, <3>1 DEF Follows
  <2>3. QED
    BY <2>1, <2>2
<1>6. QED
  BY <1>2, <1>4, <1>5, EditedKeeps

LEMMA AddRowKeeps == ASSUME Parameters, Inv, AddRow PROVE Inv'
<1> DEFINE lists == {rows, stored.providers, config.array, config.file.providers}
                    \cup {jobs[k].payload.rows : k \in DOMAIN jobs}
           taken == UNION {{p.id : p \in ToSet(list)} : list \in lists}
<1>1. PICK id \in RowId \ taken :
         Edited(Append(rows, [id |-> id, vendor |-> FirstVendor, key |-> "blank"]))
  BY DEF AddRow
<1> DEFINE row == [id |-> id, vendor |-> FirstVendor, key |-> "blank"]
           newRows == Append(rows, row)
<1>2. UNCHANGED excused /\ excused \in BOOLEAN
  BY DEF AddRow, Inv, Typed
<1>3. /\ \A k \in DOMAIN rows : rows[k].id # id
      /\ \A k \in DOMAIN stored.providers : stored.providers[k].id # id
      /\ \A k \in DOMAIN config.array : config.array[k].id # id
      /\ \A j \in DOMAIN jobs : \A m \in DOMAIN jobs[j].payload.rows :
            jobs[j].payload.rows[m].id # id
  <2>1. ASSUME NEW list \in lists, NEW k \in DOMAIN list PROVE list[k].id # id
    <3>1. list[k] \in ToSet(list)
      BY DEF ToSet
    <3>2. QED
      BY <3>1
  <2>2. QED
    BY <2>1
<1>4. \A m \in DOMAIN Known : Known[m].id # id
  <2>1. id \notin Vendor
    BY DEF Parameters
  <2>2. QED
    BY <1>3, <2>1, KnownIds DEF Inv
<1>5. row \in Provider /\ row.id = id /\ row.key = "blank"
  BY NoPayloadTyped DEF Provider, Id, Key
<1> HIDE DEF row, taken, lists
<1>6. newRows \in Seq(Provider) /\ DOMAIN newRows = DOMAIN rows \cup {Len(rows) + 1}
      /\ newRows[Len(rows) + 1] = row /\ Len(rows) + 1 \notin DOMAIN rows
      /\ \A m \in DOMAIN rows : newRows[m] = rows[m]
  <2>1. Len(newRows) = Len(rows) + 1 /\ newRows \in Seq(Provider)
    BY <1>5 DEF Inv, Typed
  <2>2. DOMAIN newRows = 1..Len(rows) + 1
    BY <2>1, LenProperties
  <2>3. QED
    BY <1>5, <2>1, <2>2, RowsTyped DEF Inv, Typed
<1>7. Edited(newRows)
  BY <1>1 DEF row
<1> HIDE DEF newRows
<1>8. ASSUME ~excused
      PROVE  /\ Home(newRows) /\ Unique(newRows) /\ Agree(newRows, Known)
             /\ \A j \in DOMAIN jobs : Sending(j) => Follows(newRows, jobs[j].payload.rows)
  <2>1. Home(newRows) /\ Unique(newRows) /\ Agree(newRows, Known)
    BY <1>3, <1>4, <1>5, <1>6, <1>8 DEF Inv, Keyed, Home, Unique, Agree
  <2>2. ASSUME NEW j \in DOMAIN jobs, Sending(j)
        PROVE  Follows(newRows, jobs[j].payload.rows)
    <3>1. Follows(rows, jobs[j].payload.rows)
      BY <1>8, <2>2 DEF Inv, Keyed
    <3>2. QED
      BY <1>3, <1>5, <1>6, <3>1 DEF Follows
  <2>3. QED
    BY <2>1, <2>2
<1>9. QED
  BY <1>2, <1>6, <1>7, <1>8, EditedKeeps

LEMMA TypeLimitKeeps ==
    ASSUME Parameters, Inv, NEW size \in Amount, TypeLimit(size)
    PROVE  Inv'
<1>1. /\ view = "storage" /\ edits < MaxEdits /\ edits' = edits + 1 /\ limit' = size /\ typed' = TRUE
      /\ UNCHANGED <<view, stored, config, apiKey, rows, vendor, filled, shown, busy, jobs, excused,
                     faults, clicks>>
  BY DEF TypeLimit, Edit
<1>2. Typed'
  BY <1>1 DEF Inv, Typed, Parameters
<1>3. Alone'
  BY <1>1 DEF Inv, Alone
<1>4. Sized'
  BY <1>1 DEF Inv, Sized, Sending, UpTo
<1>5. Clean' /\ Known' = Known
  BY <1>1, CleanStays
<1>6. Keyed'
  BY <1>1, <1>5 DEF Inv, Keyed, Sending, Follows, StoredKey
<1>7. KeyLive'
  BY <1>1 DEF KeyLive
<1>8. QED
  BY <1>2, <1>3, <1>4, <1>5, <1>6, <1>7 DEF Inv

\* A handler begins where none is in flight, or the page is excused.
LEMMA BeginKeeps ==
    ASSUME Parameters, Inv, NEW job \in JobSet, Begin(job), job.at = "ask",
           view # "api-key" <=> job.kind = "save",
           job.kind # "load",
           excused' \in BOOLEAN, excused => excused',
           view # "api-key" \/ ~excused' => jobs = <<>>,
           job.kind = "save" =>
              /\ filled /\ job.payload.limit = Bytes(limit) /\ job.payload.typed = typed
              /\ ~excused' => job.payload.rows = rows /\ rows # <<>>
    PROVE  Inv'
<1>1. /\ clicks < MaxClicks /\ clicks' = clicks + 1
      /\ jobs' = Append(jobs, job) /\ busy' = TRUE
      /\ UNCHANGED <<view, stored, config, apiKey, form, shown, edits, faults>>
  BY DEF Begin
<1>2. UNCHANGED <<rows, vendor, limit, filled, typed>>
  BY <1>1 DEF form
<1>3. /\ jobs' \in Seq(JobSet) /\ Len(jobs') = Len(jobs) + 1
      /\ DOMAIN jobs' = DOMAIN jobs \cup {Len(jobs) + 1}
      /\ jobs'[Len(jobs) + 1] = job /\ \A k \in DOMAIN jobs : jobs'[k] = jobs[k]
  <2>1. jobs' \in Seq(JobSet) /\ Len(jobs') = Len(jobs) + 1 /\ jobs'[Len(jobs) + 1] = job
        /\ \A k \in 1..Len(jobs) : jobs'[k] = jobs[k]
    BY <1>1 DEF Inv, Typed
  <2>2. DOMAIN jobs' = 1..Len(jobs) + 1
    BY <2>1, LenProperties
  <2>3. QED
    BY <2>1, <2>2, JobsTyped DEF Inv
<1>4. view # "api-key" \/ ~excused' =>
         jobs = <<>> /\ Len(jobs') <= 1 /\ DOMAIN jobs' = {1} /\ jobs'[1] = job
  <2>1. ASSUME jobs = <<>> PROVE Len(jobs') <= 1 /\ DOMAIN jobs' = {1} /\ jobs'[1] = job
    <3>1. Len(jobs) = 0 /\ DOMAIN jobs = {}
      BY <2>1
    <3>2. QED
      BY <1>3, <3>1
  <2>2. QED
    BY <2>1
<1>5. Typed'
  <2>1. clicks' \in 0..MaxClicks
    BY <1>1 DEF Inv, Typed, Parameters
  <2>2. QED
    BY <1>1, <1>2, <1>3, <2>1 DEF Inv, Typed
<1>6. Alone'
  <2>1. \A k \in DOMAIN jobs' :
          /\ view # "api-key" <=> jobs'[k].kind \in {"load", "save"}
          /\ jobs'[k].at = "usage" => jobs'[k].kind = "save"
    BY <1>3 DEF Inv, Alone
  <2>2. view # "api-key" \/ ~excused' => Len(jobs') <= 1
    BY <1>4
  <2>3. view # "api-key" =>
          \A k \in DOMAIN jobs' :
             /\ IF filled THEN busy' /\ jobs'[k].kind = "save" ELSE jobs'[k].kind = "load"
             /\ jobs'[k].at = "back" => jobs'[k].result.limit = stored.limit
    BY <1>1, <1>4
  <2>4. QED
    BY <1>1, <1>2, <2>1, <2>2, <2>3 DEF Alone
<1>7. Sized'
  <2>1. CASE view = "api-key"
    <3>1. \A k \in DOMAIN jobs' : jobs'[k].kind # "save"
      BY <1>3, <2>1 DEF Inv, Alone
    <3>2. QED
      BY <1>1, <1>2, <3>1 DEF Inv, Sized, Sending, UpTo
  <2>2. CASE view # "api-key"
    <3>1. DOMAIN jobs' = {1} /\ jobs'[1] = job
      BY <1>4, <2>2
    <3>2. QED
      BY <1>1, <1>2, <2>2, <3>1 DEF Inv, Typed, Sized, Sending, UpTo, Bytes
  <2>3. QED
    BY <2>1, <2>2
<1>8. Keyed'
  <2> SUFFICES ASSUME ~excused' PROVE Keyed'
    BY DEF Keyed
  <2>1. /\ Home(Known) /\ Unique(Known)
        /\ Home(rows) /\ Unique(rows) /\ Agree(rows, Known)
    BY DEF Inv, Keyed
  <2>2. DOMAIN jobs' = {1} /\ jobs'[1] = job
    BY <1>4
  <2>3. ASSUME job.kind = "save" PROVE Follows(rows, job.payload.rows)
    <3>1. job.payload.rows = rows
      BY <2>3
    <3>2. \A k, m \in DOMAIN rows : rows[k].id = rows[m].id => k = m
      BY <2>1 DEF Unique
    <3>3. QED
      BY <3>1, <3>2 DEF Follows
  <2>4. Known' = Known /\ rows' = rows
    BY <1>1, <1>2, CleanStays
  <2>5. \A k \in DOMAIN jobs' : Sending(k)' =>
             LET sent == jobs'[k].payload.rows IN
             /\ sent # <<>> /\ Home(sent) /\ Unique(sent) /\ Agree(sent, Known)
             /\ Follows(rows, sent)
    BY <2>1, <2>2, <2>3 DEF Sending
  <2>6. \A k \in DOMAIN jobs' : jobs'[k].at # "back"
    BY <2>2
  <2>7. (Home(Known) /\ Unique(Known) /\ Home(rows) /\ Unique(rows) /\ Agree(rows, Known))'
    BY <2>1, <2>4 DEF Home, Unique, Agree
  <2>8. \A k \in DOMAIN jobs' : Sending(k)' =>
           (LET sent == jobs[k].payload.rows IN
            /\ sent # <<>> /\ Home(sent) /\ Unique(sent) /\ Agree(sent, Known)
            /\ Follows(rows, sent))'
    BY <2>4, <2>5 DEF Home, Unique, Agree, Follows, StoredKey
  <2>9. QED
    BY <2>6, <2>7, <2>8 DEF Keyed
<1>9. KeyLive'
  <2> SUFFICES ASSUME view = "api-key", ~excused' PROVE KeyLive'
    BY <1>1 DEF KeyLive
  <2>1. jobs = <<>> /\ shown \in {0, apiKey}
    BY DEF Inv, KeyLive
  <2>2. QED
    BY <1>1, <1>4, <2>1 DEF KeyLive
<1>10. Clean'
  BY <1>1, CleanStays
<1>11. QED
  BY <1>5, <1>6, <1>7, <1>8, <1>9, <1>10 DEF Inv

LEMMA BytesTyped == ASSUME Parameters, NEW size \in Amount PROVE Bytes(size) \in Nat
  BY DEF Parameters, Amount, Bytes

LEMMA SaveKeeps == ASSUME Parameters, Inv, Save PROVE Inv'
<1> DEFINE job == NewJob("save", Payload)
<1>1. /\ view \in {"storage", "ai"} /\ ~busy /\ filled
      /\ Begin(job) /\ excused' = (excused \/ rows = <<>>)
  BY DEF Save
<1>2. Payload \in PayloadSet /\ Payload.limit = Bytes(limit) /\ Payload.rows = rows
      /\ Payload.typed = typed
  <2>1. rows # <<>> => rows[1].vendor \in Vendor
    <3>1. ASSUME rows # <<>> PROVE 1 \in DOMAIN rows
      BY <3>1, RowsTyped, EmptySeq DEF Inv, Typed
    <3>2. QED
      BY <3>1, RowsTyped DEF Inv, Provider
  <2>2. Bytes(limit) \in Nat
    BY BytesTyped DEF Inv, Typed
  <2>3. QED
    BY <2>1, <2>2 DEF Payload, PayloadSet, Inv, Typed
<1>3. job \in JobSet /\ job.kind = "save" /\ job.at = "ask" /\ job.payload = Payload
  BY <1>2, NewJobTyped
<1>4. jobs = <<>>
  <2>1. DOMAIN jobs = {}
    BY <1>1 DEF Inv, Alone
  <2>2. QED
    BY <2>1, JobsTyped, EmptySeq DEF Inv, Typed
<1>5. excused' \in BOOLEAN /\ (excused => excused') /\ (~excused' => rows # <<>>)
  BY <1>1 DEF Inv, Typed
<1> HIDE DEF job
<1>6. QED
  BY <1>1, <1>2, <1>3, <1>4, <1>5, BeginKeeps

LEMMA KeyRequestsKeep == ASSUME Parameters, Inv, Regenerate \/ Remount PROVE Inv'
<1>1. PICK kind \in {"regenerate", "key_load"} : Begin(NewJob(kind, NoPayload))
  BY DEF Regenerate, Remount
<1> DEFINE job == NewJob(kind, NoPayload)
<1>2. job \in JobSet /\ job.kind = kind /\ job.at = "ask" /\ view = "api-key"
  BY NewJobTyped, NoPayloadTyped DEF Regenerate, Remount
<1>3. excused' \in BOOLEAN /\ (excused => excused') /\ (~excused' => jobs = <<>>)
  <2>1. CASE Regenerate
    BY <2>1 DEF Regenerate, Inv, Typed, Alone
  <2>2. CASE Remount
    BY <2>2 DEF Remount, Inv, Typed
  <2>3. QED
    BY <2>1, <2>2
<1>4. Begin(job)
  BY <1>1
<1> HIDE DEF job
<1>5. QED
  BY <1>2, <1>3, <1>4, BeginKeeps

-----------------------------------------------------------------------------
(* The invariant, through the server and the answers.                       *)

\* A handler of the settings is the only one there is.
LEMMA OnlyHandler ==
    ASSUME Inv, NEW k \in DOMAIN jobs, view # "api-key" \/ ~excused
    PROVE  k = 1 /\ DOMAIN jobs = {1}
<1>1. k \in 1..Len(jobs) /\ Len(jobs) \in Nat /\ DOMAIN jobs = 1..Len(jobs) /\ Len(jobs) <= 1
  BY JobsTyped DEF Inv, Alone
<1>2. QED
  BY <1>1

\* The server stores a key where it was typed for, or where it was.
LEMMA SaveStores ==
    ASSUME Parameters, Inv, NEW k \in DOMAIN jobs, Sending(k),
           stored' = Preserve(jobs[k].payload, Current)
    PROVE  LET new == stored'.providers IN
           /\ stored' \in SettingsSet /\ stored'.limit = jobs[k].payload.limit
           /\ ~excused =>
                 /\ new # <<>> /\ Home(new) /\ Unique(new) /\ Agree(rows, new)
                 /\ \A m \in DOMAIN Known, n \in DOMAIN new :
                       (Known[m].id = new[n].id /\ Known[m].key # "blank")
                          => new[n].key # "blank"
<1> DEFINE sent == jobs[k].payload.rows
<1>1. jobs[k].payload \in PayloadSet /\ Current \in SettingsSet /\ sent \in Seq(Provider)
  BY JobsTyped, CurrentTyped DEF Inv, JobSet, PayloadSet
<1>2. stored' \in SettingsSet /\ stored'.limit = jobs[k].payload.limit
      /\ DOMAIN stored'.providers = DOMAIN sent
  BY <1>1, Preserved
<1>3. ASSUME NEW m \in DOMAIN sent
      PROVE  LET row == stored'.providers[m] IN
                 /\ row.id = sent[m].id /\ row.vendor = sent[m].vendor
                 /\ sent[m].key # "blank" => row.key = sent[m].key
                 /\ sent[m].key = "blank" =>
                      \/ /\ row.key = "blank"
                         /\ \A j \in DOMAIN Known : Known[j].id = row.id => Known[j].key = "blank"
                      \/ \E j \in DOMAIN Known :
                            /\ Known[j].id = row.id /\ Known[j].key # "blank"
                            /\ row.key = Known[j].key
  BY <1>1, Preserved DEF Known
<1> DEFINE new == stored'.providers
<1> SUFFICES ASSUME ~excused
             PROVE  /\ new # <<>> /\ Home(new) /\ Unique(new) /\ Agree(rows, new)
                    /\ \A m \in DOMAIN Known, n \in DOMAIN new :
                          (Known[m].id = new[n].id /\ Known[m].key # "blank")
                             => new[n].key # "blank"
  BY <1>2
<1>4. /\ sent # <<>> /\ Home(sent) /\ Unique(sent) /\ Agree(sent, Known)
      /\ Follows(rows, sent) /\ Home(Known)
  BY DEF Inv, Keyed
<1>5. new # <<>> /\ DOMAIN new = DOMAIN sent
  <2>1. new # <<>>
    <3> HIDE DEF sent
    <3>1. Len(sent) \in Nat /\ Len(sent) # 0 /\ DOMAIN sent = 1..Len(sent)
      BY <1>1, <1>4, LenProperties, EmptySeq
    <3>2. 1 \in DOMAIN sent
      BY <3>1
    <3>3. DOMAIN new # {}
      BY <1>2, <3>2
    <3>4. QED
      BY <3>3
  <2>2. QED
    BY <1>2, <2>1
<1>6. \A m \in DOMAIN sent :
         /\ new[m].id = sent[m].id /\ new[m].vendor = sent[m].vendor
         /\ sent[m].key # "blank" => new[m].key = sent[m].key
         /\ sent[m].key = "blank" =>
              \/ /\ new[m].key = "blank"
                 /\ \A j \in DOMAIN Known : Known[j].id = new[m].id => Known[j].key = "blank"
              \/ \E j \in DOMAIN Known :
                    /\ Known[j].id = new[m].id /\ Known[j].key # "blank"
                    /\ new[m].key = Known[j].key
  BY <1>3
<1> HIDE DEF new, sent
<1>7. Home(new)
  <2> SUFFICES ASSUME NEW m \in DOMAIN new PROVE new[m].key \in {"blank", new[m].vendor}
    BY DEF Home
  <2>1. m \in DOMAIN sent /\ sent[m].key \in {"blank", sent[m].vendor}
    BY <1>4, <1>5 DEF Home
  <2>2. CASE sent[m].key # "blank"
    BY <1>6, <2>1, <2>2
  <2>3. ASSUME NEW j \in DOMAIN Known, Known[j].id = new[m].id, Known[j].key # "blank",
               new[m].key = Known[j].key
        PROVE  new[m].key = new[m].vendor
    <3>1. Known[j].key = Known[j].vendor
      BY <1>4, <2>3 DEF Home
    <3>2. sent[m].vendor = Known[j].vendor
      BY <1>4, <1>6, <2>1, <2>3 DEF Agree
    <3>3. QED
      BY <1>6, <2>1, <2>3, <3>1, <3>2
  <2>4. QED
    BY <1>6, <2>1, <2>2, <2>3
<1>8. Unique(new)
  BY <1>4, <1>5, <1>6 DEF Unique
<1>9. Agree(rows, new)
  <2> SUFFICES ASSUME NEW r \in DOMAIN rows, NEW m \in DOMAIN new,
                      rows[r].id = new[m].id, new[m].key # "blank"
               PROVE  rows[r].vendor = new[m].vendor
    BY DEF Agree
  <2>1. m \in DOMAIN sent /\ rows[r].id = sent[m].id
    BY <1>5, <1>6
  <2>2. sent[m].key # "blank" \/ StoredKey(rows[r].id)
    BY <1>6, <2>1 DEF StoredKey, ToSet
  <2>3. rows[r].vendor = sent[m].vendor
    BY <1>4, <2>1, <2>2 DEF Follows
  <2>4. QED
    BY <1>6, <2>1, <2>3
<1>10. ASSUME NEW m \in DOMAIN Known, NEW n \in DOMAIN new,
              Known[m].id = new[n].id, Known[m].key # "blank"
       PROVE  new[n].key # "blank"
  <2>1. n \in DOMAIN sent
    BY <1>5
  <2>2. CASE sent[n].key # "blank"
    BY <1>6, <2>1, <2>2
  <2>3. CASE sent[n].key = "blank"
    BY <1>6, <1>10, <2>1, <2>3
  <2>4. QED
    BY <2>2, <2>3
<1>11. QED
  BY <1>5, <1>7, <1>8, <1>9, <1>10

\* A read loses no key that is stored.
LEMMA ReadKeepsKeys ==
    ASSUME NEW s \in SettingsSet, NEW c \in ConfigSet, c.len <= Len(c.array),
           s.providers # <<>>, NEW n \in DOMAIN Effective(Loaded(s, c))
    PROVE  /\ n \in DOMAIN s.providers
           /\ Effective(Loaded(s, c))[n].id = s.providers[n].id
           /\ s.providers[n].key # "blank" => Effective(Loaded(s, c))[n].key = s.providers[n].key
<1>1. s.providers \in Seq(Provider)
  BY DEF SettingsSet
<1>2. Loaded(s, c).providers = Decoded(s.providers, c) /\ Decoded(s.providers, c) # <<>>
  BY <1>1, LoadedTyped, DecodedTyped
<1>3. Effective(Loaded(s, c)) = Decoded(s.providers, c)
  BY <1>2 DEF Effective
<1>4. QED
  BY <1>1, <1>3, DecodedTyped

\* The server does what it was asked.
LEMMA ServedKeeps ==
    ASSUME Parameters, Inv, NEW k \in DOMAIN jobs, Served(k)
    PROVE  Inv' /\ KeysKept /\ SizesRoundUp
<1> DEFINE job == jobs[k]
           back == [kind |-> job.kind, at |-> "back", payload |-> NoPayload,
                    result |-> IF job.kind = "load" THEN Current ELSE stored', key |-> apiKey']
<1>1. /\ job.at = "ask"
      /\ stored' = IF job.kind = "save" THEN Preserve(job.payload, Current) ELSE stored
      /\ config' = IF job.kind \in {"load", "save"} THEN Overwritten(stored, config) ELSE config
      /\ excused' = (excused \/ Inherits(stored', config'))
      /\ apiKey' = IF job.kind = "regenerate" /\ apiKey < MaxKey THEN apiKey + 1 ELSE apiKey
      /\ jobs' = [jobs EXCEPT ![k] = back]
      /\ UNCHANGED <<view, form, shown, busy, edits, faults, clicks>>
  BY DEF Served
<1>2. UNCHANGED <<rows, vendor, limit, filled, typed>>
  BY <1>1 DEF form
<1>3. job \in JobSet /\ job.payload \in PayloadSet
  BY JobsTyped DEF Inv, JobSet
<1>4. ASSUME job.kind = "save"
      PROVE  LET new == stored'.providers IN
             /\ stored' \in SettingsSet /\ stored'.limit = job.payload.limit
             /\ ~excused =>
                   /\ new # <<>> /\ Home(new) /\ Unique(new) /\ Agree(rows, new)
                   /\ \A m \in DOMAIN Known, n \in DOMAIN new :
                         (Known[m].id = new[n].id /\ Known[m].key # "blank")
                            => new[n].key # "blank"
  BY <1>1, <1>4, SaveStores DEF Sending
<1>5. job.kind # "save" =>
         /\ stored' = stored /\ Known' = Known
         /\ Inherits(stored', config') => Inherits(stored, config)
         /\ stored.providers = <<>> => config' = config
  <2>1. stored \in SettingsSet /\ config \in ConfigSet
    BY DEF Inv, Typed
  <2>2. CASE job.kind = "load"
    BY <1>1, <2>1, <2>2, ReadAgain, OverwrittenTyped DEF Known, Current
  <2>3. CASE job.kind \notin {"load", "save"}
    BY <1>1, <2>3 DEF Known, Current
  <2>4. QED
    BY <2>2, <2>3
<1>6. /\ stored' \in SettingsSet /\ config' \in ConfigSet /\ config'.len <= Len(config'.array)
      /\ Current \in SettingsSet /\ Current.limit = stored.limit
  <2>1. stored' \in SettingsSet
    BY <1>4, <1>5 DEF Inv, Typed
  <2>2. config' \in ConfigSet /\ config'.len <= Len(config'.array)
    <3>1. CASE config' = Overwritten(stored, config)
      BY <3>1, OverwrittenTyped DEF Inv, Typed
    <3>2. CASE config' = config
      BY <3>2 DEF Inv, Typed
    <3>3. QED
      BY <1>1, <3>1, <3>2
  <2>3. QED
    BY <2>1, <2>2, CurrentTyped DEF Inv
<1>7. apiKey' \in 1..MaxKey
  BY <1>1, SMTT(30) DEF Inv, Typed, Parameters
<1>8. /\ back \in JobSet /\ back.kind = job.kind /\ back.at = "back" /\ back.key = apiKey'
      /\ back.result = IF job.kind = "load" THEN Current ELSE stored'
  BY <1>3, <1>6, <1>7, NoPayloadTyped DEF JobSet, Parameters
<1> HIDE DEF back, job
<1>9. /\ jobs' \in Seq(JobSet) /\ Len(jobs') = Len(jobs) /\ DOMAIN jobs' = DOMAIN jobs
      /\ jobs'[k] = back /\ \A m \in DOMAIN jobs : m # k => jobs'[m] = jobs[m]
  BY <1>1, <1>8 DEF Inv, Typed
<1>10. view # "api-key" \/ ~excused => k = 1 /\ DOMAIN jobs = {1}
  BY OnlyHandler
<1>11. jobs[k] = job
  BY DEF job
<1>12. /\ excused' \in BOOLEAN /\ (excused => excused')
       /\ ~excused' => ~excused /\ ~Inherits(stored', config')
  <2>1. Inherits(stored', config') \in BOOLEAN
    BY Zenon DEF Inherits
  <2>2. QED
    BY <1>1, <2>1 DEF Inv, Typed
<1>13. job.kind = "save" /\ ~excused' => Known' = stored'.providers
  BY <1>4, <1>6, <1>12, NothingInherited DEF Known, Current
<1>14. Clean'
  <2> SUFFICES ASSUME ~excused', stored'.providers = <<>>
               PROVE  config' = Started(config'.file, stored', Len(config'.file.providers))
    BY <1>12 DEF Clean
  <2>1. job.kind # "save"
    BY <1>4, <1>12
  <2>2. QED
    BY <1>5, <1>12, <2>1 DEF Inv, Clean
<1>15. Typed'
  BY <1>1, <1>2, <1>6, <1>7, <1>9, <1>12 DEF Inv, Typed
<1>16. Alone'
  <2>1. \A m \in DOMAIN jobs' :
          /\ view # "api-key" <=> jobs'[m].kind \in {"load", "save"}
          /\ jobs'[m].at = "usage" => jobs'[m].kind = "save"
    BY <1>8, <1>9, <1>11 DEF Inv, Alone
  <2>2. view # "api-key" =>
          \A m \in DOMAIN jobs' :
             /\ IF filled THEN busy /\ jobs'[m].kind = "save" ELSE jobs'[m].kind = "load"
             /\ jobs'[m].at = "back" => jobs'[m].result.limit = stored'.limit
    <3>1. back.result.limit = stored'.limit
      BY <1>1, <1>6, <1>8
    <3>2. QED
      BY <1>8, <1>9, <1>10, <1>11, <3>1 DEF Inv, Alone
  <2>3. view = "api-key" /\ ~excused => (jobs' # <<>> => busy)
    BY <1>9 DEF Inv, Alone
  <2>4. view # "api-key" \/ ~excused => Len(jobs') <= 1
    BY <1>9 DEF Inv, Alone
  <2>5. QED
    BY <1>1, <1>2, <1>12, <2>1, <2>2, <2>3, <2>4 DEF Alone
<1>17. Sized'
  <2>1. CASE job.kind = "save"
    <3>1. view # "api-key"
      BY <1>11, <2>1 DEF Inv, Alone
    <3>2. \A m \in DOMAIN jobs' : ~Sending(m)'
      BY <1>8, <1>9, <1>10, <3>1 DEF Sending
    <3>3. (filled /\ ~typed) => Bytes(limit) = stored'.limit
      BY <1>1, <1>4, <1>11, <2>1 DEF Inv, Sized, Sending
    <3>4. stored'.limit \in Nat
      BY <1>6 DEF SettingsSet
    <3>5. QED
      BY <1>2, <3>2, <3>3, <3>4 DEF Sized, UpTo, Bytes, Parameters
  <2>2. CASE job.kind # "save"
    BY <1>2, <1>5, <1>8, <1>9, <2>2 DEF Inv, Sized, Sending, UpTo
  <2>3. QED
    BY <2>1, <2>2
<1>18. Keyed'
  <2> SUFFICES ASSUME ~excused' PROVE Keyed'
    BY DEF Keyed
  <2>1. ~excused /\ DOMAIN jobs' = {k} /\ jobs'[k] = back
    BY <1>9, <1>10, <1>12
  <2>2. \A m \in DOMAIN jobs' : ~Sending(m)'
    BY <1>8, <2>1 DEF Sending
  <2>3. /\ Home(Known') /\ Unique(Known') /\ Agree(rows, Known')
        /\ Home(rows) /\ Unique(rows)
    <3>1. CASE job.kind = "save"
      BY <1>4, <1>13, <2>1, <3>1 DEF Inv, Keyed
    <3>2. CASE job.kind # "save"
      BY <1>5, <2>1, <3>2 DEF Inv, Keyed
    <3>3. QED
      BY <3>1, <3>2
  <2>4. job.kind \in {"load", "save"} => Effective(back.result) = Known'
    <3>1. CASE job.kind = "save"
      BY <1>4, <1>8, <1>13, <2>1, <3>1 DEF Effective
    <3>2. CASE job.kind = "load"
      BY <1>5, <1>8, <3>2 DEF Known
    <3>3. QED
      BY <3>1, <3>2
  <2>5. QED
    BY <1>2, <1>8, <2>1, <2>2, <2>3, <2>4 DEF Keyed
<1>19. KeyLive'
  <2> SUFFICES ASSUME view = "api-key", ~excused' PROVE KeyLive'
    BY <1>1 DEF KeyLive
  <2>0. ~excused
    BY <1>12
  <2>1. DOMAIN jobs' = {k} /\ jobs'[k].at = "back" /\ jobs'[k].key = apiKey'
        /\ jobs'[k].kind = job.kind
    BY <1>8, <1>9, <1>10, <2>0
  <2>2. CASE job.kind = "regenerate"
    BY <2>1, <2>2 DEF KeyLive
  <2>3. CASE job.kind # "regenerate"
    <3>1. apiKey' = apiKey /\ shown' = shown
      BY <1>1, <2>3
    <3>2. shown \in {0, apiKey}
      BY <1>1, <1>10, <1>11, <2>0, <2>3 DEF Inv, KeyLive
    <3>3. QED
      BY <2>1, <3>1, <3>2 DEF KeyLive
  <2>4. QED
    BY <2>2, <2>3
<1>20. KeysKept
  <2> SUFFICES ASSUME NEW p \in ToSet(Known), NEW q \in ToSet(Known'),
                      p.id = q.id, p.key # "blank", ~excused
               PROVE  q.key # "blank"
    BY DEF KeysKept
  <2>1. PICK m \in DOMAIN Known : p = Known[m]
    BY DEF ToSet
  <2>2. PICK n \in DOMAIN Known' : q = Known'[n]
    BY DEF ToSet
  <2>3. CASE job.kind = "save"
    BY <1>4, <1>6, <2>1, <2>2, <2>3, ReadKeepsKeys DEF Known, Current
  <2>4. CASE job.kind # "save"
    BY <1>5, <2>1, <2>2, <2>4 DEF Inv, Keyed, Unique
  <2>5. QED
    BY <2>3, <2>4
<1>21. SizesRoundUp
  <2>1. CASE job.kind = "save" /\ job.payload.typed
    BY <1>1, <1>11, <2>1 DEF SizesRoundUp
  <2>2. CASE job.kind = "save" /\ ~job.payload.typed
    <3>1. UpTo(job.payload.limit)
      BY <1>1, <1>11, <2>2 DEF Inv, Sized, Sending
    <3>2. QED
      BY <1>3, <1>4, <2>2, <3>1 DEF SizesRoundUp, UpTo, PayloadSet, Inv, Typed, SettingsSet, Parameters
  <2>3. CASE job.kind # "save"
    BY <1>5, <2>3 DEF SizesRoundUp, Inv, Typed, SettingsSet, Parameters
  <2>4. QED
    BY <2>1, <2>2, <2>3
<1>22. QED
  BY <1>15, <1>16, <1>17, <1>18, <1>19, <1>20, <1>21, <1>14 DEF Inv

\* A read by any other part of the server.
LEMMA ReadElsewhereKeeps ==
    ASSUME Parameters, Inv, ReadElsewhere
    PROVE  Inv' /\ stored' = stored /\ Known' = Known
<1>1. /\ view = "ai" /\ config' = Overwritten(stored, config)
      /\ UNCHANGED <<view, stored, apiKey, form, shown, busy, jobs, excused, edits, faults, clicks>>
  BY DEF ReadElsewhere
<1>2. UNCHANGED <<rows, vendor, limit, filled, typed>>
  BY <1>1 DEF form
<1>3. stored \in SettingsSet /\ config \in ConfigSet /\ config.len <= Len(config.array)
  BY DEF Inv, Typed
<1>4. config' \in ConfigSet /\ config'.len <= Len(config'.array)
  BY <1>1, <1>3, OverwrittenTyped
<1>5. Known' = Known
  BY <1>1, <1>3, ReadAgain DEF Known, Current
<1>6. Clean'
  <2>1. ~Inherits(stored, config) => ~Inherits(stored', config')
    BY <1>1, <1>3, ReadAgain
  <2>2. stored.providers = <<>> => config' = config
    BY <1>1, <1>3, OverwrittenTyped
  <2>3. QED
    BY <1>1, <2>1, <2>2 DEF Inv, Clean
<1>7. Typed'
  BY <1>1, <1>2, <1>4 DEF Inv, Typed
<1>8. Alone' /\ Sized'
  BY <1>1, <1>2 DEF Inv, Alone, Sized, Sending, UpTo
<1>9. Keyed'
  BY <1>1, <1>2, <1>5 DEF Inv, Keyed, Sending, Follows, StoredKey
<1>10. KeyLive'
  BY <1>1 DEF KeyLive
<1>11. QED
  BY <1>1, <1>5, <1>6, <1>7, <1>8, <1>9, <1>10 DEF Inv

\* The process starts again: it knows what it knew, or a provider inherits.
LEMMA RestartKeeps ==
    ASSUME Parameters, Inv, Restart
    PROVE  Inv' /\ stored' = stored /\ KeysKept
<1>1. /\ view = "ai" /\ faults < MaxFaults /\ faults' = faults + 1
      /\ \A k \in DOMAIN jobs : jobs[k].at # "ask"
      /\ excused' = (excused \/ Inherits(stored, config'))
      /\ UNCHANGED <<view, stored, apiKey, form, shown, busy, jobs, edits, clicks>>
  BY DEF Restart
<1>2. PICK capacity \in Capacity(config.file, stored) :
         config' = Started(config.file, stored, capacity)
  BY DEF Restart
<1>3. UNCHANGED <<rows, vendor, limit, filled, typed>>
  BY <1>1 DEF form
<1>4. /\ stored \in SettingsSet /\ config \in ConfigSet /\ config.file \in SettingsSet
      /\ config.len <= Len(config.array)
  BY DEF Inv, Typed, ConfigSet
<1>5. /\ config' \in ConfigSet /\ config'.len <= Len(config'.array)
      /\ stored.providers = <<>> => capacity = Len(config.file.providers)
  BY <1>2, <1>4, StartedTyped
<1>6. /\ excused' \in BOOLEAN /\ (excused => excused')
      /\ ~excused' => ~excused /\ ~Inherits(stored, config')
  <2>1. Inherits(stored, config') \in BOOLEAN
    BY Zenon DEF Inherits
  <2>2. QED
    BY <1>1, <2>1 DEF Inv, Typed
<1>7. ~excused /\ stored.providers = <<>> => config' = config
  BY <1>2, <1>5 DEF Inv, Clean
<1>8. ~excused' => Known' = Known
  <2>1. CASE stored.providers = <<>>
    BY <1>1, <1>6, <1>7, <2>1 DEF Known, Current
  <2>2. CASE stored.providers # <<>>
    <3> SUFFICES ASSUME ~excused' PROVE Known' = Known
      OBVIOUS
    <3>1. ~Inherits(stored, config) /\ ~Inherits(stored, config')
      BY <1>6 DEF Inv, Clean
    <3>2. Known = stored.providers
      BY <1>4, <2>2, <3>1, NothingInherited DEF Known, Current
    <3>3. Effective(Loaded(stored, config')) = stored.providers
      BY <1>4, <1>5, <2>2, <3>1, NothingInherited
    <3>4. QED
      BY <1>1, <3>2, <3>3 DEF Known, Current
  <2>3. QED
    BY <2>1, <2>2
<1>9. Clean'
  BY <1>1, <1>6, <1>7 DEF Inv, Clean
<1>10. Typed'
  BY <1>1, <1>3, <1>5, <1>6 DEF Inv, Typed, Parameters
<1>11. Alone' /\ Sized'
  BY <1>1, <1>3, <1>6 DEF Inv, Alone, Sized, Sending, UpTo
<1>12. Keyed'
  <2> SUFFICES ASSUME ~excused' PROVE Keyed'
    BY DEF Keyed
  <2>1. ~excused /\ Known' = Known /\ \A k \in DOMAIN jobs' : ~Sending(k)'
    BY <1>1, <1>6, <1>8 DEF Sending
  <2>2. QED
    BY <1>1, <1>3, <2>1 DEF Inv, Keyed
<1>13. KeyLive'
  BY <1>1 DEF KeyLive
<1>14. KeysKept
  <2> SUFFICES ASSUME NEW p \in ToSet(Known), NEW q \in ToSet(Known'),
                      p.id = q.id, p.key # "blank", ~excused
               PROVE  q.key # "blank"
    BY DEF KeysKept
  <2>1. PICK m \in DOMAIN Known, n \in DOMAIN Known' : p = Known[m] /\ q = Known'[n]
    BY DEF ToSet
  <2>2. Unique(Known)
    BY DEF Inv, Keyed
  <2>3. CASE stored.providers = <<>>
    <3>1. Known' = Known
      BY <1>1, <1>7, <2>3 DEF Known, Current
    <3>2. QED
      BY <2>1, <2>2, <3>1 DEF Unique
  <2>4. CASE stored.providers # <<>>
    <3>1. Known = stored.providers
      BY <1>4, <2>4, NothingInherited DEF Known, Current, Inv, Clean
    <3>2. Known' = Effective(Loaded(stored, config'))
      BY <1>1 DEF Known, Current
    <3>3. n \in DOMAIN Known /\ q.id = Known[n].id /\ (Known[n].key # "blank" => q.key = Known[n].key)
      BY <1>4, <1>5, <2>1, <2>4, <3>1, <3>2, ReadKeepsKeys
    <3>4. m = n
      BY <2>1, <2>2, <3>3 DEF Unique
    <3>5. QED
      BY <2>1, <3>3, <3>4
  <2>5. QED
    BY <2>3, <2>4
<1>15. QED
  BY <1>1, <1>9, <1>10, <1>11, <1>12, <1>13, <1>14 DEF Inv

\* A handler that ends while the server and the form stay as they are.
LEMMA EndKeeps ==
    ASSUME Parameters, Inv, NEW k \in DOMAIN jobs, jobs' = RemoveAt(jobs, k),
           UNCHANGED <<view, stored, config, apiKey, form>>,
           shown' \in 0..MaxKey, busy' \in BOOLEAN, excused' \in BOOLEAN, excused => excused',
           UNCHANGED <<edits, clicks>>, faults' \in 0..MaxFaults,
           view = "api-key" /\ ~excused' => shown' \in {0, apiKey}
    PROVE  Inv'
<1>1. jobs' \in Seq(JobSet) /\ Len(jobs') = Len(jobs) - 1
  BY RemoveAtTyped DEF Inv, Typed
<1>2. PICK place \in [DOMAIN jobs' -> DOMAIN jobs] :
         \A m, n \in DOMAIN jobs' :
            jobs'[m] = jobs[place[m]] /\ place[m] # k /\ (place[m] = place[n] => m = n)
  BY RemoveAtFrom DEF Inv, Typed
<1>3. view # "api-key" \/ ~excused' => jobs' = <<>> /\ DOMAIN jobs' = {} /\ Len(jobs') <= 1
  <2>1. ASSUME view # "api-key" \/ ~excused' PROVE jobs' = <<>>
    <3>1. Len(jobs) <= 1
      BY <2>1 DEF Inv, Alone
    <3>2. QED
      BY <3>1, LastEnds DEF Inv
  <2>2. QED
    BY <2>1
<1>4. UNCHANGED <<rows, vendor, limit, filled, typed>>
  BY DEF form
<1>5. Typed'
  BY <1>1, <1>4 DEF Inv, Typed
<1>6. Alone'
  <2>1. \A m \in DOMAIN jobs' :
          /\ view # "api-key" <=> jobs'[m].kind \in {"load", "save"}
          /\ jobs'[m].at = "usage" => jobs'[m].kind = "save"
    BY <1>2 DEF Inv, Alone
  <2>2. QED
    BY <1>3, <2>1 DEF Alone
<1>7. Sized'
  <2>1. CASE view # "api-key"
    BY <1>3, <1>4, <2>1 DEF Inv, Sized, Sending, UpTo
  <2>2. CASE view = "api-key"
    <3>1. \A m \in DOMAIN jobs' : jobs'[m].kind # "save"
      BY <1>2, <2>2 DEF Inv, Alone
    <3>2. QED
      BY <1>4, <3>1 DEF Inv, Sized, Sending, UpTo
  <2>3. QED
    BY <2>1, <2>2
<1>8. Clean' /\ Known' = Known
  BY CleanStays
<1>9. Keyed'
  BY <1>3, <1>4, <1>8 DEF Inv, Keyed
<1>10. KeyLive'
  BY <1>3 DEF KeyLive
<1>11. QED
  BY <1>5, <1>6, <1>7, <1>8, <1>9, <1>10 DEF Inv

LEMMA EndsKeep ==
    ASSUME Parameters, Inv, NEW k \in DOMAIN jobs, UsageShown(k) \/ KeyArrives(k) \/ Fails(k)
    PROVE  Inv'
<1>1. /\ jobs[k] \in JobSet /\ jobs' = RemoveAt(jobs, k)
      /\ UNCHANGED <<view, stored, config, apiKey, form, edits, clicks>>
  BY JobsTyped DEF Inv, UsageShown, KeyArrives, Fails
<1>2. CASE UsageShown(k)
  <2>1. jobs[k].at = "usage" /\ busy' = FALSE /\ UNCHANGED <<shown, excused, faults>>
    BY <1>2 DEF UsageShown
  <2>2. view # "api-key"
    BY <2>1 DEF Inv, Alone
  <2>3. shown' \in 0..MaxKey /\ excused' \in BOOLEAN /\ faults' \in 0..MaxFaults
    BY <2>1 DEF Inv, Typed
  <2>4. QED
    BY <1>1, <2>1, <2>2, <2>3, EndKeeps
<1>3. CASE KeyArrives(k)
  <2>1. jobs[k].at = "back" /\ shown' = jobs[k].key /\ busy' = FALSE /\ UNCHANGED <<excused, faults>>
    BY <1>3 DEF KeyArrives
  <2>2. view = "api-key" /\ ~excused => shown' = apiKey
    BY <2>1 DEF Inv, KeyLive
  <2>3. shown' \in 0..MaxKey /\ excused' \in BOOLEAN /\ faults' \in 0..MaxFaults
    BY <1>1, <2>1 DEF Inv, Typed, JobSet
  <2>4. QED
    BY <1>1, <2>1, <2>2, <2>3, EndKeeps
<1>4. CASE Fails(k)
  <2>1. /\ jobs[k].at \in {"ask", "back"} /\ faults < MaxFaults /\ faults' = faults + 1
        /\ busy' = (busy /\ jobs[k].kind = "load")
        /\ excused' = (excused \/ (jobs[k].kind = "regenerate" /\ jobs[k].at = "back"))
        /\ UNCHANGED shown
    BY <1>4 DEF Fails
  <2>2. shown' \in 0..MaxKey /\ faults' \in 0..MaxFaults
    BY <2>1 DEF Inv, Typed, Parameters
  <2>3. busy' \in BOOLEAN /\ excused' \in BOOLEAN /\ (excused => excused')
    BY <2>1 DEF Inv, Typed
  <2>4. ASSUME view = "api-key", ~excused' PROVE shown' \in {0, apiKey}
    <3>1. ~excused /\ ~(jobs[k].kind = "regenerate" /\ jobs[k].at = "back")
      BY <2>1, <2>4
    <3>2. DOMAIN jobs = {k}
      BY <3>1, OnlyHandler
    <3>3. shown \in {0, apiKey}
      BY <2>4, <3>1, <3>2 DEF Inv, KeyLive
    <3>4. QED
      BY <2>1, <3>3
  <2>5. QED
    BY <1>1, <2>1, <2>2, <2>3, <2>4, EndKeeps
<1>5. QED
  BY <1>2, <1>3, <1>4

\* The form is filled with what the server has by now, without its keys.
LEMMA FilledKeeps ==
    ASSUME Parameters, Inv, NEW k \in DOMAIN jobs, Filled(k)
    PROVE  Inv'
<1> DEFINE s == jobs[k].result
           more == [kind |-> "save", at |-> "usage", payload |-> NoPayload,
                    result |-> Settings, key |-> jobs[k].key]
<1>1. /\ jobs[k].kind \in {"load", "save"} /\ jobs[k].at = "back"
      /\ rows' = [m \in DOMAIN Effective(s) |-> [Effective(s)[m] EXCEPT !.key = "blank"]]
      /\ vendor' = s.legacy.vendor
      /\ limit' = Split(s.limit) /\ filled' = TRUE /\ typed' = FALSE
      /\ jobs' = IF jobs[k].kind = "save" THEN [jobs EXCEPT ![k] = more] ELSE RemoveAt(jobs, k)
      /\ UNCHANGED <<view, stored, config, apiKey, shown, busy, excused, edits, faults, clicks>>
  BY DEF Filled, Fill
<1>2. /\ view # "api-key" /\ s.limit = stored.limit /\ jobs[k] \in JobSet /\ s \in SettingsSet
      /\ ~excused => Effective(s) = Known
  BY <1>1, JobsTyped DEF Inv, Alone, Keyed, JobSet
<1>3. k = 1 /\ DOMAIN jobs = {1} /\ Len(jobs) <= 1
  BY <1>2, OnlyHandler DEF Inv, Alone
<1>4. s.limit \in Nat /\ s.legacy.vendor \in Vendor
  BY <1>2 DEF SettingsSet
<1> DEFINE list == Effective(s)
<1>5. /\ list \in Seq(Provider) /\ DOMAIN list = 1..Len(list) /\ Len(list) \in Nat
      /\ \A m \in DOMAIN list : list[m] \in Provider
  BY <1>2, EffectiveTyped, LenProperties, ElementOfSeq
<1>6. rows' = [m \in DOMAIN list |-> [list[m] EXCEPT !.key = "blank"]]
  BY <1>1
<1> HIDE DEF list
<1>7. /\ DOMAIN rows' = DOMAIN list
      /\ \A m \in DOMAIN list : /\ rows'[m] \in Provider /\ rows'[m].id = list[m].id
                                 /\ rows'[m].vendor = list[m].vendor /\ rows'[m].key = "blank"
  BY <1>5, <1>6 DEF Provider, Key
<1>8. rows' \in Seq(Provider)
  <2>1. rows' = [m \in 1..Len(list) |-> rows'[m]]
    BY <1>5, <1>6
  <2>2. QED
    BY <1>5, <1>7, <2>1, IsASeq
<1>9. limit' \in Amount /\ (UpTo(Bytes(limit)))'
  <2>1. limit' = Split(stored.limit)
    BY <1>1, <1>2
  <2>2. QED
    BY <1>1, <1>2, <1>4, <2>1, SplitRoundsUp DEF UpTo, Bytes
<1>10. /\ jobs' \in Seq(JobSet) /\ Len(jobs') <= 1
       /\ \A m \in DOMAIN jobs' : jobs'[m].kind = "save" /\ jobs'[m].at = "usage"
                                  /\ jobs[k].kind = "save"
  <2>1. CASE jobs[k].kind = "save"
    <3>1. more \in JobSet /\ more.kind = "save" /\ more.at = "usage"
      BY <1>2, NoPayloadTyped DEF JobSet
    <3> HIDE DEF more
    <3>2. jobs' = [jobs EXCEPT ![k] = more]
      BY <1>1, <2>1
    <3>3. jobs' \in Seq(JobSet) /\ Len(jobs') = Len(jobs)
      BY <3>1, <3>2 DEF Inv, Typed
    <3>4. DOMAIN jobs' = {k} /\ jobs'[k] = more
      BY <1>3, <3>2
    <3>5. QED
      BY <1>3, <2>1, <3>1, <3>3, <3>4
  <2>2. CASE jobs[k].kind # "save"
    <3>1. jobs' = <<>>
      BY <1>1, <1>3, <2>2, LastEnds DEF Inv
    <3>2. QED
      BY <3>1
  <2>3. QED
    BY <2>1, <2>2
<1>11. jobs[k].kind = "save" => busy
  BY <1>2 DEF Inv, Alone
<1>12. Typed'
  BY <1>1, <1>2, <1>4, <1>8, <1>9, <1>10 DEF Inv, Typed
<1>13. Alone'
  BY <1>1, <1>2, <1>10, <1>11 DEF Alone
<1>14. Sized'
  BY <1>1, <1>9, <1>10 DEF Sized, Sending
<1>15. Keyed'
  <2> SUFFICES ASSUME ~excused PROVE Keyed'
    BY <1>1 DEF Keyed
  <2>1. Home(Known) /\ Unique(Known) /\ Known' = Known /\ Known = list
    BY <1>1, <1>2, CleanStays DEF Inv, Keyed, list
  <2>2. Home(rows') /\ Unique(rows') /\ Agree(rows', Known)
    BY <1>7, <2>1 DEF Home, Unique, Agree
  <2>3. \A m \in DOMAIN jobs' : ~Sending(m)' /\ jobs'[m].at # "back"
    BY <1>10 DEF Sending
  <2>4. QED
    BY <1>1, <2>1, <2>2, <2>3 DEF Keyed
<1>16. KeyLive'
  BY <1>1, <1>2 DEF KeyLive
<1>17. Clean'
  BY <1>1, CleanStays
<1>18. QED
  BY <1>12, <1>13, <1>14, <1>15, <1>16, <1>17 DEF Inv

-----------------------------------------------------------------------------

LEMMA InvStep == Parameters /\ Inv /\ [Next]_vars => Inv'
<1> SUFFICES ASSUME Parameters, Inv, [Next]_vars PROVE Inv'
  OBVIOUS
<1>1. ASSUME UNCHANGED vars PROVE Inv'
  <2>1. Clean' /\ Known' = Known
    BY <1>1, CleanStays DEF vars
  <2>2. Typed' /\ Alone' /\ Sized' /\ KeyLive'
    BY <1>1 DEF vars, form, Inv, Typed, Alone, Sized, Sending, UpTo, KeyLive
  <2>3. Keyed'
    BY <1>1, <2>1 DEF vars, form, Inv, Keyed, Sending, Follows, StoredKey
  <2>4. QED
    BY <2>1, <2>2, <2>3 DEF Inv
<1>2. ASSUME NEW k \in DOMAIN rows, TypeKey(k) \/ RemoveRow(k) \/ MoveRow(k) PROVE Inv'
  BY <1>2, TypeKeyKeeps, RemoveRowKeeps, MoveRowKeeps
<1>3. ASSUME NEW k \in DOMAIN rows, NEW v \in Vendor, Preset(k, v) PROVE Inv'
  BY <1>3, PresetKeeps
<1>4. ASSUME AddRow PROVE Inv'
  BY <1>4, AddRowKeeps
<1>5. ASSUME NEW value \in 0..3, NEW unit \in {"GB", "MB"},
             TypeLimit([value |-> value, unit |-> unit])
      PROVE  Inv'
  <2> DEFINE size == [value |-> value, unit |-> unit]
  <2>1. size \in Amount
    BY DEF Amount
  <2>2. TypeLimit(size)
    BY <1>5
  <2> HIDE DEF size
  <2>3. QED
    BY <2>1, <2>2, TypeLimitKeeps
<1>6. ASSUME Save \/ Regenerate \/ Remount \/ ReadElsewhere \/ Restart PROVE Inv'
  BY <1>6, SaveKeeps, KeyRequestsKeep, ReadElsewhereKeeps, RestartKeeps
<1>7. ASSUME NEW k \in DOMAIN jobs,
             Served(k) \/ Filled(k) \/ UsageShown(k) \/ KeyArrives(k) \/ Fails(k)
      PROVE  Inv'
  BY <1>7, ServedKeeps, FilledKeeps, EndsKeep
<1>8. QED
  BY <1>1, <1>2, <1>3, <1>4, <1>5, <1>6, <1>7 DEF Next

\* A step neither loses a key that stays nor lowers a limit nobody typed.
LEMMA SavesStep == Parameters /\ Inv /\ [Next]_vars => [KeysKept /\ SizesRoundUp]_vars
<1> SUFFICES ASSUME Parameters, Inv, Next PROVE KeysKept /\ SizesRoundUp
  OBVIOUS
<1>1. ASSUME UNCHANGED stored PROVE SizesRoundUp
  BY <1>1 DEF SizesRoundUp, Inv, Typed, SettingsSet, Parameters
<1>2. ASSUME UNCHANGED stored, Known' = Known PROVE KeysKept /\ SizesRoundUp
  <2>1. KeysKept
    <3> SUFFICES ASSUME NEW p \in ToSet(Known), NEW q \in ToSet(Known),
                        p.id = q.id, p.key # "blank", ~excused
                 PROVE  q.key # "blank"
      BY <1>2 DEF KeysKept
    <3>1. Unique(Known)
      BY DEF Inv, Keyed
    <3>2. PICK m, n \in DOMAIN Known : p = Known[m] /\ q = Known[n]
      BY DEF ToSet
    <3>3. QED
      BY <3>1, <3>2 DEF Unique
  <2>2. QED
    BY <1>1, <1>2, <2>1
<1>3. ASSUME NEW k \in DOMAIN jobs, Served(k) PROVE KeysKept /\ SizesRoundUp
  BY <1>3, ServedKeeps
<1>4. ASSUME ReadElsewhere \/ Restart PROVE KeysKept /\ SizesRoundUp
  BY <1>1, <1>2, <1>4, ReadElsewhereKeeps, RestartKeeps
<1>5. ASSUME UNCHANGED <<stored, config>> PROVE KeysKept /\ SizesRoundUp
  <2>1. Known' = Known
    BY <1>5 DEF Known, Current
  <2>2. QED
    BY <1>2, <1>5, <2>1
<1>6. QED
  BY <1>3, <1>4, <1>5 DEF Next, TypeKey, RemoveRow, MoveRow, Preset, AddRow, Edited, TypeLimit,
                          Save, Regenerate, Remount, Begin, Filled, UsageShown, KeyArrives, Fails

LEMMA InvHolds == Inv => TypeOK /\ KeysGoHome /\ KeyShownIsLive
<1> SUFFICES ASSUME Inv PROVE TypeOK /\ KeysGoHome /\ KeyShownIsLive
  OBVIOUS
<1>1. /\ \A k \in DOMAIN rows : rows[k] \in Provider
      /\ \A k \in DOMAIN stored.providers : stored.providers[k] \in Provider
      /\ \A k \in DOMAIN config.array : config.array[k] \in Provider
      /\ \A k \in DOMAIN jobs : jobs[k] \in JobSet
  BY ElementOfSeq DEF Inv, Typed, SettingsSet, ConfigSet
<1>2. TypeOK
  <2>1. config.len \in 0..Len(config.array)
    BY LenProperties DEF Inv, Typed, ConfigSet
  <2>2. QED
    BY <1>1, <2>1 DEF Inv, Typed, TypeOK, IsRows, SettingsSet, JobSet
<1>3. KeysGoHome
  BY DEF Inv, Keyed, Home, ToSet, KeysGoHome
<1>4. KeyShownIsLive
  BY DEF Inv, KeyLive, KeyShownIsLive
<1>5. QED
  BY <1>2, <1>3, <1>4

LEMMA Invariance == Parameters => (Spec => []Inv)
<1> SUFFICES ASSUME Parameters PROVE Spec => []Inv
  OBVIOUS
<1>1. Init => Inv
  BY InvInit
<1>2. Inv /\ [Next]_vars => Inv'
  BY InvStep
<1>3. QED
  BY <1>1, <1>2, PTL DEF Spec

-----------------------------------------------------------------------------
(* The theorems.                                                            *)

\* Every state of the forms is well typed, no key typed for one vendor becomes
\* another's, and the API key on screen is the valid one, but for the excused
\* cases.
THEOREM StatesCorrect == Parameters => (Spec => [](TypeOK /\ KeysGoHome /\ KeyShownIsLive))
<1> SUFFICES ASSUME Parameters PROVE Spec => [](TypeOK /\ KeysGoHome /\ KeyShownIsLive)
  OBVIOUS
<1>1. Spec => []Inv
  BY Invariance
<1>2. Inv => TypeOK /\ KeysGoHome /\ KeyShownIsLive
  BY InvHolds
<1>3. QED
  BY <1>1, <1>2, PTL

\* A save keeps the keys the form does not know, and lowers no limit nobody
\* typed, whatever the size units are.
THEOREM SavesCorrect == Parameters => (Spec => [][KeysKept /\ SizesRoundUp]_vars)
<1> SUFFICES ASSUME Parameters PROVE Spec => [][KeysKept /\ SizesRoundUp]_vars
  OBVIOUS
<1>1. Inv /\ [Next]_vars => [KeysKept /\ SizesRoundUp]_vars
  BY SavesStep
<1>2. Spec => []Inv
  BY Invariance
<1>3. QED
  BY <1>1, <1>2, PTL DEF Spec
=============================================================================
