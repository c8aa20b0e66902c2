------------------------ MODULE ChannelHistoryProofs ------------------------
(***************************************************************************)
(* Proofs about ChannelHistory, for any number of messages, gap rows, page  *)
(* sizes, retries and faults: the types, that the page loops descend, and   *)
(* that no message below the cursor is lost but in the ways Excuse records. *)
(*                                                                         *)
(* The last needs to know what everyone who is going to move the cursor has *)
(* stored already.  A gap recovery has stored the gap from its offset up;   *)
(* a sync everything between its offset and the newest message it saw; and  *)
(* what revealed a gap is stored, or is in the processor's hands.           *)
(***************************************************************************)
EXTENDS ChannelHistory, FiniteSetTheorems, SequenceTheorems, TLAPS

\* A message that needs nobody any more.
Safe(m) == stored[m] # NotStored \/ m \in Service \/ version[m] = Erased \/ m \in excused

\* The message in the processor's hands whose gap is enqueued already.
InHand == IF proc = IdleProc THEN {} ELSE DroppedEvent

\* Telegram's message classes apart, a page holds all there is between its
\* oldest message and the offset it was asked for.
Whole(page, offset) ==
    \A m \in Msg : m < offset /\ (\E k \in Ids(page) : k <= m)
        => m \in Ids(page) \/ m \in Service \/ version[m] = Erased

\* A page that was asked for below an offset, and is not empty.
PageBelow(page, offset) ==
    Ids(page) # {} /\ (\A m \in Ids(page) : m < offset) /\ Whole(page, offset)

ProcFits ==
    /\ \A k \in DOMAIN events : events[k].id <= posted
    /\ proc # IdleProc =>
          /\ proc.event.id <= posted
          /\ proc.pc = "enqueue" =>
                proc.from \in Msg /\ proc.from < proc.event.id /\ proc.from <= claimed + 1
          /\ proc.pc \in {"advance", "save"} => stored[proc.event.id] # NotStored
          /\ proc.pc = "save" /\ proc.from # 0 =>
                proc.event.id = proc.from + 1 /\ proc.from <= claimed

\* The requests a gap recovery may carry: they begin at or below the cursor's
\* mark, and what revealed the gap is stored or about to be.
Settled ==
    {p \in Payload :
        /\ p.from <= claimed + 1 /\ p.trigger = p.to + 1 /\ p.trigger <= posted
        /\ Safe(p.trigger) \/ p.trigger \in InHand}

GapsFit ==
    /\ \A g \in GapId : gaps[g].status # "absent" => gaps[g].payload \in Settled
    /\ \A item \in listed : item.payload \in Settled
    /\ gapRun # IdleGap => gapRun.payload \in Settled

\* A gap recovery has stored its gap from the offset up.
RunFits ==
    gapRun # IdleGap =>
        /\ gapRun.offset <= posted
        /\ gapRun.pc = "store" => PageBelow(gapRun.page, gapRun.offset)
        /\ \A m \in gapRun.payload.from..gapRun.payload.to :
              gapRun.pc \in {"finish", "end"} \/ gapRun.offset <= m => Safe(m)

SyncFits ==
    sync # IdleSync =>
        /\ sync.lower <= claimed /\ sync.maxSeen <= posted
        /\ sync.kind = "backlog" => sync.limit = 0
        /\ sync.offset # 0 => sync.offset <= sync.maxSeen /\ sync.maxSeen <= claimed
        /\ sync.pc = "begin" => sync.offset = 0
        /\ sync.pc = "fetch" =>
              /\ sync.offset = 0 => sync.maxSeen = 0
              /\ sync.limit # 0 => sync.count < sync.limit
        /\ sync.pc = "store" =>
              IF sync.offset # 0 THEN PageBelow(sync.page, sync.offset)
              ELSE /\ PageBelow(sync.page, sync.maxSeen + 1)
                   /\ sync.maxSeen \in Ids(sync.page) /\ sync.lower < sync.maxSeen

Fits == ProcFits /\ GapsFit /\ RunFits /\ SyncFits
Typed == TypeOK /\ posted <= MaxMsg /\ cursor <= claimed /\ claimed <= posted

Inv == Typed /\ Fits /\ NoOtherHole

ProcSet == [pc : {"enqueue", "store", "advance", "save"}, event : Event, from : 0..MaxMsg]
RunSet == [pc : {"fetch", "store", "finish", "end"}, id : GapId, payload : Payload, offset : Msg,
           page : Content]
SyncSet ==
    [pc : {"begin", "fetch", "store"}, kind : {"history", "backlog"}, attempt : 1..MaxTries,
     limit : Profiles \cup {0}, lower : 0..MaxMsg, offset : 0..MaxMsg, maxSeen : 0..MaxMsg,
     count : Nat, asked : Nat, page : Content, floor : 0..MaxMsg]

\* A record that has got past "idle" is not the idle one.
LEMMA Busy ==
    /\ proc.pc # "idle" => proc # IdleProc
    /\ gapRun.pc # "idle" => gapRun # IdleGap
    /\ sync.pc # "idle" => sync # IdleSync
  BY DEF IdleProc, IdleGap, IdleSync

-----------------------------------------------------------------------------
(* Numbers, sets and pages.                                                  *)

LEMMA HasLeast ==
    ASSUME NEW s \in SUBSET Nat, s # {}
    PROVE  \E m \in s : \A k \in s : m <= k
<1> DEFINE R == OpToRel(<, Nat)
<1>1. IsWellFoundedOn(R, Nat)
  BY NatLessThanWellFounded
<1>2. \A m, k \in Nat : k < m => <<k, m>> \in R
  BY DEF OpToRel
<1> HIDE DEF R
<1>3. PICK m \in s : \A k \in s : ~ (<<k, m>> \in R)
  BY <1>1, WFMin
<1>4. \A k \in s : ~(k < m)
  BY <1>2, <1>3
<1>5. QED
  BY <1>3, <1>4

LEMMA Bounds == MaxMsg \in Nat /\ Msg = 1..MaxMsg /\ Service \subseteq Msg /\ Changing \subseteq Msg
  BY ChannelHistoryAssumption DEF Msg

LEMMA SmallestIs ==
    ASSUME NEW s \in SUBSET Nat, s # {}
    PROVE  Smallest(s) \in s /\ \A k \in s : Smallest(s) <= k
  BY HasLeast DEF Smallest

LEMMA LargestIs ==
    ASSUME NEW s \in SUBSET (0..MaxMsg), s # {}
    PROVE  Largest(s) \in s /\ \A k \in s : k <= Largest(s)
<1> DEFINE t == {MaxMsg - k : k \in s}
<1>1. MaxMsg \in Nat /\ \A k \in s : k \in Nat /\ MaxMsg - k \in Nat
  BY Bounds
<1>2. t \in SUBSET Nat /\ t # {}
  BY <1>1
<1>3. PICK n \in t : \A k \in t : n <= k
  BY <1>2, HasLeast
<1>4. PICK m \in s : n = MaxMsg - m
  BY <1>3
<1>5. \A k \in s : MaxMsg - m <= MaxMsg - k
  BY <1>3, <1>4
<1>6. \A k \in s : k <= m
  BY <1>1, <1>5
<1>7. QED
  BY <1>6 DEF Largest

LEMMA LargerOfTwo ==
    ASSUME NEW a \in Nat, NEW b \in Nat
    PROVE  /\ Largest({a, b}) \in {a, b}
           /\ a <= Largest({a, b}) /\ b <= Largest({a, b})
<1>1. \E m \in {a, b} : \A k \in {a, b} : k <= m
  <2>1. CASE a <= b
    BY <2>1
  <2>2. CASE b <= a
    BY <2>2
  <2>3. QED
    BY <2>1, <2>2
<1>2. QED
  BY <1>1 DEF Largest

LEMMA KeepTyped ==
    ASSUME NEW c \in Content, NEW ids
    PROVE  /\ Keep(c, ids) \in Content
           /\ Ids(Keep(c, ids)) = Ids(c) \cap ids
  BY DEF Keep, Content, Ids

LEMMA NothingIsEmpty ==
    /\ Nothing \in Content
    /\ \A c \in Content : c = Nothing <=> Ids(c) = {}
  BY DEF Nothing, Content, Ids, NotStored, Version

LEMMA IdsFinite ==
    ASSUME NEW s \in SUBSET Msg
    PROVE  IsFiniteSet(s) /\ Cardinality(s) \in Nat
<1>1. IsFiniteSet(Msg)
  BY Bounds, FS_Interval
<1>2. QED
  BY <1>1, FS_Subset, FS_CardinalityType

\* A page is made of messages below the offset and leaves none out.
LEMMA Fetched ==
    ASSUME TypeOK, NEW offset \in 0..MaxMsg, NEW limit \in Int
    PROVE  /\ FetchHistory(offset, limit) \in Content
           /\ \A k \in Ids(FetchHistory(offset, limit)) :
                k \in Msg /\ k <= posted /\ (offset = 0 \/ k < offset)
           /\ \A m \in Msg, k \in Ids(FetchHistory(offset, limit)) :
                m <= posted /\ (offset = 0 \/ m < offset) /\ k <= m
                  => m \in Ids(FetchHistory(offset, limit)) \/ m \in Service \/ version[m] = Erased
<1> DEFINE below == Below(offset)
           Newer(m) == {k \in below : k > m}
           ids == {m \in below : Cardinality(Newer(m)) < limit}
           page == FetchHistory(offset, limit)
<1>1. version \in Content /\ Ids(version) = Msg
  BY DEF TypeOK, Content, Ids, NotStored, Version
<1>2. page = Keep(version, ids \ Service)
  BY DEF FetchHistory
<1>3. page \in Content /\ Ids(page) = Msg \cap (ids \ Service)
  BY <1>1, <1>2, KeepTyped
<1>4. below \subseteq Msg /\ \A m \in below : m <= posted /\ (offset = 0 \/ m < offset)
  BY Bounds DEF Below, TypeOK
<1>5. \A k \in Ids(page) : k \in Msg /\ k <= posted /\ (offset = 0 \/ k < offset)
  BY <1>3, <1>4
<1>6. ASSUME NEW m \in Msg, NEW k \in Ids(page), m <= posted, offset = 0 \/ m < offset, k <= m,
             m \notin Service, version[m] # Erased
      PROVE  m \in Ids(page)
  <2>1. m \in below
    BY <1>6, Bounds DEF Below, TypeOK
  <2>2. Newer(m) \subseteq Newer(k) /\ Newer(k) \subseteq Msg
    BY <1>3, <1>4, <1>6, Bounds
  <2>3. IsFiniteSet(Newer(k)) /\ Cardinality(Newer(k)) \in Nat /\ Cardinality(Newer(m)) \in Nat
    BY <2>2, IdsFinite
  <2>4. Cardinality(Newer(m)) <= Cardinality(Newer(k))
    BY <2>2, <2>3, FS_Subset
  <2>5. Cardinality(Newer(k)) < limit
    BY <1>3
  <2>6. Cardinality(Newer(m)) < limit
    BY <2>3, <2>4, <2>5
  <2>7. QED
    BY <1>3, <1>6, <2>1, <2>6
<1>7. QED
  BY <1>3, <1>5, <1>6

LEMMA SaveCursorTyped ==
    ASSUME NEW value \in 0..posted, SaveCursor(value), Typed, posted' = posted
    PROVE  /\ cursor' \in 0..MaxMsg /\ claimed' \in 0..MaxMsg
           /\ cursor' <= claimed' /\ claimed' <= posted'
           /\ claimed <= claimed' /\ value <= claimed'
           /\ claimed' \in {claimed, value}
<1>1. claimed \in Nat /\ value \in Nat
  BY DEF Typed, TypeOK
<1>2. QED
  BY <1>1, LargerOfTwo, Bounds DEF SaveCursor, Typed, TypeOK

-----------------------------------------------------------------------------
(* The types.                                                               *)

TelegramTyped == posted \in 0..MaxMsg /\ version \in [Msg -> Version]
LiveTyped ==
    /\ events \in Seq(Event) /\ Len(events) <= QueueSize
    /\ proc = IdleProc \/ proc \in ProcSet
StoreTyped ==
    /\ stored \in Content /\ excused \subseteq Msg /\ faults \in 0..MaxFaults
    /\ cursor \in 0..MaxMsg /\ claimed \in 0..MaxMsg /\ cursor <= claimed /\ claimed <= posted
GapsTyped ==
    /\ gaps \in [GapId -> Gap] /\ cooling \in BOOLEAN
    /\ listed \subseteq [id : GapId, payload : Payload]
    /\ gapRun = IdleGap \/ gapRun \in RunSet
SyncTyped == backlog \in BOOLEAN /\ (sync = IdleSync \/ sync \in SyncSet)

LEMMA TypedParts ==
    Typed <=> TelegramTyped /\ LiveTyped /\ StoreTyped /\ GapsTyped /\ SyncTyped
  BY DEF Typed, TypeOK, TelegramTyped, LiveTyped, StoreTyped, GapsTyped, SyncTyped, ProcSet,
     RunSet, SyncSet

LEMMA TypedPartsNext ==
    ASSUME TelegramTyped', LiveTyped', StoreTyped', GapsTyped', SyncTyped'
    PROVE  Typed'
  BY DEF Typed, TypeOK, TelegramTyped, LiveTyped, StoreTyped, GapsTyped, SyncTyped, ProcSet,
     RunSet, SyncSet

LEMMA Faulty == Fault => faults' \in 0..MaxFaults \/ faults \notin 0..MaxFaults
  BY ChannelHistoryAssumption DEF Fault

LEMMA Delivered ==
    ASSUME LiveTyped, NEW type \in {"new", "edit", "delete"}, NEW m \in Msg, NEW v \in Version,
           Deliver(type, m, v)
    PROVE  /\ events' \in Seq(Event) /\ Len(events') <= QueueSize
           /\ \A k \in DOMAIN events' : events'[k].id = m \/ (k \in DOMAIN events /\ events'[k] = events[k])
<1> DEFINE e == [type |-> type, id |-> m, version |-> v]
<1>1. e \in Event /\ e.id = m
  BY DEF Event
<1>2. events \in Seq(Event) /\ Len(events) <= QueueSize
  BY DEF LiveTyped
<1>3. CASE UNCHANGED events
  BY <1>2, <1>3
<1>4. CASE Len(events) < QueueSize /\ events' = Append(events, e)
  <2> HIDE DEF e
  <2>1. /\ events' \in Seq(Event) /\ Len(events') = Len(events) + 1
        /\ \A k \in 1..Len(events) : events'[k] = events[k]
        /\ events'[Len(events) + 1] = e
    BY <1>1, <1>2, <1>4, AppendProperties
  <2>2. DOMAIN events' = 1..Len(events) + 1 /\ DOMAIN events = 1..Len(events) /\ Len(events) \in Nat
    BY <1>2, <2>1, LenProperties
  <2>3. Len(events') <= QueueSize
    BY <1>4, <2>1, <2>2, ChannelHistoryAssumption
  <2>4. ASSUME NEW k \in DOMAIN events'
        PROVE  events'[k].id = m \/ (k \in DOMAIN events /\ events'[k] = events[k])
    <3>1. k \in 1..Len(events) \/ k = Len(events) + 1
      BY <2>2
    <3>2. CASE k \in 1..Len(events)
      BY <2>1, <2>2, <3>2
    <3>3. CASE k = Len(events) + 1
      <4>1. events'[k] = e
        BY <2>1, <3>3
      <4>2. QED
        BY <1>1, <4>1
    <3>4. QED
      BY <3>1, <3>2, <3>3
  <2>5. QED
    BY <2>1, <2>3, <2>4
<1>5. QED
  BY <1>3, <1>4 DEF Deliver

LEMMA PostTyped == ASSUME Typed, Post PROVE Typed'
<1>1. TelegramTyped' /\ posted + 1 \in Msg /\ posted' = posted + 1
  BY Bounds, TypedParts DEF Post, TelegramTyped
<1>2. LiveTyped'
  BY <1>1, Delivered, TypedParts DEF Post, LiveTyped, Version
<1>3. StoreTyped' /\ GapsTyped' /\ SyncTyped'
  BY <1>1, TypedParts, Bounds
  DEF Post, TelegramTyped, StoreTyped, GapsTyped, SyncTyped, recovery, bulk, history
<1>4. QED
  BY <1>1, <1>2, <1>3, TypedPartsNext

LEMMA ChangeTyped ==
    ASSUME Typed, NEW m \in Changing, NEW v \in 1..2, Change(m, v)
    PROVE  Typed'
<1>1. m \in Msg /\ v \in Version
  BY Bounds DEF Version
<1>2. TelegramTyped'
  BY <1>1, TypedParts DEF Change, TelegramTyped
<1>3. LiveTyped'
  <2>1. (IF v = Erased THEN "delete" ELSE "edit") \in {"new", "edit", "delete"}
    OBVIOUS
  <2>2. QED
    BY <1>1, <2>1, Delivered, TypedParts DEF Change, LiveTyped
<1>4. StoreTyped' /\ GapsTyped' /\ SyncTyped'
  BY TypedParts DEF Change, StoreTyped, GapsTyped, SyncTyped, recovery, bulk, history
<1>5. QED
  BY <1>2, <1>3, <1>4, TypedPartsNext

\* The head of the queue and what stays in it.
LEMMA Taken ==
    ASSUME LiveTyped, events # <<>>
    PROVE  /\ Head(events) \in Event /\ \E k \in DOMAIN events : Head(events) = events[k]
           /\ Tail(events) \in Seq(Event) /\ Len(Tail(events)) <= QueueSize
           /\ \A k \in DOMAIN Tail(events) : \E j \in DOMAIN events : Tail(events)[k] = events[j]
<1>1. events \in Seq(Event) /\ Len(events) <= QueueSize
  BY DEF LiveTyped
<1>2. Len(events) \in Nat \ {0} /\ DOMAIN events = 1..Len(events)
  BY <1>1, EmptySeq, LenProperties
<1>3. /\ Head(events) \in Event /\ Head(events) = events[1]
      /\ Tail(events) \in Seq(Event) /\ Len(Tail(events)) = Len(events) - 1
      /\ \A k \in 1..Len(Tail(events)) : Tail(events)[k] = events[k + 1]
  BY <1>1, HeadTailProperties
<1>4. DOMAIN Tail(events) = 1..Len(events) - 1
  BY <1>3, LenProperties
<1>5. Len(Tail(events)) <= QueueSize
  BY <1>1, <1>2, <1>3, ChannelHistoryAssumption
<1>6. ASSUME NEW k \in DOMAIN Tail(events) PROVE \E j \in DOMAIN events : Tail(events)[k] = events[j]
  <2>1. k + 1 \in DOMAIN events /\ Tail(events)[k] = events[k + 1]
    BY <1>2, <1>3, <1>4
  <2>2. QED
    BY <2>1
<1>7. QED
  BY <1>2, <1>3, <1>5, <1>6

\* The cases of a processor step, each with what it assigns.
LEMMA TakeEventTyped == ASSUME Typed, TakeEvent PROVE Typed'
<1> DEFINE e == Head(events)
<1>1. e \in Event /\ Tail(events) \in Seq(Event) /\ Len(Tail(events)) <= QueueSize
  BY TypedParts, Taken DEF TakeEvent
<1>2. e.id \in Msg /\ e.version \in Version /\ cursor \in 0..MaxMsg
  BY <1>1, TypedParts DEF Event, StoreTyped
<1>3. cursor + 1 \in 0..MaxMsg \/ ~IsGap(e.id)
  BY <1>2, Bounds DEF IsGap
<1>4. LiveTyped'
  <2>1. CASE proc' = proc
    BY <1>1, <2>1, TypedParts DEF TakeEvent, LiveTyped
  <2>2. CASE proc' = IF e.type = "new" /\ IsGap(e.id)
                     THEN [pc |-> "enqueue", event |-> e, from |-> cursor + 1]
                     ELSE [pc |-> "store", event |-> e, from |-> 0]
    <3>1. proc' \in ProcSet
      BY <1>1, <1>3, <2>2, Bounds DEF ProcSet
    <3>2. QED
      BY <1>1, <3>1, TypedParts DEF TakeEvent, LiveTyped
  <2>3. QED
    BY <2>1, <2>2 DEF TakeEvent
<1>5. stored' \in Content
  BY <1>2, TypedParts DEF TakeEvent, StoreTyped, Content, Erased, Version
<1>6. TelegramTyped' /\ StoreTyped' /\ GapsTyped' /\ SyncTyped'
  BY <1>5, TypedParts
  DEF TakeEvent, TelegramTyped, StoreTyped, GapsTyped, SyncTyped, telegram, recovery, bulk, history
<1>7. QED
  BY <1>4, <1>6, TypedPartsNext

\* The payload of a new request joined to that of the row it replaces.
Join(p, old) ==
    [from |-> p.from, to |-> Largest({p.to, old.to}), trigger |-> Largest({p.trigger, old.trigger})]

LEMMA PayloadFacts ==
    \A p \in Payload : /\ p.from \in Msg /\ p.to \in Msg /\ p.trigger \in Msg
                       /\ p.from <= p.to /\ p.to < p.trigger
  BY DEF Payload

LEMMA JoinTyped ==
    ASSUME NEW p \in Payload, NEW old \in Payload
    PROVE  /\ Join(p, old) \in Payload
           /\ Join(p, old).from = p.from
           /\ p.trigger = p.to + 1 /\ old.trigger = old.to + 1
                 => /\ Join(p, old).trigger = Join(p, old).to + 1
                    /\ Join(p, old).trigger \in {p.trigger, old.trigger}
<1> DEFINE to == Largest({p.to, old.to})
           trigger == Largest({p.trigger, old.trigger})
<1>1. /\ p.from \in 1..MaxMsg /\ p.to \in 1..MaxMsg /\ p.trigger \in 1..MaxMsg
      /\ old.to \in 1..MaxMsg /\ old.trigger \in 1..MaxMsg
      /\ p.from <= p.to /\ p.to < p.trigger /\ old.to < old.trigger
  BY PayloadFacts, Bounds
<1>2. to \in {p.to, old.to} /\ p.to <= to /\ old.to <= to
  BY <1>1, LargerOfTwo
<1>3. trigger \in {p.trigger, old.trigger} /\ p.trigger <= trigger /\ old.trigger <= trigger
  BY <1>1, LargerOfTwo
<1> HIDE DEF to, trigger
<1>4. to \in 1..MaxMsg /\ trigger \in 1..MaxMsg /\ p.from <= to /\ to < trigger
  BY <1>1, <1>2, <1>3, Bounds
<1>5. [from |-> p.from, to |-> to, trigger |-> trigger] \in Payload
  BY <1>1, <1>4, Bounds DEF Payload
<1>6. p.trigger = p.to + 1 /\ old.trigger = old.to + 1 => trigger = to + 1
  BY <1>1, <1>2, <1>3, Bounds
<1>7. Join(p, old) = [from |-> p.from, to |-> to, trigger |-> trigger]
  BY DEF Join, to, trigger
<1>8. QED
  BY <1>3, <1>5, <1>6, <1>7

\* A row after CoalesceGapRecovery: the one before, or a request that is new or
\* joined to the row's own.
Renewed(g, p) ==
    \/ gaps[g].status # "absent" /\ gaps'[g].payload = gaps[g].payload
    \/ gaps'[g].payload = p
    \/ gaps[g].status # "absent" /\ gaps'[g].payload = Join(p, gaps[g].payload)

LEMMA Coalesced ==
    ASSUME GapsTyped, NEW p \in Payload, Coalesce(p),
           \A g \in GapId : gaps[g].status # "absent" => gaps[g].payload \in Payload
    PROVE  /\ gaps' \in [GapId -> Gap]
           /\ \A g \in GapId : gaps'[g].status # "absent" => Renewed(g, p)
           /\ \A g \in GapId : gaps[g].status = "running" => gaps'[g] = gaps[g]
<1>1. gaps \in [GapId -> Gap]
  BY DEF GapsTyped
<1>2. CASE QueuedGaps = {}
  <2>1. PICK g \in GapId : /\ gaps[g].status = "absent"
                           /\ gaps' = [gaps EXCEPT ![g] = [status |-> "queued", payload |-> p]]
    BY <1>2 DEF Coalesce
  <2>2. [status |-> "queued", payload |-> p] \in Gap
    BY DEF Gap
  <2>3. QED
    BY <1>1, <2>1, <2>2 DEF Renewed
<1>3. CASE QueuedGaps # {}
  <2> DEFINE w == Widest
             new == Join(p, gaps[w].payload)
  <2>1. gaps' = [g \in GapId |->
                    IF g \notin QueuedGaps THEN gaps[g]
                    ELSE IF g # w THEN [gaps[g] EXCEPT !.status = "deleted"]
                    ELSE [gaps[g] EXCEPT !.payload = new]]
    BY <1>3, Zenon DEF Coalesce, Join
  <2>2. \A g \in QueuedGaps : g \in GapId /\ gaps[g].status = "queued" /\ gaps[g].payload \in Payload
    BY DEF QueuedGaps
  <2> HIDE DEF w
  <2>3. w \in QueuedGaps => new \in Payload
    BY <2>2, JoinTyped
  <2> HIDE DEF new
  <2>4. ASSUME NEW g \in GapId
        PROVE  /\ gaps'[g] \in Gap
               /\ gaps'[g].status # "absent" => Renewed(g, p)
               /\ gaps[g].status = "running" => gaps'[g] = gaps[g]
    <3>1. CASE g \notin QueuedGaps
      BY <1>1, <2>1, <3>1 DEF Renewed
    <3>2. CASE g \in QueuedGaps /\ g # w
      <4>1. gaps'[g] = [gaps[g] EXCEPT !.status = "deleted"]
        BY <2>1, <3>2
      <4>2. QED
        BY <1>1, <2>2, <3>2, <4>1 DEF Renewed, Gap
    <3>3. CASE g \in QueuedGaps /\ g = w
      <4>1. gaps'[g] = [gaps[g] EXCEPT !.payload = new]
        BY <2>1, <3>3
      <4>2. gaps'[g].status = "queued" /\ gaps'[g].payload = new /\ gaps'[g] \in Gap
        BY <1>1, <2>2, <2>3, <3>3, <4>1 DEF Gap
      <4>3. new = Join(p, gaps[g].payload)
        BY <3>3 DEF new
      <4>4. QED
        BY <2>2, <3>3, <4>2, <4>3 DEF Renewed
    <3>4. QED
      BY <3>1, <3>2, <3>3
  <2>5. gaps' \in [GapId -> Gap]
    BY <2>1, <2>4
  <2>6. QED
    BY <2>4, <2>5
<1>4. QED
  BY <1>2, <1>3

\* What the processor hands over is a request.
LEMMA HandedOver ==
    ASSUME Typed, ProcFits, proc.pc = "enqueue"
    PROVE  LET p == [from |-> proc.from, to |-> proc.event.id - 1, trigger |-> proc.event.id] IN
           /\ p \in Payload /\ p.from <= claimed + 1 /\ p.trigger = p.to + 1 /\ p.trigger <= posted
<1>1. proc # IdleProc /\ proc \in ProcSet
  BY Busy, TypedParts DEF LiveTyped
<1>2. proc.event.id \in 1..MaxMsg /\ proc.from \in 1..MaxMsg /\ proc.from < proc.event.id
      /\ proc.from <= claimed + 1 /\ proc.event.id <= posted
  BY <1>1, Bounds DEF ProcFits, ProcSet, Event
<1>3. proc.event.id - 1 \in 1..MaxMsg /\ proc.from <= proc.event.id - 1
      /\ proc.event.id = proc.event.id - 1 + 1
  BY <1>2, Bounds
<1>4. QED
  BY <1>2, <1>3, Bounds DEF Payload

LEMMA EnqueueTyped ==
    ASSUME Typed, ProcFits, GapsFit, EnqueueGapRecovery
    PROVE  Typed'
<1>1. proc \in ProcSet
  BY Busy, TypedParts DEF EnqueueGapRecovery, LiveTyped
<1>2. LiveTyped'
  BY <1>1, TypedParts DEF EnqueueGapRecovery, LiveTyped, ProcSet
<1>3. gaps' \in [GapId -> Gap]
  BY HandedOver, Coalesced, TypedParts DEF EnqueueGapRecovery, GapsFit, Settled
<1>4. TelegramTyped' /\ StoreTyped' /\ GapsTyped' /\ SyncTyped'
  BY <1>3, TypedParts
  DEF EnqueueGapRecovery, TelegramTyped, StoreTyped, GapsTyped, SyncTyped, telegram, bulk, history
<1>5. QED
  BY <1>2, <1>4, TypedPartsNext

LEMMA StoreMessageTyped == ASSUME Typed, StoreMessage PROVE Typed'
<1>1. proc \in ProcSet
  BY Busy, TypedParts DEF StoreMessage, LiveTyped
<1>2. proc.event.id \in Msg /\ proc.event.version \in Version
  BY <1>1 DEF ProcSet, Event
<1>3. LiveTyped'
  BY <1>1, TypedParts DEF StoreMessage, LiveTyped, ProcSet
<1>4. stored' \in Content
  BY <1>2, TypedParts DEF StoreMessage, StoreTyped, Content
<1>5. TelegramTyped' /\ StoreTyped' /\ GapsTyped' /\ SyncTyped'
  BY <1>4, TypedParts
  DEF StoreMessage, TelegramTyped, StoreTyped, GapsTyped, SyncTyped, telegram, recovery, bulk, history
<1>6. QED
  BY <1>3, <1>5, TypedPartsNext

LEMMA AdvanceCheckTyped == ASSUME Typed, AdvanceCheck PROVE Typed'
<1>1. proc \in ProcSet /\ cursor \in 0..MaxMsg
  BY Busy, TypedParts DEF AdvanceCheck, LiveTyped, StoreTyped
<1>2. [proc EXCEPT !.pc = "save", !.from = cursor] \in ProcSet
  BY <1>1 DEF ProcSet
<1>3. LiveTyped'
  BY <1>2, TypedParts DEF AdvanceCheck, LiveTyped
<1>4. TelegramTyped' /\ StoreTyped' /\ GapsTyped' /\ SyncTyped'
  BY TypedParts
  DEF AdvanceCheck, TelegramTyped, StoreTyped, GapsTyped, SyncTyped, telegram, recovery, bulk, history
<1>5. QED
  BY <1>3, <1>4, TypedPartsNext

LEMMA Excused == ASSUME NEW ids, Excuse(ids), Typed PROVE excused' \subseteq Msg /\ excused \subseteq excused'
  BY TypedParts DEF Excuse, StoreTyped

LEMMA AdvanceSaveTyped == ASSUME Typed, ProcFits, AdvanceSave PROVE Typed'
<1>1. proc \in ProcSet /\ proc # IdleProc
  BY Busy, TypedParts DEF AdvanceSave, LiveTyped
<1>2. proc.event.id \in 0..posted
  BY <1>1, Bounds DEF ProcSet, Event, ProcFits
<1>3. excused' \subseteq Msg
  BY Excused DEF AdvanceSave
<1>4. StoreTyped'
  BY <1>2, <1>3, SaveCursorTyped, TypedParts DEF AdvanceSave, StoreTyped, telegram
<1>5. TelegramTyped' /\ LiveTyped' /\ GapsTyped' /\ SyncTyped'
  BY TypedParts
  DEF AdvanceSave, TelegramTyped, LiveTyped, GapsTyped, SyncTyped, telegram, recovery, bulk
<1>6. QED
  BY <1>4, <1>5, TypedPartsNext

LEMMA ProcessErrorTyped == ASSUME Typed, ProcessError PROVE Typed'
<1>1. excused' \subseteq Msg
  BY Excused DEF ProcessError
<1>2. StoreTyped'
  BY <1>1, Faulty, TypedParts DEF ProcessError, StoreTyped, telegram
<1>3. TelegramTyped' /\ LiveTyped' /\ GapsTyped' /\ SyncTyped'
  BY TypedParts
  DEF ProcessError, TelegramTyped, LiveTyped, GapsTyped, SyncTyped, telegram, recovery, bulk
<1>4. QED
  BY <1>2, <1>3, TypedPartsNext

-----------------------------------------------------------------------------
(* The types: the gap worker.                                               *)

LEMMA Upserted ==
    ASSUME Typed, NEW page \in Content
    PROVE  /\ Upsert(page) \in Content
           /\ \A m \in Msg : m \in Ids(page) \/ stored[m] # NotStored => Upsert(page)[m] # NotStored
  BY TypedParts DEF Upsert, Content, Ids, StoreTyped

LEMMA LeastOfPage ==
    ASSUME NEW page, NEW offset, PageBelow(page, offset)
    PROVE  /\ Smallest(Ids(page)) \in Msg /\ Smallest(Ids(page)) < offset
           /\ Smallest(Ids(page)) \in Ids(page)
           /\ \A m \in Msg : Smallest(Ids(page)) <= m /\ m < offset
                => m \in Ids(page) \/ m \in Service \/ version[m] = Erased
<1>1. Ids(page) \in SUBSET Nat /\ Ids(page) \subseteq Msg /\ Ids(page) # {}
  BY Bounds DEF Ids, PageBelow
<1>2. Smallest(Ids(page)) \in Ids(page)
  BY <1>1, SmallestIs
<1>3. QED
  BY <1>1, <1>2 DEF PageBelow, Whole

LEMMA ListGapsTyped == ASSUME Typed, GapsFit, ListGaps PROVE Typed'
<1>1. listed' \subseteq [id : GapId, payload : Payload]
  BY DEF ListGaps, QueuedGaps, GapsFit, Settled
<1>2. TelegramTyped' /\ LiveTyped' /\ StoreTyped' /\ GapsTyped' /\ SyncTyped'
  BY <1>1, TypedParts
  DEF ListGaps, TelegramTyped, LiveTyped, StoreTyped, GapsTyped, SyncTyped, telegram, live, bulk,
      history
<1>3. QED
  BY <1>2, TypedPartsNext

LEMMA StartGapTyped == ASSUME Typed, NEW item \in listed, StartGap(item) PROVE Typed'
<1>1. item.id \in GapId /\ item.payload \in Payload /\ item.payload.trigger \in Msg
  BY TypedParts, PayloadFacts DEF GapsTyped
<1>2. gapRun' = IdleGap \/ gapRun' \in RunSet
  BY <1>1, NothingIsEmpty, TypedParts DEF StartGap, RunSet, GapsTyped
<1>3. gaps' \in [GapId -> Gap]
  BY <1>1, TypedParts DEF StartGap, GapsTyped, Gap
<1>4. TelegramTyped' /\ LiveTyped' /\ StoreTyped' /\ GapsTyped' /\ SyncTyped'
  BY <1>2, <1>3, TypedParts
  DEF StartGap, TelegramTyped, LiveTyped, StoreTyped, GapsTyped, SyncTyped, telegram, live, bulk,
      history
<1>5. QED
  BY <1>4, TypedPartsNext

LEMMA Running == ASSUME Typed, gapRun.pc # "idle" PROVE gapRun # IdleGap /\ gapRun \in RunSet
  BY Busy, TypedParts DEF GapsTyped

LEMMA Paging == ASSUME Typed, sync.pc # "idle" PROVE sync # IdleSync /\ sync \in SyncSet
  BY Busy, TypedParts DEF SyncTyped

LEMMA GapPage ==
    ASSUME Typed, gapRun.pc = "fetch"
    PROVE  FetchHistory(gapRun.offset, BatchSize) \in Content
<1>1. gapRun.offset \in 0..MaxMsg /\ BatchSize \in Int
  BY Running, Bounds, ChannelHistoryAssumption DEF RunSet
<1>2. QED
  BY <1>1, Fetched DEF Typed

LEMMA FetchGapTyped == ASSUME Typed, FetchGap PROVE Typed'
<1> DEFINE page == FetchHistory(gapRun.offset, BatchSize)
           pc == IF page = Nothing THEN "finish" ELSE "store"
<1>1. page \in Content /\ gapRun \in RunSet
  BY GapPage, Running DEF FetchGap
<1>2. gapRun' = [gapRun EXCEPT !.pc = pc, !.page = page]
  BY DEF FetchGap
<1>3. pc \in {"finish", "store"}
  OBVIOUS
<1> HIDE DEF page, pc
<1>4. gapRun' \in RunSet
  BY <1>1, <1>2, <1>3 DEF RunSet
<1>5. excused' \subseteq Msg
  BY Excused DEF FetchGap
<1>6. TelegramTyped' /\ LiveTyped' /\ StoreTyped' /\ GapsTyped' /\ SyncTyped'
  BY <1>4, <1>5, TypedParts
  DEF FetchGap, TelegramTyped, LiveTyped, StoreTyped, GapsTyped, SyncTyped, telegram, live, bulk
<1>7. QED
  BY <1>6, TypedPartsNext

\* What StoreGap writes into the run.
LEMMA StoreGapRun ==
    ASSUME Typed, RunFits, StoreGap
    PROVE  LET least == Smallest(Ids(gapRun.page)) IN
           /\ gapRun \in RunSet /\ least \in Msg /\ least < gapRun.offset
           /\ gapRun' \in RunSet /\ gapRun'.payload = gapRun.payload /\ gapRun'.offset = least
           /\ gapRun'.pc = IF least <= gapRun.payload.from THEN "finish" ELSE "fetch"
           /\ PageBelow(gapRun.page, gapRun.offset)
<1> DEFINE least == Smallest(Ids(gapRun.page))
           pc == IF least <= gapRun.payload.from THEN "finish" ELSE "fetch"
<1>1. gapRun \in RunSet /\ gapRun # IdleGap
  BY Running DEF StoreGap
<1>2. PageBelow(gapRun.page, gapRun.offset)
  BY <1>1 DEF RunFits, StoreGap
<1>3. least \in Msg /\ least < gapRun.offset
  BY <1>2, LeastOfPage
<1>4. gapRun' = [gapRun EXCEPT !.pc = pc, !.offset = least, !.page = Nothing]
  BY DEF StoreGap
<1>5. pc \in {"finish", "fetch"}
  OBVIOUS
<1> HIDE DEF least, pc
<1>6. gapRun' \in RunSet /\ gapRun'.payload = gapRun.payload /\ gapRun'.offset = least
      /\ gapRun'.pc = pc
  BY <1>1, <1>3, <1>4, <1>5, NothingIsEmpty DEF RunSet
<1>7. QED
  BY <1>1, <1>2, <1>3, <1>6 DEF least, pc

LEMMA StoreGapTyped == ASSUME Typed, RunFits, StoreGap PROVE Typed'
<1>1. gapRun \in RunSet /\ gapRun' \in RunSet
  BY StoreGapRun
<1>2. InGap(gapRun.page) \in Content
  BY <1>1, KeepTyped DEF RunSet, InGap
<1>3. stored' \in Content
  BY <1>2, Upserted DEF StoreGap
<1>4. TelegramTyped' /\ LiveTyped' /\ StoreTyped' /\ GapsTyped' /\ SyncTyped'
  BY <1>1, <1>3, TypedParts
  DEF StoreGap, TelegramTyped, LiveTyped, StoreTyped, GapsTyped, SyncTyped, telegram, live, bulk,
      history
<1>5. QED
  BY <1>4, TypedPartsNext

LEMMA FinishGapTyped == ASSUME Typed, GapsFit, FinishGap PROVE Typed'
<1>1. gapRun \in RunSet /\ gapRun # IdleGap
  BY Running DEF FinishGap
<1>2. gapRun.payload.trigger \in 0..posted
  BY <1>1, PayloadFacts, Bounds DEF GapsFit, Settled
<1>3. gapRun' \in RunSet
  BY <1>1 DEF FinishGap, RunSet
<1>4. StoreTyped'
  BY <1>2, SaveCursorTyped, TypedParts DEF FinishGap, StoreTyped, telegram
<1>5. TelegramTyped' /\ LiveTyped' /\ GapsTyped' /\ SyncTyped'
  BY <1>3, TypedParts
  DEF FinishGap, TelegramTyped, LiveTyped, GapsTyped, SyncTyped, telegram, live, bulk
<1>6. QED
  BY <1>4, <1>5, TypedPartsNext

\* The end of a run touches the status of its row alone.
LEMMA Ended ==
    ASSUME Typed, NEW outcome \in {"succeeded", "failed"}, EndGap(outcome)
    PROVE  /\ gapRun' = IdleGap /\ cooling' \in BOOLEAN /\ gaps' \in [GapId -> Gap]
           /\ \A g \in GapId : gaps'[g].payload = gaps[g].payload
           /\ \A g \in GapId : gaps'[g].status # "absent" => gaps[g].status # "absent"
<1>1. gaps \in [GapId -> Gap]
  BY TypedParts DEF GapsTyped
<1>2. gapRun' = IdleGap /\ cooling' \in BOOLEAN
  BY DEF EndGap
<1>3. gaps' \in [GapId -> Gap]
  <2>1. DOMAIN gaps' = GapId /\ gaps' = [g \in GapId |-> gaps'[g]]
    BY <1>1 DEF EndGap
  <2>2. ASSUME NEW g \in GapId PROVE gaps'[g] \in Gap
    <3>1. gaps[g] \in Gap
      BY <1>1
    <3>2. gaps'[g] = gaps[g] \/ gaps'[g] = [gaps[g] EXCEPT !.status = outcome]
      BY <1>1 DEF EndGap, Gap
    <3>3. [gaps[g] EXCEPT !.status = outcome] \in Gap
      BY <3>1 DEF Gap
    <3>4. QED
      BY <3>1, <3>2, <3>3
  <2>3. QED
    BY <2>1, <2>2
<1>4. \A g \in GapId : gaps'[g].payload = gaps[g].payload
  BY <1>1 DEF EndGap, Gap
<1>5. \A g \in GapId : gaps'[g].status # "absent" => gaps[g].status # "absent"
  BY <1>1 DEF EndGap, Gap
<1>6. QED
  BY <1>2, <1>3, <1>4, <1>5

LEMMA GapSucceedsTyped == ASSUME Typed, GapSucceeds PROVE Typed'
<1>1. GapsTyped'
  BY Ended, TypedParts DEF GapSucceeds, GapsTyped
<1>2. TelegramTyped' /\ LiveTyped' /\ StoreTyped' /\ SyncTyped'
  BY TypedParts
  DEF GapSucceeds, TelegramTyped, LiveTyped, StoreTyped, SyncTyped, telegram, live, bulk, history
<1>3. QED
  BY <1>1, <1>2, TypedPartsNext

LEMMA GapFailsTyped == ASSUME Typed, GapFails PROVE Typed'
<1>1. GapsTyped'
  BY Ended, TypedParts DEF GapFails, GapsTyped
<1>2. TelegramTyped' /\ LiveTyped' /\ StoreTyped' /\ SyncTyped'
  BY Faulty, TypedParts
  DEF GapFails, TelegramTyped, LiveTyped, StoreTyped, SyncTyped, telegram, live, bulk, history
<1>3. QED
  BY <1>1, <1>2, TypedPartsNext

LEMMA RetryGapTyped == ASSUME Typed, NEW g \in GapId, RetryGap(g) PROVE Typed'
<1>1. gaps' \in [GapId -> Gap]
  BY TypedParts DEF RetryGap, GapsTyped, Gap
<1>2. TelegramTyped' /\ LiveTyped' /\ StoreTyped' /\ GapsTyped' /\ SyncTyped'
  BY <1>1, TypedParts
  DEF RetryGap, TelegramTyped, LiveTyped, StoreTyped, GapsTyped, SyncTyped, telegram, live, bulk,
      history
<1>3. QED
  BY <1>2, TypedPartsNext

LEMMA CooldownTyped == ASSUME Typed, CooldownLifts PROVE Typed'
<1>1. TelegramTyped' /\ LiveTyped' /\ StoreTyped' /\ GapsTyped' /\ SyncTyped'
  BY TypedParts
  DEF CooldownLifts, TelegramTyped, LiveTyped, StoreTyped, GapsTyped, SyncTyped, telegram, live,
      bulk, history
<1>2. QED
  BY <1>1, TypedPartsNext

-----------------------------------------------------------------------------
(* The types: the syncs and the process.  What each step makes of the sync is *)
(* stated on its own, as the other invariants need it too.                    *)

LEMMA Began ==
    ASSUME NEW kind \in {"history", "backlog"}, NEW limit \in Profiles \cup {0}, Begin(kind, limit)
    PROVE  /\ sync' \in SyncSet /\ sync' # IdleSync
           /\ sync'.pc = "begin" /\ sync'.kind = kind /\ sync'.limit = limit
           /\ sync'.lower = 0 /\ sync'.offset = 0 /\ sync'.maxSeen = 0
<1>1. 1 \in 1..MaxTries /\ 0 \in 0..MaxMsg
  BY ChannelHistoryAssumption
<1>2. sync' \in SyncSet
  BY <1>1, NothingIsEmpty DEF Begin, SyncSet
<1>3. QED
  BY <1>2 DEF Begin, IdleSync

LEMMA StartHistoryTyped == ASSUME Typed, NEW limit \in Profiles, StartHistory(limit) PROVE Typed'
<1>1. sync' \in SyncSet
  BY Began DEF StartHistory
<1>2. TelegramTyped' /\ LiveTyped' /\ StoreTyped' /\ GapsTyped' /\ SyncTyped'
  BY <1>1, TypedParts
  DEF StartHistory, TelegramTyped, LiveTyped, StoreTyped, GapsTyped, SyncTyped, telegram, live,
      recovery, history
<1>3. QED
  BY <1>2, TypedPartsNext

LEMMA StartBacklogTyped == ASSUME Typed, StartBacklog PROVE Typed'
<1>1. sync' \in SyncSet \/ sync' = sync
  BY Began DEF StartBacklog
<1>2. TelegramTyped' /\ LiveTyped' /\ StoreTyped' /\ GapsTyped' /\ SyncTyped'
  BY <1>1, TypedParts
  DEF StartBacklog, TelegramTyped, LiveTyped, StoreTyped, GapsTyped, SyncTyped, telegram, live,
      recovery, history
<1>3. QED
  BY <1>2, TypedPartsNext

LEMMA BeginAttemptRun ==
    ASSUME Typed, BeginAttempt
    PROVE  \/ sync' = IdleSync
           \/ /\ sync' \in SyncSet
              /\ sync'.pc = "fetch" /\ sync'.kind = sync.kind /\ sync'.limit = sync.limit
              /\ sync'.offset = 0 /\ sync'.maxSeen = 0 /\ sync'.count = 0
              /\ sync'.lower \in {0, cursor}
<1> DEFINE lower == IF sync.kind = "backlog" THEN cursor ELSE 0
           floor == IF sync.attempt = 1 THEN cursor ELSE sync.floor
<1>1. sync \in SyncSet /\ cursor \in 0..MaxMsg
  BY Paging, TypedParts DEF BeginAttempt, StoreTyped
<1>2. lower \in 0..MaxMsg /\ floor \in 0..MaxMsg /\ 0 \in 0..MaxMsg /\ lower \in {0, cursor}
  BY <1>1, Bounds DEF SyncSet
<1>3. sync' = IdleSync \/ sync' = [sync EXCEPT !.pc = "fetch", !.offset = 0, !.maxSeen = 0,
                                       !.count = 0, !.lower = lower, !.floor = floor]
  BY DEF BeginAttempt
<1> HIDE DEF lower, floor
<1>4. CASE sync' = [sync EXCEPT !.pc = "fetch", !.offset = 0, !.maxSeen = 0,
                                !.count = 0, !.lower = lower, !.floor = floor]
  <2>1. sync' \in SyncSet
    BY <1>1, <1>2, <1>4 DEF SyncSet
  <2>2. QED
    BY <1>1, <1>2, <1>4, <2>1 DEF SyncSet
<1>5. QED
  BY <1>3, <1>4

LEMMA BeginAttemptTyped == ASSUME Typed, BeginAttempt PROVE Typed'
<1>1. sync' = IdleSync \/ sync' \in SyncSet
  BY BeginAttemptRun
<1>2. TelegramTyped' /\ LiveTyped' /\ StoreTyped' /\ GapsTyped' /\ SyncTyped'
  BY <1>1, TypedParts
  DEF BeginAttempt, TelegramTyped, LiveTyped, StoreTyped, GapsTyped, SyncTyped, telegram, live,
      recovery, history
<1>3. QED
  BY <1>2, TypedPartsNext

LEMMA AskedTyped ==
    ASSUME Typed, SyncFits, sync.pc = "fetch"
    PROVE  Asked \in Nat
<1>1. sync \in SyncSet /\ sync # IdleSync
  BY Paging
<1>2. sync.limit \in Nat /\ sync.count \in Nat /\ BatchSize \in Nat
  <2>1. Profiles \subseteq Nat /\ BatchSize \in Nat
    BY ChannelHistoryAssumption
  <2>2. sync.limit \in Profiles \cup {0} /\ sync.count \in Nat
    BY <1>1 DEF SyncSet
  <2>3. sync.limit \in Nat
    <3>1. \A n \in Profiles \cup {0} : n \in Nat
      BY <2>1
    <3>2. QED
      BY <2>2, <3>1, Zenon
  <2>4. QED
    BY <2>1, <2>2, <2>3
<1>3. CASE sync.limit > 0
  <2>1. sync.limit - sync.count \in Nat
    BY <1>1, <1>2, <1>3 DEF SyncFits
  <2>2. Smallest({BatchSize, sync.limit - sync.count}) \in {BatchSize, sync.limit - sync.count}
    BY <1>2, <2>1, SmallestIs
  <2>3. QED
    BY <1>2, <2>1, <2>2 DEF Asked
<1>4. CASE ~(sync.limit > 0)
  BY <1>2, <1>4 DEF Asked
<1>5. QED
  BY <1>3, <1>4

\* The page a sync fetches, and the newest message it has seen by then.
Page == FetchHistory(sync.offset, Asked)
Newest == Largest(Ids(Page) \cup {sync.maxSeen})

LEMMA SyncPage ==
    ASSUME Typed, SyncFits, sync.pc = "fetch"
    PROVE  /\ Page \in Content
           /\ \A k \in Ids(Page) : k \in Msg /\ k <= posted /\ (sync.offset = 0 \/ k < sync.offset)
           /\ \A m \in Msg, k \in Ids(Page) :
                m <= posted /\ (sync.offset = 0 \/ m < sync.offset) /\ k <= m
                  => m \in Ids(Page) \/ m \in Service \/ version[m] = Erased
           /\ Newest \in Ids(Page) \cup {sync.maxSeen}
           /\ sync.maxSeen <= Newest /\ \A k \in Ids(Page) : k <= Newest
           /\ Newest \in 0..MaxMsg /\ Newest <= posted
<1>1. sync \in SyncSet /\ sync # IdleSync
  BY Paging
<1>2. Asked \in Int /\ sync.offset \in 0..MaxMsg /\ sync.maxSeen \in 0..MaxMsg
      /\ sync.maxSeen <= posted
  BY <1>1, AskedTyped DEF SyncSet, SyncFits
<1>3. /\ Page \in Content
      /\ \A k \in Ids(Page) : k \in Msg /\ k <= posted /\ (sync.offset = 0 \/ k < sync.offset)
      /\ \A m \in Msg, k \in Ids(Page) :
            m <= posted /\ (sync.offset = 0 \/ m < sync.offset) /\ k <= m
              => m \in Ids(Page) \/ m \in Service \/ version[m] = Erased
  BY <1>2, Fetched DEF Page, Typed
<1>4. Ids(Page) \cup {sync.maxSeen} \in SUBSET (0..MaxMsg)
  BY <1>2, <1>3, Bounds
<1>5. Newest \in Ids(Page) \cup {sync.maxSeen} /\ \A k \in Ids(Page) \cup {sync.maxSeen} : k <= Newest
  BY <1>4, LargestIs DEF Newest
<1>6. QED
  BY <1>2, <1>3, <1>4, <1>5

\* A fetch ends the sync, or hands the page to the next step.
LEMMA FetchSyncRun ==
    ASSUME Typed, SyncFits, FetchSync
    PROVE  /\ sync \in SyncSet /\ sync # IdleSync
           /\ \/ EndSync
              \/ /\ Ids(Page) # {} /\ Newest > sync.lower /\ UNCHANGED excused
                 /\ sync' \in SyncSet
                 /\ sync'.pc = "store" /\ sync'.kind = sync.kind /\ sync'.limit = sync.limit
                 /\ sync'.lower = sync.lower /\ sync'.offset = sync.offset
                 /\ sync'.maxSeen = Newest /\ sync'.page = Page
<1> DEFINE count == sync.count + Cardinality(Ids(Page))
           asked == Asked
<1>1. sync \in SyncSet /\ sync # IdleSync
  BY Paging DEF FetchSync
<1>2. Page \in Content /\ Newest \in 0..MaxMsg
  BY SyncPage DEF FetchSync
<1>3. asked \in Nat
  BY AskedTyped DEF FetchSync
<1>4. count \in Nat
  BY <1>1, IdsFinite DEF SyncSet, Ids
<1>5. \/ EndSync
      \/ /\ Page # Nothing /\ ~(Newest <= sync.lower) /\ UNCHANGED excused
         /\ sync' = [sync EXCEPT !.pc = "store", !.page = Page, !.asked = asked,
                                 !.maxSeen = Newest, !.count = count]
  BY DEF FetchSync, Page, Newest
<1> HIDE DEF count, asked
<1>6. CASE /\ Page # Nothing /\ ~(Newest <= sync.lower) /\ UNCHANGED excused
           /\ sync' = [sync EXCEPT !.pc = "store", !.page = Page, !.asked = asked,
                                   !.maxSeen = Newest, !.count = count]
  <2>1. sync' \in SyncSet
    BY <1>1, <1>2, <1>3, <1>4, <1>6 DEF SyncSet
  <2>2. /\ sync'.pc = "store" /\ sync'.kind = sync.kind /\ sync'.limit = sync.limit
        /\ sync'.lower = sync.lower /\ sync'.offset = sync.offset
        /\ sync'.maxSeen = Newest /\ sync'.page = Page
    BY <1>1, <1>6 DEF SyncSet
  <2>3. Ids(Page) # {} /\ Newest > sync.lower
    BY <1>1, <1>2, <1>6, NothingIsEmpty DEF SyncSet
  <2>4. QED
    BY <1>1, <1>6, <2>1, <2>2, <2>3
<1>7. QED
  BY <1>1, <1>5, <1>6

LEMMA FetchSyncTyped == ASSUME Typed, SyncFits, FetchSync PROVE Typed'
<1>1. sync' = IdleSync \/ sync' \in SyncSet
  BY FetchSyncRun DEF EndSync
<1>2. excused' \subseteq Msg
  <2>1. CASE EndSync
    BY <2>1, Excused DEF EndSync
  <2>2. CASE UNCHANGED excused
    BY <2>2, TypedParts DEF StoreTyped
  <2>3. QED
    BY <2>1, <2>2, FetchSyncRun
<1>3. TelegramTyped' /\ LiveTyped' /\ StoreTyped' /\ GapsTyped' /\ SyncTyped'
  BY <1>1, <1>2, TypedParts
  DEF FetchSync, TelegramTyped, LiveTyped, StoreTyped, GapsTyped, SyncTyped, telegram, live,
      recovery
<1>4. QED
  BY <1>3, TypedPartsNext

\* The oldest message of the page, and the offset it lies below.
Least == Smallest(Ids(sync.page))
Above == IF sync.offset # 0 THEN sync.offset ELSE sync.maxSeen + 1

LEMMA SyncLeast ==
    ASSUME Typed, SyncFits, sync.pc = "store"
    PROVE  /\ sync \in SyncSet /\ sync # IdleSync
           /\ PageBelow(sync.page, Above)
           /\ Least \in Msg /\ Least < Above /\ Least <= sync.maxSeen
           /\ \A m \in Msg : Least <= m /\ m < Above
                => m \in Ids(sync.page) \/ m \in Service \/ version[m] = Erased
<1>1. sync \in SyncSet /\ sync # IdleSync
  BY Paging
<1>2. PageBelow(sync.page, Above)
  BY <1>1 DEF SyncFits, Above
<1>3. /\ Least \in Msg /\ Least < Above
      /\ \A m \in Msg : Least <= m /\ m < Above
           => m \in Ids(sync.page) \/ m \in Service \/ version[m] = Erased
  BY <1>2, LeastOfPage DEF Least
<1>4. Above <= sync.maxSeen + 1 /\ Above \in Nat /\ sync.maxSeen \in Nat
  BY <1>1, Bounds DEF SyncFits, Above, SyncSet
<1>5. Least <= sync.maxSeen
  BY <1>3, <1>4, Bounds
<1>6. QED
  BY <1>1, <1>2, <1>3, <1>5

LEMMA StoreSyncRun ==
    ASSUME Typed, SyncFits, StoreSync
    PROVE  \/ ReachedLower(Least) /\ sync' = IdleSync /\ Excuse((sync.lower + 1)..(Least - 1))
           \/ /\ ~ReachedLower(Least) /\ UNCHANGED excused
              /\ sync' \in SyncSet
              /\ sync'.pc = "fetch" /\ sync'.kind = sync.kind /\ sync'.limit = sync.limit
              /\ sync'.lower = sync.lower /\ sync'.offset = Least
              /\ sync'.maxSeen = sync.maxSeen /\ sync'.count = sync.count
<1>1. sync \in SyncSet /\ Least \in Msg
  BY SyncLeast DEF StoreSync
<1>2. \/ ReachedLower(Least) /\ sync' = IdleSync /\ Excuse((sync.lower + 1)..(Least - 1))
      \/ /\ ~ReachedLower(Least) /\ UNCHANGED excused
         /\ sync' = [sync EXCEPT !.pc = "fetch", !.offset = Least, !.page = Nothing]
  BY DEF StoreSync, Least
<1>3. CASE /\ ~ReachedLower(Least) /\ UNCHANGED excused
           /\ sync' = [sync EXCEPT !.pc = "fetch", !.offset = Least, !.page = Nothing]
  <2>1. sync' \in SyncSet
    <3>1. Least \in 0..MaxMsg /\ Nothing \in Content
      BY <1>1, NothingIsEmpty, Bounds
    <3>2. QED
      BY <1>1, <1>3, <3>1 DEF SyncSet
  <2>2. /\ sync'.pc = "fetch" /\ sync'.kind = sync.kind /\ sync'.limit = sync.limit
        /\ sync'.lower = sync.lower /\ sync'.offset = Least
        /\ sync'.maxSeen = sync.maxSeen /\ sync'.count = sync.count
    BY <1>1, <1>3 DEF SyncSet
  <2>3. QED
    BY <1>3, <2>1, <2>2
<1>4. QED
  BY <1>2, <1>3

LEMMA StoreSyncTyped == ASSUME Typed, SyncFits, StoreSync PROVE Typed'
<1>1. sync \in SyncSet /\ sync # IdleSync
  BY SyncLeast DEF StoreSync
<1>2. sync' = IdleSync \/ sync' \in SyncSet
  BY StoreSyncRun
<1>3. excused' \subseteq Msg
  <2>1. CASE Excuse((sync.lower + 1)..(Least - 1))
    BY <2>1, Excused
  <2>2. CASE UNCHANGED excused
    BY <2>2, TypedParts DEF StoreTyped
  <2>3. QED
    BY <2>1, <2>2, StoreSyncRun
<1>4. stored' \in Content
  <2>1. AboveLower(sync.page) \in Content
    BY <1>1, KeepTyped DEF AboveLower, SyncSet
  <2>2. QED
    BY <2>1, Upserted DEF StoreSync
<1>5. sync.maxSeen \in 0..posted
  BY <1>1 DEF SyncSet, SyncFits
<1>6. cursor' \in 0..MaxMsg /\ claimed' \in 0..MaxMsg /\ cursor' <= claimed' /\ claimed' <= posted'
  <2>1. posted' = posted
    BY DEF StoreSync, telegram
  <2>2. CASE SaveCursor(sync.maxSeen)
    BY <1>5, <2>1, <2>2, SaveCursorTyped
  <2>3. CASE KeepCursor
    BY <2>1, <2>3, TypedParts DEF KeepCursor, StoreTyped
  <2>4. QED
    BY <2>2, <2>3 DEF StoreSync
<1>7. TelegramTyped' /\ LiveTyped' /\ StoreTyped' /\ GapsTyped' /\ SyncTyped'
  BY <1>2, <1>3, <1>4, <1>6, TypedParts
  DEF StoreSync, TelegramTyped, LiveTyped, StoreTyped, GapsTyped, SyncTyped, telegram, live,
      recovery
<1>8. QED
  BY <1>7, TypedPartsNext

LEMMA SyncErrorRun ==
    ASSUME Typed, SyncError
    PROVE  \/ sync' = IdleSync
           \/ /\ sync' \in SyncSet
              /\ sync'.pc = "begin" /\ sync'.kind = sync.kind /\ sync'.limit = sync.limit
              /\ sync'.lower = 0 /\ sync'.offset = 0 /\ sync'.maxSeen = 0
<1> DEFINE next == sync.attempt + 1
<1>1. sync \in SyncSet
  BY TypedParts DEF SyncError, SyncTyped
<1>2. \/ sync' = IdleSync
      \/ /\ sync.attempt < MaxTries
         /\ sync' = [sync EXCEPT !.pc = "begin", !.attempt = next, !.page = Nothing,
                                 !.lower = 0, !.offset = 0, !.maxSeen = 0, !.count = 0, !.asked = 0]
  BY DEF SyncError
<1>3. sync.attempt < MaxTries => next \in 1..MaxTries
  BY <1>1, ChannelHistoryAssumption DEF SyncSet
<1> HIDE DEF next
<1>4. CASE /\ sync.attempt < MaxTries
           /\ sync' = [sync EXCEPT !.pc = "begin", !.attempt = next, !.page = Nothing,
                                   !.lower = 0, !.offset = 0, !.maxSeen = 0, !.count = 0, !.asked = 0]
  <2>1. 0 \in 0..MaxMsg /\ next \in 1..MaxTries
    BY <1>3, <1>4, Bounds
  <2>2. sync' \in SyncSet
    BY <1>1, <1>4, <2>1, NothingIsEmpty DEF SyncSet
  <2>3. /\ sync'.pc = "begin" /\ sync'.kind = sync.kind /\ sync'.limit = sync.limit
        /\ sync'.lower = 0 /\ sync'.offset = 0 /\ sync'.maxSeen = 0
    BY <1>1, <1>4 DEF SyncSet
  <2>4. QED
    BY <2>2, <2>3
<1>5. QED
  BY <1>2, <1>4

LEMMA SyncErrorTyped == ASSUME Typed, SyncError PROVE Typed'
<1>1. sync' = IdleSync \/ sync' \in SyncSet
  BY SyncErrorRun
<1>2. excused' \subseteq Msg
  BY Excused DEF SyncError
<1>3. TelegramTyped' /\ LiveTyped' /\ StoreTyped' /\ GapsTyped' /\ SyncTyped'
  BY <1>1, <1>2, Faulty, TypedParts
  DEF SyncError, TelegramTyped, LiveTyped, StoreTyped, GapsTyped, SyncTyped, telegram, live,
      recovery
<1>4. QED
  BY <1>3, TypedPartsNext

\* A restart keeps what a row asks for.
LEMMA CrashedGaps ==
    ASSUME Typed, Crash
    PROVE  /\ gaps' \in [GapId -> Gap]
           /\ \A g \in GapId : gaps'[g].payload = gaps[g].payload
           /\ \A g \in GapId : gaps'[g].status # "absent" => gaps[g].status # "absent"
  BY TypedParts DEF Crash, GapsTyped, Gap

LEMMA CrashTyped == ASSUME Typed, Crash PROVE Typed'
<1>1. excused' \subseteq Msg
  BY Excused DEF Crash
<1>2. LiveTyped'
  <2>1. <<>> \in Seq(Event) /\ Len(<<>>) <= QueueSize
    BY EmptySeq, ChannelHistoryAssumption
  <2>2. QED
    BY <2>1 DEF Crash, LiveTyped
<1>3. TelegramTyped' /\ StoreTyped' /\ GapsTyped' /\ SyncTyped'
  BY <1>1, CrashedGaps, Faulty, TypedParts
  DEF Crash, TelegramTyped, StoreTyped, GapsTyped, SyncTyped, telegram
<1>4. QED
  BY <1>2, <1>3, TypedPartsNext

-----------------------------------------------------------------------------
(* What no step takes back.                                                  *)

Grows ==
    /\ posted <= posted' /\ claimed <= claimed'
    /\ \A m \in Msg : stored[m] # NotStored => stored'[m] # NotStored
    /\ \A m \in Msg : version[m] = Erased => version'[m] = Erased
    /\ excused \subseteq excused'

LEMMA SafeGrows == ASSUME Grows PROVE \A m \in Msg : Safe(m) => Safe(m)'
  BY DEF Grows, Safe

LEMMA Numbers == ASSUME Typed PROVE posted \in Nat /\ claimed \in Nat /\ cursor \in Nat /\ cursor <= claimed
  BY TypedParts DEF TelegramTyped, StoreTyped

LEMMA PostGrows == ASSUME Typed, Post PROVE Grows
  BY Numbers DEF Post, Grows, history

LEMMA ChangeGrows == ASSUME Typed, NEW m \in Changing, NEW v \in 1..2, Change(m, v) PROVE Grows
<1>1. version \in [Msg -> Version] /\ m \in Msg
  BY TypedParts, Bounds DEF TelegramTyped
<1>2. version[m] # Erased
  BY <1>1 DEF Change, Version, Erased
<1>3. QED
  BY <1>1, <1>2, Numbers DEF Change, Grows, history

LEMMA TakeEventGrows == ASSUME Typed, TakeEvent PROVE Grows
<1>1. stored \in Content
  BY TypedParts DEF StoreTyped
<1>2. \A m \in Msg : stored[m] # NotStored => stored'[m] # NotStored
  BY <1>1 DEF TakeEvent, Content, NotStored, Erased
<1>3. QED
  BY <1>2, Numbers DEF TakeEvent, Grows, history, telegram

LEMMA StoreMessageGrows ==
    ASSUME Typed, StoreMessage
    PROVE  Grows /\ stored'[proc.event.id] # NotStored
<1>1. proc \in ProcSet
  BY Busy, TypedParts DEF StoreMessage, LiveTyped
<1>2. proc.event.id \in Msg /\ proc.event.version # NotStored /\ stored \in Content
  BY <1>1, TypedParts DEF ProcSet, Event, StoreTyped, Version, NotStored
<1>3. stored'[proc.event.id] # NotStored /\ \A m \in Msg : stored[m] # NotStored => stored'[m] # NotStored
  BY <1>2 DEF StoreMessage, Content
<1>4. QED
  BY <1>3, Numbers DEF StoreMessage, Grows, history, telegram

LEMMA AdvanceSaveGrows ==
    ASSUME Typed, ProcFits, AdvanceSave
    PROVE  /\ Grows /\ proc \in ProcSet /\ proc # IdleProc
           /\ claimed' \in {claimed, proc.event.id}
<1>1. proc \in ProcSet /\ proc # IdleProc
  BY Busy, TypedParts DEF AdvanceSave, LiveTyped
<1>2. proc.event.id \in 0..posted
  BY <1>1, Bounds DEF ProcSet, Event, ProcFits
<1>3. claimed <= claimed' /\ claimed' \in {claimed, proc.event.id}
  BY <1>2, SaveCursorTyped DEF AdvanceSave, telegram
<1>4. excused \subseteq excused'
  BY Excused DEF AdvanceSave
<1>5. QED
  BY <1>1, <1>3, <1>4, Numbers DEF AdvanceSave, Grows, telegram

LEMMA FinishGapGrows ==
    ASSUME Typed, GapsFit, FinishGap
    PROVE  /\ Grows /\ gapRun \in RunSet /\ gapRun # IdleGap
           /\ claimed' \in {claimed, gapRun.payload.trigger}
<1>1. gapRun \in RunSet /\ gapRun # IdleGap
  BY Running DEF FinishGap
<1>2. gapRun.payload.trigger \in 0..posted
  BY <1>1, PayloadFacts, Bounds DEF GapsFit, Settled
<1>3. claimed <= claimed' /\ claimed' \in {claimed, gapRun.payload.trigger}
  BY <1>2, SaveCursorTyped DEF FinishGap, telegram
<1>4. QED
  BY <1>1, <1>3, Numbers DEF FinishGap, Grows, telegram

LEMMA StoreGapGrows ==
    ASSUME Typed, RunFits, StoreGap
    PROVE  /\ Grows
           /\ \A m \in Ids(gapRun.page) :
                m \in gapRun.payload.from..gapRun.payload.to => stored'[m] # NotStored
<1> DEFINE kept == InGap(gapRun.page)
<1>1. gapRun.page \in Content
  BY StoreGapRun DEF RunSet
<1>2. /\ kept \in Content
      /\ Ids(kept) = Ids(gapRun.page) \cap (gapRun.payload.from..gapRun.payload.to)
  BY <1>1, KeepTyped DEF InGap
<1> HIDE DEF kept
<1>3. stored' = Upsert(kept)
  BY DEF StoreGap, kept
<1>4. \A m \in Msg : m \in Ids(kept) \/ stored[m] # NotStored => stored'[m] # NotStored
  BY <1>2, <1>3, Upserted
<1>5. \A m \in Ids(gapRun.page) :
         m \in gapRun.payload.from..gapRun.payload.to => stored'[m] # NotStored
  BY <1>2, <1>4 DEF Ids
<1>6. QED
  BY <1>4, <1>5, Numbers DEF StoreGap, Grows, history, telegram

LEMMA StoreSyncGrows ==
    ASSUME Typed, SyncFits, StoreSync
    PROVE  /\ Grows /\ claimed' \in {claimed, sync.maxSeen}
           /\ \A m \in Ids(sync.page) : sync.lower < m => stored'[m] # NotStored
<1> DEFINE more == AboveLower(sync.page)
<1>1. sync \in SyncSet /\ sync # IdleSync
  BY SyncLeast DEF StoreSync
<1>2. sync.page \in Content /\ sync.lower \in 0..MaxMsg /\ sync.maxSeen \in 0..posted
  BY <1>1 DEF SyncSet, SyncFits
<1>3. more \in Content /\ Ids(more) = Ids(sync.page) \cap ((sync.lower + 1)..MaxMsg)
  BY <1>2, KeepTyped DEF AboveLower
<1> HIDE DEF more
<1>4. stored' = Upsert(more)
  BY DEF StoreSync, more
<1>5. \A m \in Msg : m \in Ids(more) \/ stored[m] # NotStored => stored'[m] # NotStored
  BY <1>3, <1>4, Upserted
<1>6. ASSUME NEW m \in Ids(sync.page), sync.lower < m PROVE stored'[m] # NotStored
  <2>1. m \in Msg
    BY DEF Ids
  <2>2. m \in (sync.lower + 1)..MaxMsg
    BY <1>2, <1>6, <2>1, Bounds
  <2>3. QED
    BY <1>3, <1>5, <2>1, <2>2
<1>7. claimed <= claimed' /\ claimed' \in {claimed, sync.maxSeen}
  <2>1. CASE SaveCursor(sync.maxSeen)
    BY <1>2, <2>1, SaveCursorTyped DEF StoreSync, telegram
  <2>2. CASE KeepCursor
    BY <2>2, Numbers DEF KeepCursor
  <2>3. QED
    BY <2>1, <2>2 DEF StoreSync
<1>8. excused \subseteq excused'
  <2>1. CASE Excuse((sync.lower + 1)..(Least - 1))
    BY <2>1, Excused
  <2>2. CASE UNCHANGED excused
    BY <2>2
  <2>3. QED
    BY <2>1, <2>2, StoreSyncRun
<1>9. QED
  BY <1>5, <1>6, <1>7, <1>8, Numbers DEF StoreSync, Grows, telegram

\* The steps that write neither a message nor the cursor.
LEMMA OthersGrow ==
    ASSUME Typed, SyncFits,
           \/ EnqueueGapRecovery \/ AdvanceCheck \/ ProcessError
           \/ ListGaps \/ (\E item \in listed : StartGap(item)) \/ FetchGap \/ GapSucceeds
           \/ GapFails \/ CooldownLifts \/ (\E g \in GapId : RetryGap(g))
           \/ (\E limit \in Profiles : StartHistory(limit)) \/ StartBacklog
           \/ BeginAttempt \/ FetchSync \/ SyncError \/ Crash \/ UNCHANGED vars
    PROVE  Grows
<1>1. /\ excused \subseteq excused'
      /\ UNCHANGED <<posted, version, stored, claimed>>
  <2>1. CASE EnqueueGapRecovery \/ AdvanceCheck \/ ListGaps \/ (\E item \in listed : StartGap(item))
             \/ GapSucceeds \/ GapFails \/ CooldownLifts \/ (\E g \in GapId : RetryGap(g))
             \/ (\E limit \in Profiles : StartHistory(limit)) \/ StartBacklog \/ BeginAttempt
             \/ UNCHANGED vars
    BY <2>1
    DEF EnqueueGapRecovery, AdvanceCheck, ListGaps, StartGap, GapSucceeds, GapFails, CooldownLifts,
        RetryGap, StartHistory, StartBacklog, BeginAttempt, vars, telegram, history
  <2>2. CASE ProcessError
    BY <2>2, Excused DEF ProcessError, telegram
  <2>3. CASE FetchGap
    BY <2>3, Excused DEF FetchGap, telegram
  <2>4. CASE FetchSync
    <3>1. excused \subseteq excused'
      BY <2>4, FetchSyncRun, Excused DEF EndSync
    <3>2. QED
      BY <2>4, <3>1 DEF FetchSync, telegram
  <2>5. CASE SyncError
    BY <2>5, Excused DEF SyncError, telegram
  <2>6. CASE Crash
    BY <2>6, Excused DEF Crash, telegram
  <2>7. QED
    BY <2>1, <2>2, <2>3, <2>4, <2>5, <2>6
<1>2. QED
  BY <1>1, Numbers DEF Grows

-----------------------------------------------------------------------------
(* What a part of the invariant needs when a step leaves its variables alone. *)

\* What the sync at work is still going to fetch.
Waiting == IF sync = IdleSync \/ sync.offset = 0 THEN {} ELSE Unfetched

HandPassed == \A m \in Msg : m \in InHand => m \in InHand' \/ Safe(m)'
WaitPassed == \A m \in Msg : m \in Waiting => m \in Waiting' \/ Safe(m)'
MarkPassed == \A m \in Msg : claimed < m /\ m <= claimed' => Safe(m)' \/ m \in Waiting' \/ m \in InHand'

LEMMA PendingParts == Pending = Waiting \cup InHand
  BY DEF Pending, Waiting, InHand

LEMMA PendingPartsNext == Pending' = Waiting' \cup InHand'
  BY DEF Pending, Waiting, InHand

LEMMA HoleStep ==
    ASSUME Typed, Typed', Grows, HandPassed, WaitPassed, MarkPassed, NoOtherHole
    PROVE  NoOtherHole'
<1>1. ASSUME NEW m \in 1..claimed' PROVE Safe(m)' \/ m \in Pending'
  <2>1. m \in Msg /\ claimed \in Nat
    BY TypedParts, Bounds DEF StoreTyped, Typed, TypeOK
  <2>2. CASE m <= claimed
    <3>1. Safe(m) \/ m \in Waiting \cup InHand
      BY <2>1, <2>2, PendingParts, Bounds DEF NoOtherHole, Safe
    <3>2. QED
      BY <2>1, <3>1, SafeGrows, PendingPartsNext DEF HandPassed, WaitPassed
  <2>3. CASE claimed < m
    BY <2>1, <2>3, PendingPartsNext DEF MarkPassed
  <2>4. QED
    BY <2>1, <2>2, <2>3, Bounds
<1>2. QED
  BY <1>1 DEF NoOtherHole, Safe

LEMMA SettledKept ==
    ASSUME Typed, Typed', Grows, HandPassed
    PROVE  Settled \subseteq Settled'
<1>1. ASSUME NEW p \in Settled
      PROVE  /\ p \in Payload /\ p.from <= claimed' + 1 /\ p.trigger = p.to + 1
             /\ p.trigger <= posted' /\ (Safe(p.trigger)' \/ p.trigger \in InHand')
  <2>1. /\ p \in Payload /\ p.from <= claimed + 1 /\ p.trigger = p.to + 1 /\ p.trigger <= posted
        /\ (Safe(p.trigger) \/ p.trigger \in InHand)
    BY DEF Settled
  <2>2. p.from \in Msg /\ p.trigger \in Msg
    BY <2>1, PayloadFacts
  <2>3. Safe(p.trigger)' \/ p.trigger \in InHand'
    BY <2>1, <2>2, SafeGrows DEF HandPassed
  <2>4. /\ p.from \in Nat /\ p.trigger \in Nat /\ posted \in Nat /\ posted' \in Nat
        /\ claimed \in Nat /\ claimed' \in Nat
    BY <2>2, Bounds DEF Typed, TypeOK
  <2>5. posted <= posted' /\ claimed <= claimed'
    BY DEF Grows
  <2>6. QED
    BY <2>1, <2>3, <2>4, <2>5
<1>2. QED
  BY <1>1 DEF Settled

LEMMA GapsKept ==
    ASSUME GapsFit, Settled \subseteq Settled', UNCHANGED <<gaps, listed, gapRun>>
    PROVE  GapsFit'
  BY DEF GapsFit

LEMMA ProcSame ==
    ASSUME Typed, Typed', ProcFits, Grows, proc' = proc,
           \A k \in DOMAIN events' : events'[k].id <= posted'
    PROVE  ProcFits' /\ HandPassed
<1>1. proc # IdleProc => proc \in ProcSet /\ proc.event.id \in Msg /\ proc.from \in Nat
  BY TypedParts, Bounds DEF LiveTyped, ProcSet, Event
<1>2. /\ posted \in Nat /\ posted' \in Nat /\ claimed \in Nat /\ claimed' \in Nat
      /\ posted <= posted' /\ claimed <= claimed'
  BY DEF Typed, TypeOK, Grows
<1>3. ASSUME proc # IdleProc
      PROVE  /\ proc.event.id <= posted'
             /\ proc.pc = "enqueue" =>
                   proc.from \in Msg /\ proc.from < proc.event.id /\ proc.from <= claimed' + 1
             /\ proc.pc \in {"advance", "save"} => stored'[proc.event.id] # NotStored
             /\ proc.pc = "save" /\ proc.from # 0 =>
                   proc.event.id = proc.from + 1 /\ proc.from <= claimed'
  <2>1. proc.event.id \in Msg /\ proc.event.id \in Nat /\ proc.from \in Nat
    BY <1>1, <1>3, Bounds
  <2>2. proc.pc \in {"advance", "save"} => stored'[proc.event.id] # NotStored
    BY <1>3, <2>1 DEF ProcFits, Grows
  <2>3. QED
    BY <1>2, <1>3, <2>1, <2>2 DEF ProcFits
<1>4. ProcFits'
  BY <1>3 DEF ProcFits
<1>5. HandPassed
  BY DEF HandPassed, InHand, DroppedEvent
<1>6. QED
  BY <1>4, <1>5

\* The ids in the queue are numbers.
LEMMA Queued == ASSUME Typed PROVE \A k \in DOMAIN events : events[k].id \in Nat
<1>1. events \in Seq(Event)
  BY TypedParts DEF LiveTyped
<1>2. \A k \in DOMAIN events : events[k] \in Event
  BY <1>1, ElementOfSeq, LenProperties
<1>3. QED
  BY <1>2, Bounds DEF Event

LEMMA ProcKept ==
    ASSUME Typed, Typed', ProcFits, Grows, UNCHANGED live
    PROVE  ProcFits' /\ HandPassed
<1>1. posted \in Nat /\ posted' \in Nat /\ posted <= posted'
  BY DEF Typed, TypeOK, Grows
<1>2. \A k \in DOMAIN events' : events'[k].id <= posted'
  BY <1>1, Queued DEF live, ProcFits
<1>3. QED
  BY <1>2, ProcSame DEF live

LEMMA RunKept ==
    ASSUME Typed, Typed', RunFits, Grows, UNCHANGED gapRun
    PROVE  RunFits'
<1> SUFFICES ASSUME gapRun # IdleGap
             PROVE  /\ gapRun.offset <= posted'
                    /\ gapRun.pc = "store" => PageBelow(gapRun.page, gapRun.offset)'
                    /\ \A m \in gapRun.payload.from..gapRun.payload.to :
                          gapRun.pc \in {"finish", "end"} \/ gapRun.offset <= m => Safe(m)'
  BY DEF RunFits, PageBelow, Whole
<1>1. gapRun \in RunSet /\ gapRun.offset \in Nat
  BY TypedParts, Bounds DEF GapsTyped, RunSet
<1>2. gapRun.offset <= posted'
  BY <1>1 DEF RunFits, Grows, Typed, TypeOK
<1>3. gapRun.pc = "store" => PageBelow(gapRun.page, gapRun.offset)'
  BY DEF RunFits, PageBelow, Whole, Grows
<1>4. gapRun.payload.from..gapRun.payload.to \subseteq Msg
  BY <1>1, PayloadFacts, Bounds DEF RunSet
<1>5. \A m \in gapRun.payload.from..gapRun.payload.to :
         gapRun.pc \in {"finish", "end"} \/ gapRun.offset <= m => Safe(m)'
  BY <1>4, SafeGrows DEF RunFits
<1>6. QED
  BY <1>2, <1>3, <1>5

LEMMA SyncKept ==
    ASSUME Typed, Typed', SyncFits, Grows, UNCHANGED sync
    PROVE  SyncFits' /\ WaitPassed
<1>1. WaitPassed
  BY DEF WaitPassed, Waiting, Unfetched
<1>2. SyncFits'
  <2> SUFFICES ASSUME sync # IdleSync PROVE SyncFits'
    BY DEF SyncFits
  <2>1. /\ sync \in SyncSet /\ sync.lower \in Nat /\ sync.maxSeen \in Nat
        /\ posted \in Nat /\ posted' \in Nat /\ claimed \in Nat /\ claimed' \in Nat
        /\ posted <= posted' /\ claimed <= claimed'
    <3>1. sync \in SyncSet
      BY TypedParts DEF SyncTyped
    <3>2. sync.lower \in Nat /\ sync.maxSeen \in Nat
      BY <3>1, Bounds DEF SyncSet
    <3>3. /\ posted \in Nat /\ posted' \in Nat /\ claimed \in Nat /\ claimed' \in Nat
          /\ posted <= posted' /\ claimed <= claimed'
      BY Bounds DEF Grows, Typed, TypeOK
    <3>4. QED
      BY <3>1, <3>2, <3>3
  <2>2. /\ sync.lower <= claimed' /\ sync.maxSeen <= posted'
        /\ sync.offset # 0 => sync.maxSeen <= claimed'
    BY <2>1 DEF SyncFits
  <2>3. \A offset : PageBelow(sync.page, offset) => PageBelow(sync.page, offset)'
    BY DEF PageBelow, Whole, Grows
  <2>4. QED
    BY <2>2, <2>3 DEF SyncFits, PageBelow, Whole
<1>3. QED
  BY <1>1, <1>2

LEMMA MarkKept == ASSUME Typed, UNCHANGED claimed PROVE MarkPassed
  BY Numbers, Bounds DEF MarkPassed

LEMMA Together ==
    ASSUME Inv, Typed', Grows, HandPassed, WaitPassed, MarkPassed, ProcFits', RunFits', SyncFits',
           Settled \subseteq Settled' => GapsFit'
    PROVE  Fits' /\ NoOtherHole'
<1>1. NoOtherHole'
  BY HoleStep DEF Inv
<1>2. Settled \subseteq Settled'
  BY SettledKept DEF Inv
<1>3. QED
  BY <1>1, <1>2 DEF Fits

-----------------------------------------------------------------------------
(* The steps: Telegram and the processor.                                    *)

LEMMA PostFits == ASSUME Inv, Typed', Post PROVE Fits' /\ NoOtherHole'
<1>1. Typed /\ Fits /\ Grows
  BY PostGrows DEF Inv
<1>2. posted \in Nat /\ posted' = posted + 1 /\ posted + 1 \in Msg
  BY <1>1, Numbers, Bounds DEF Post
<1>3. \A k \in DOMAIN events' : events'[k].id = posted + 1 \/ (k \in DOMAIN events /\ events'[k] = events[k])
  BY <1>1, <1>2, Delivered, TypedParts DEF Post, Version
<1>4. \A k \in DOMAIN events' : events'[k].id <= posted'
  BY <1>1, <1>2, <1>3, Queued DEF Fits, ProcFits
<1>5. ProcFits' /\ HandPassed
  BY <1>1, <1>4, ProcSame DEF Fits, Post
<1>6. RunFits' /\ SyncFits' /\ WaitPassed /\ MarkPassed
  BY <1>1, RunKept, SyncKept, MarkKept DEF Fits, Post, recovery, bulk, history
<1>7. QED
  BY <1>1, <1>5, <1>6, GapsKept, Together DEF Fits, Post, recovery

LEMMA ChangeFits ==
    ASSUME Inv, Typed', NEW m \in Changing, NEW v \in 1..2, Change(m, v)
    PROVE  Fits' /\ NoOtherHole'
<1>1. Typed /\ Fits /\ Grows
  BY ChangeGrows DEF Inv
<1>2. posted' = posted /\ m \in Msg /\ v \in Version /\ m <= posted
      /\ (IF v = Erased THEN "delete" ELSE "edit") \in {"new", "edit", "delete"}
  BY Bounds DEF Change, Version
<1>3. \A k \in DOMAIN events' : events'[k].id = m \/ (k \in DOMAIN events /\ events'[k] = events[k])
  BY <1>1, <1>2, Delivered, TypedParts DEF Change
<1>4. \A k \in DOMAIN events' : events'[k].id <= posted'
  BY <1>1, <1>2, <1>3 DEF Fits, ProcFits
<1>5. ProcFits' /\ HandPassed
  BY <1>1, <1>4, ProcSame DEF Fits, Change
<1>6. RunFits' /\ SyncFits' /\ WaitPassed /\ MarkPassed
  BY <1>1, RunKept, SyncKept, MarkKept DEF Fits, Change, recovery, bulk, history
<1>7. QED
  BY <1>1, <1>5, <1>6, GapsKept, Together DEF Fits, Change, recovery

LEMMA TakeEventFits == ASSUME Inv, Typed', TakeEvent PROVE Fits' /\ NoOtherHole'
<1> DEFINE e == Head(events)
<1>1. Typed /\ Fits /\ Grows
  BY TakeEventGrows DEF Inv
<1>2. posted' = posted /\ claimed' = claimed /\ proc = IdleProc /\ events' = Tail(events)
  BY DEF TakeEvent, telegram, history
<1>3. e \in Event /\ e.id <= posted /\ \A k \in DOMAIN events' : events'[k].id <= posted'
  BY <1>1, <1>2, Taken, TypedParts DEF TakeEvent, Fits, ProcFits
<1>4. ProcFits' /\ HandPassed
  <2>1. CASE proc' = proc
    BY <1>1, <1>3, <2>1, ProcSame DEF Fits
  <2>2. CASE proc' = IF e.type = "new" /\ IsGap(e.id)
                     THEN [pc |-> "enqueue", event |-> e, from |-> cursor + 1]
                     ELSE [pc |-> "store", event |-> e, from |-> 0]
    <3>1. e.id \in 1..MaxMsg /\ cursor \in Nat /\ claimed \in Nat /\ cursor <= claimed
      BY <1>1, <1>3, Numbers, Bounds DEF Event
    <3>2. IsGap(e.id) => cursor + 1 \in Msg /\ cursor + 1 < e.id /\ cursor + 1 <= claimed + 1
      BY <3>1, Bounds DEF IsGap
    <3>3. ProcFits'
      BY <1>2, <1>3, <2>2, <3>2 DEF ProcFits
    <3>4. QED
      BY <1>2, <3>3 DEF HandPassed, InHand
  <2>3. QED
    BY <2>1, <2>2 DEF TakeEvent
<1>5. RunFits' /\ SyncFits' /\ WaitPassed /\ MarkPassed
  BY <1>1, RunKept, SyncKept, MarkKept DEF Fits, TakeEvent, recovery, bulk, history
<1>6. QED
  BY <1>1, <1>4, <1>5, GapsKept, Together DEF Fits, TakeEvent, recovery

LEMMA EnqueueFits == ASSUME Inv, Typed', EnqueueGapRecovery PROVE Fits' /\ NoOtherHole'
<1> DEFINE p == [from |-> proc.from, to |-> proc.event.id - 1, trigger |-> proc.event.id]
<1>1. Typed /\ Fits /\ Grows
  BY OthersGrow DEF Inv, Fits
<1>2. proc \in ProcSet /\ proc # IdleProc /\ proc.pc = "enqueue" /\ proc.from \in Msg
  BY <1>1, Busy, TypedParts DEF EnqueueGapRecovery, LiveTyped, Fits, ProcFits
<1>3. proc' = [proc EXCEPT !.pc = "store"] /\ events' = events
      /\ UNCHANGED <<posted, claimed, stored, version, excused>>
  BY DEF EnqueueGapRecovery, telegram, history
<1>4. proc'.pc = "store" /\ proc'.event = proc.event /\ proc'.from = proc.from /\ proc' # IdleProc
  BY <1>2, <1>3 DEF ProcSet, IdleProc
<1>5. ProcFits' /\ HandPassed /\ InHand' = {proc.event.id}
  <2>1. ProcFits'
    BY <1>1, <1>2, <1>3, <1>4 DEF Fits, ProcFits
  <2>2. proc.from > 0
    BY <1>2, Bounds
  <2>3. InHand = {} /\ InHand' = {proc.event.id}
    BY <1>2, <1>4, <2>2 DEF InHand, DroppedEvent
  <2>4. QED
    BY <2>1, <2>3 DEF HandPassed
<1>6. /\ p \in Payload /\ p.from <= claimed + 1 /\ p.trigger = p.to + 1 /\ p.trigger <= posted
  BY <1>1, <1>2, HandedOver DEF Fits
<1>7. p.trigger \in InHand'
  BY <1>5
<1> HIDE DEF p
<1>8. p \in Settled'
  BY <1>3, <1>6, <1>7 DEF Settled
<1>9. ASSUME Settled \subseteq Settled' PROVE GapsFit'
  <2>1. Coalesce(p)
    BY DEF EnqueueGapRecovery, p
  <2>2. \A g \in GapId : gaps[g].status # "absent" => gaps[g].payload \in Settled
    BY <1>1 DEF Fits, GapsFit
  <2>3. \A g \in GapId : gaps'[g].status # "absent" => Renewed(g, p)
    BY <1>1, <1>6, <2>1, <2>2, Coalesced, TypedParts DEF Settled
  <2>4. ASSUME NEW old \in Settled PROVE Join(p, old) \in Settled'
    <3>1. /\ old \in Payload /\ old.trigger = old.to + 1 /\ old.trigger <= posted
          /\ (Safe(old.trigger)' \/ old.trigger \in InHand')
      BY <1>3, <1>9, <2>4 DEF Settled
    <3>2. /\ Join(p, old) \in Payload /\ Join(p, old).from = p.from
          /\ Join(p, old).trigger = Join(p, old).to + 1
          /\ Join(p, old).trigger \in {p.trigger, old.trigger}
      BY <1>6, <3>1, JoinTyped
    <3>3. QED
      BY <1>3, <1>6, <1>7, <3>1, <3>2 DEF Settled
  <2>5. \A g \in GapId : gaps'[g].status # "absent" => gaps'[g].payload \in Settled'
    BY <1>8, <1>9, <2>2, <2>3, <2>4 DEF Renewed
  <2>6. UNCHANGED <<listed, gapRun>>
    BY DEF EnqueueGapRecovery
  <2>7. QED
    BY <1>1, <1>9, <2>5, <2>6 DEF Fits, GapsFit
<1>10. RunFits' /\ SyncFits' /\ WaitPassed /\ MarkPassed
  BY <1>1, RunKept, SyncKept, MarkKept DEF Fits, EnqueueGapRecovery, bulk, history
<1>11. QED
  BY <1>1, <1>5, <1>9, <1>10, Together

LEMMA StoreMessageFits == ASSUME Inv, Typed', StoreMessage PROVE Fits' /\ NoOtherHole'
<1>1. Typed /\ Fits /\ Grows /\ stored'[proc.event.id] # NotStored
  BY StoreMessageGrows DEF Inv
<1>2. proc \in ProcSet /\ proc # IdleProc
  BY <1>1, Busy, TypedParts DEF StoreMessage, LiveTyped
<1>3. events' = events /\ posted' = posted /\ claimed' = claimed
  BY DEF StoreMessage, telegram, history
<1>4. \/ proc' = IdleProc
      \/ proc'.pc = "advance" /\ proc'.event = proc.event
  BY <1>2 DEF StoreMessage, ProcSet
<1>5. ProcFits'
  BY <1>1, <1>2, <1>3, <1>4 DEF Fits, ProcFits
<1>6. HandPassed
  BY <1>1 DEF HandPassed, InHand, DroppedEvent, Safe
<1>7. RunFits' /\ SyncFits' /\ WaitPassed /\ MarkPassed
  BY <1>1, RunKept, SyncKept, MarkKept DEF Fits, StoreMessage, recovery, bulk, history
<1>8. QED
  BY <1>1, <1>5, <1>6, <1>7, GapsKept, Together DEF Fits, StoreMessage, recovery

LEMMA AdvanceCheckFits == ASSUME Inv, Typed', AdvanceCheck PROVE Fits' /\ NoOtherHole'
<1>1. Typed /\ Fits /\ Grows
  BY OthersGrow DEF Inv, Fits
<1>2. proc \in ProcSet /\ proc # IdleProc /\ proc.pc = "advance"
  BY <1>1, Busy, TypedParts DEF AdvanceCheck, LiveTyped
<1>3. events' = events /\ posted' = posted /\ claimed' = claimed /\ stored' = stored
  BY DEF AdvanceCheck, telegram, history
<1>4. \/ proc' = IdleProc
      \/ /\ proc'.pc = "save" /\ proc'.event = proc.event /\ proc'.from = cursor
         /\ (cursor = 0 \/ proc.event.id = cursor + 1)
  BY <1>2 DEF AdvanceCheck, ProcSet
<1>5. ProcFits'
  BY <1>1, <1>2, <1>3, <1>4, Numbers DEF Fits, ProcFits
<1>6. HandPassed
  BY <1>2 DEF HandPassed, InHand, DroppedEvent
<1>7. RunFits' /\ SyncFits' /\ WaitPassed /\ MarkPassed
  BY <1>1, RunKept, SyncKept, MarkKept DEF Fits, AdvanceCheck, recovery, bulk, history
<1>8. QED
  BY <1>1, <1>5, <1>6, <1>7, GapsKept, Together DEF Fits, AdvanceCheck, recovery

LEMMA AdvanceSaveFits == ASSUME Inv, Typed', AdvanceSave PROVE Fits' /\ NoOtherHole'
<1>1. /\ Typed /\ Fits /\ Grows
      /\ proc \in ProcSet /\ proc # IdleProc /\ proc.pc = "save"
      /\ claimed' \in {claimed, proc.event.id}
  BY AdvanceSaveGrows DEF Inv, Fits, AdvanceSave
<1>2. events' = events /\ posted' = posted /\ proc' = IdleProc /\ stored' = stored
      /\ Excuse(IF proc.from = 0 THEN 1..(proc.event.id - 1) ELSE {})
  BY DEF AdvanceSave, telegram
<1>3. proc.event.id \in Msg /\ proc.from \in Nat /\ claimed \in Nat
      /\ stored'[proc.event.id] # NotStored
      /\ (proc.from # 0 => proc.event.id = proc.from + 1 /\ proc.from <= claimed)
  BY <1>1, <1>2, Numbers, Bounds DEF ProcSet, Event, Fits, ProcFits
<1>4. MarkPassed
  <2> SUFFICES ASSUME NEW m \in Msg, claimed < m, m <= claimed' PROVE Safe(m)'
    BY DEF MarkPassed
  <2>1. m <= proc.event.id /\ m \in 1..MaxMsg /\ proc.event.id \in 1..MaxMsg
    BY <1>1, <1>3, Bounds
  <2>2. CASE m = proc.event.id
    BY <1>3, <2>2 DEF Safe
  <2>3. CASE m < proc.event.id
    <3>1. proc.from = 0 /\ m \in 1..(proc.event.id - 1)
      BY <1>3, <2>1, <2>3
    <3>2. m \in excused'
      BY <1>2, <3>1 DEF Excuse
    <3>3. QED
      BY <3>2 DEF Safe
  <2>4. QED
    BY <2>1, <2>2, <2>3
<1>5. ProcFits' /\ HandPassed
  BY <1>1, <1>2 DEF Fits, ProcFits, HandPassed, InHand, DroppedEvent
<1>6. RunFits' /\ SyncFits' /\ WaitPassed
  BY <1>1, RunKept, SyncKept DEF Fits, AdvanceSave, recovery, bulk
<1>7. QED
  BY <1>1, <1>4, <1>5, <1>6, GapsKept, Together DEF Fits, AdvanceSave, recovery

LEMMA ProcessErrorFits == ASSUME Inv, Typed', ProcessError PROVE Fits' /\ NoOtherHole'
<1>1. Typed /\ Fits /\ Grows
  BY OthersGrow DEF Inv, Fits
<1>2. proc' = IdleProc /\ events' = events /\ posted' = posted
  BY DEF ProcessError, telegram
<1>3. ProcFits'
  BY <1>1, <1>2 DEF Fits, ProcFits
<1>4. HandPassed
  BY DEF ProcessError, HandPassed, InHand, Safe, Excuse
<1>5. RunFits' /\ SyncFits' /\ WaitPassed /\ MarkPassed
  BY <1>1, RunKept, SyncKept, MarkKept DEF Fits, ProcessError, recovery, bulk
<1>6. QED
  BY <1>1, <1>3, <1>4, <1>5, GapsKept, Together DEF Fits, ProcessError, recovery

-----------------------------------------------------------------------------
(* The steps: the gap worker.                                                *)

LEMMA ListGapsFits == ASSUME Inv, Typed', ListGaps PROVE Fits' /\ NoOtherHole'
<1>1. Typed /\ Fits /\ Grows
  BY OthersGrow DEF Inv, Fits
<1>2. \A item \in listed' : item.payload \in Settled
  BY <1>1 DEF ListGaps, QueuedGaps, Fits, GapsFit
<1>3. Settled \subseteq Settled' => GapsFit'
  BY <1>1, <1>2 DEF ListGaps, Fits, GapsFit
<1>4. ProcFits' /\ HandPassed /\ RunFits' /\ SyncFits' /\ WaitPassed /\ MarkPassed
  BY <1>1, ProcKept, RunKept, SyncKept, MarkKept DEF Fits, ListGaps, bulk, history
<1>5. QED
  BY <1>1, <1>3, <1>4, Together

LEMMA StartGapFits ==
    ASSUME Inv, Typed', NEW item \in listed, StartGap(item)
    PROVE  Fits' /\ NoOtherHole'
<1>1. Typed /\ Fits /\ Grows
  BY OthersGrow DEF Inv, Fits
<1>2. item.id \in GapId /\ item.payload \in Settled /\ item.payload \in Payload
  BY <1>1, TypedParts DEF Fits, GapsFit, Settled, GapsTyped
<1>3. /\ item.payload.to < item.payload.trigger /\ item.payload.trigger <= posted
      /\ item.payload.from \in Nat /\ item.payload.to \in Nat /\ item.payload.trigger \in Nat
  BY <1>2, PayloadFacts, Bounds DEF Settled
<1>4. gapRun' = IdleGap
      \/ /\ gapRun'.pc = "fetch" /\ gapRun'.payload = item.payload
         /\ gapRun'.offset = item.payload.trigger
  BY DEF StartGap
<1>5. /\ posted' = posted /\ gaps \in [GapId -> Gap]
      /\ \A g \in GapId : gaps'[g].status # "absent"
           => gaps[g].status # "absent" /\ gaps'[g].payload = gaps[g].payload
  BY <1>1, <1>2, TypedParts DEF StartGap, telegram, GapsTyped, Gap
<1>6. RunFits'
  BY <1>3, <1>4, <1>5 DEF RunFits
<1>7. Settled \subseteq Settled' => GapsFit'
  BY <1>1, <1>2, <1>4, <1>5 DEF StartGap, Fits, GapsFit
<1>8. ProcFits' /\ HandPassed /\ SyncFits' /\ WaitPassed /\ MarkPassed
  BY <1>1, ProcKept, SyncKept, MarkKept DEF Fits, StartGap, bulk, history
<1>9. QED
  BY <1>1, <1>6, <1>7, <1>8, Together

LEMMA FetchGapFits == ASSUME Inv, Typed', FetchGap PROVE Fits' /\ NoOtherHole'
<1> DEFINE page == FetchHistory(gapRun.offset, BatchSize)
<1>1. Typed /\ Fits /\ Grows
  BY OthersGrow DEF Inv, Fits
<1>2. gapRun \in RunSet /\ gapRun # IdleGap /\ gapRun.offset \in 1..MaxMsg /\ BatchSize \in Int
      /\ gapRun.offset \in 0..MaxMsg /\ gapRun.offset <= posted /\ posted \in Nat
      /\ gapRun.payload \in Payload
  BY <1>1, Running, Bounds, Numbers, ChannelHistoryAssumption DEF FetchGap, RunSet, Fits, RunFits
<1>3. /\ gapRun' = [gapRun EXCEPT !.pc = IF page = Nothing THEN "finish" ELSE "store", !.page = page]
      /\ Excuse(IF page = Nothing THEN gapRun.payload.from..(gapRun.offset - 1) ELSE {})
      /\ posted' = posted /\ version' = version
  BY DEF FetchGap, telegram
<1>4. /\ page \in Content
      /\ \A k \in Ids(page) : k \in Msg /\ k < gapRun.offset
      /\ \A m \in Msg, k \in Ids(page) :
           m <= posted /\ m < gapRun.offset /\ k <= m
             => m \in Ids(page) \/ m \in Service \/ version[m] = Erased
  <2>1. gapRun.offset # 0
    BY <1>2
  <2>2. QED
    BY <1>1, <1>2, <2>1, Fetched DEF Typed
<1> HIDE DEF page
<1>5. Ids(page) # {} => PageBelow(page, gapRun.offset)
  <2>1. \A m \in Msg : m < gapRun.offset => m <= posted
    BY <1>2, Bounds
  <2>2. QED
    BY <1>4, <2>1 DEF PageBelow, Whole
<1>6. /\ gapRun'.offset = gapRun.offset /\ gapRun'.payload = gapRun.payload /\ gapRun'.page = page
      /\ gapRun'.pc = IF page = Nothing THEN "finish" ELSE "store"
  BY <1>2, <1>3 DEF RunSet
<1>7. RunFits'
  <2>1. gapRun'.pc = "store" => PageBelow(gapRun.page, gapRun.offset)'
    <3>1. gapRun'.pc = "store" => PageBelow(page, gapRun.offset)
      BY <1>4, <1>5, <1>6, NothingIsEmpty
    <3>2. QED
      BY <1>3, <1>6, <3>1 DEF PageBelow, Whole
  <2>2. ASSUME NEW m \in gapRun.payload.from..gapRun.payload.to,
               gapRun'.pc = "finish" \/ gapRun.offset <= m
        PROVE  Safe(m)'
    <3>1. m \in Msg /\ m \in 1..MaxMsg /\ gapRun.payload.from \in Nat /\ gapRun.payload.from <= m
      BY <1>2, <2>2, PayloadFacts, Bounds
    <3>2. CASE gapRun.offset <= m
      BY <1>1, <1>2, <3>1, <3>2, SafeGrows DEF Fits, RunFits
    <3>3. CASE m < gapRun.offset
      <4>1. page = Nothing
        BY <1>2, <1>6, <2>2, <3>1, <3>3
      <4>2. m \in gapRun.payload.from..(gapRun.offset - 1)
        BY <1>2, <3>1, <3>3
      <4>3. m \in excused'
        BY <1>3, <3>1, <4>1, <4>2 DEF Excuse
      <4>4. QED
        BY <4>3 DEF Safe
    <3>4. QED
      BY <1>2, <3>1, <3>2, <3>3
  <2>3. gapRun'.pc # "end"
    BY <1>6
  <2>4. QED
    BY <1>2, <1>3, <1>6, <2>1, <2>2, <2>3 DEF RunFits, PageBelow, Whole
<1>8. Settled \subseteq Settled' => GapsFit'
  BY <1>1, <1>2, <1>6 DEF FetchGap, Fits, GapsFit
<1>9. ProcFits' /\ HandPassed /\ SyncFits' /\ WaitPassed /\ MarkPassed
  BY <1>1, ProcKept, SyncKept, MarkKept DEF Fits, FetchGap, bulk
<1>10. QED
  BY <1>1, <1>7, <1>8, <1>9, Together

LEMMA StoreGapFits == ASSUME Inv, Typed', StoreGap PROVE Fits' /\ NoOtherHole'
<1> DEFINE least == Smallest(Ids(gapRun.page))
<1>1. /\ Typed /\ Fits /\ Grows /\ gapRun # IdleGap
      /\ \A m \in Ids(gapRun.page) :
            m \in gapRun.payload.from..gapRun.payload.to => stored'[m] # NotStored
  BY StoreGapGrows, Running DEF Inv, Fits, StoreGap
<1>2. /\ gapRun \in RunSet /\ least \in Msg /\ least < gapRun.offset
      /\ gapRun' \in RunSet /\ gapRun'.payload = gapRun.payload /\ gapRun'.offset = least
      /\ gapRun'.pc = IF least <= gapRun.payload.from THEN "finish" ELSE "fetch"
      /\ PageBelow(gapRun.page, gapRun.offset)
  BY <1>1, StoreGapRun DEF Fits
<1>3. \A m \in Msg : least <= m /\ m < gapRun.offset
         => m \in Ids(gapRun.page) \/ m \in Service \/ version[m] = Erased
  BY <1>2, LeastOfPage
<1> HIDE DEF least
<1>4. /\ gapRun.offset \in 1..MaxMsg /\ least \in 1..MaxMsg /\ gapRun.offset <= posted
      /\ posted \in Nat /\ posted' = posted /\ version' = version
      /\ gapRun.payload.from \in 1..MaxMsg /\ gapRun.payload.to \in 1..MaxMsg
  BY <1>1, <1>2, PayloadFacts, Numbers, Bounds DEF RunSet, Fits, RunFits, StoreGap, telegram
<1>5. ASSUME NEW m \in gapRun.payload.from..gapRun.payload.to,
             gapRun'.pc = "finish" \/ least <= m
      PROVE  Safe(m)'
  <2>1. m \in Msg /\ m \in 1..MaxMsg /\ least <= m
    BY <1>2, <1>4, <1>5, Bounds
  <2>2. CASE gapRun.offset <= m
    BY <1>1, <2>1, <2>2, SafeGrows DEF Fits, RunFits
  <2>3. CASE m < gapRun.offset
    BY <1>1, <1>3, <1>4, <2>1, <2>3 DEF Safe
  <2>4. QED
    BY <1>4, <2>1, <2>2, <2>3
<1>6. RunFits'
  BY <1>2, <1>4, <1>5 DEF RunFits
<1>7. Settled \subseteq Settled' => GapsFit'
  BY <1>1, <1>2 DEF StoreGap, Fits, GapsFit
<1>8. ProcFits' /\ HandPassed /\ SyncFits' /\ WaitPassed /\ MarkPassed
  BY <1>1, ProcKept, SyncKept, MarkKept DEF Fits, StoreGap, bulk, history
<1>9. QED
  BY <1>1, <1>6, <1>7, <1>8, Together

LEMMA FinishGapFits == ASSUME Inv, Typed', FinishGap PROVE Fits' /\ NoOtherHole'
<1>1. /\ Typed /\ Fits /\ Grows /\ gapRun \in RunSet /\ gapRun # IdleGap
      /\ claimed' \in {claimed, gapRun.payload.trigger}
  BY FinishGapGrows DEF Inv, Fits
<1>2. /\ gapRun.pc = "finish" /\ gapRun'.pc = "end" /\ gapRun'.payload = gapRun.payload
      /\ gapRun'.offset = gapRun.offset /\ gapRun.offset \in 1..MaxMsg
      /\ gapRun.offset <= posted /\ posted' = posted
  BY <1>1, Bounds DEF FinishGap, RunSet, Fits, RunFits, telegram
<1>3. \A m \in gapRun.payload.from..gapRun.payload.to : Safe(m)'
  <2>1. gapRun.payload.from..gapRun.payload.to \subseteq Msg
    BY <1>1, PayloadFacts, Bounds DEF RunSet
  <2>2. QED
    BY <1>1, <1>2, <2>1, SafeGrows DEF Fits, RunFits
<1>4. RunFits'
  BY <1>2, <1>3 DEF RunFits
<1>5. ProcFits' /\ HandPassed /\ SyncFits' /\ WaitPassed
  BY <1>1, ProcKept, SyncKept DEF Fits, FinishGap, bulk
<1>6. MarkPassed
  <2> SUFFICES ASSUME NEW m \in Msg, claimed < m, m <= claimed'
               PROVE  Safe(m)' \/ m \in InHand'
    BY DEF MarkPassed
  <2> DEFINE p == gapRun.payload
  <2>1. /\ p.from \in Nat /\ p.to \in Nat /\ p.trigger \in Msg /\ m \in Nat /\ claimed \in Nat
        /\ p.from <= claimed + 1 /\ p.trigger = p.to + 1
        /\ (Safe(p.trigger) \/ p.trigger \in InHand)
    BY <1>1, PayloadFacts, Numbers, Bounds DEF Fits, GapsFit, Settled
  <2>2. m <= p.trigger
    BY <1>1, <2>1
  <2>3. CASE m = p.trigger
    BY <1>1, <1>5, <2>1, <2>3, SafeGrows DEF HandPassed
  <2>4. CASE m # p.trigger
    <3>1. m \in p.from..p.to
      BY <2>1, <2>2, <2>4
    <3>2. QED
      BY <1>3, <3>1
  <2>5. QED
    BY <2>3, <2>4
<1>7. Settled \subseteq Settled' => GapsFit'
  BY <1>1, <1>2 DEF FinishGap, Fits, GapsFit
<1>8. QED
  BY <1>1, <1>4, <1>5, <1>6, <1>7, Together

\* A run that ends leaves its row and its request as they are.
LEMMA EndedFits ==
    ASSUME Inv, Typed', NEW outcome \in {"succeeded", "failed"}, EndGap(outcome),
           UNCHANGED <<telegram, live, stored, cursor, listed, bulk, history>>
    PROVE  Fits' /\ NoOtherHole'
<1>1. Typed /\ Fits /\ Grows
  BY Numbers DEF Inv, Grows, telegram, history
<1>2. /\ gapRun' = IdleGap
      /\ \A g \in GapId : gaps'[g].payload = gaps[g].payload
      /\ \A g \in GapId : gaps'[g].status # "absent" => gaps[g].status # "absent"
  BY <1>1, Ended
<1>3. RunFits' /\ (Settled \subseteq Settled' => GapsFit')
  BY <1>1, <1>2 DEF RunFits, Fits, GapsFit
<1>4. ProcFits' /\ HandPassed /\ SyncFits' /\ WaitPassed /\ MarkPassed
  BY <1>1, ProcKept, SyncKept, MarkKept DEF Fits, bulk, history
<1>5. QED
  BY <1>1, <1>3, <1>4, Together

LEMMA RetryGapFits == ASSUME Inv, Typed', NEW g \in GapId, RetryGap(g) PROVE Fits' /\ NoOtherHole'
<1>1. Typed /\ Fits /\ Grows
  BY OthersGrow DEF Inv, Fits
<1>2. \A k \in GapId : gaps'[k].payload = gaps[k].payload
         /\ (gaps'[k].status # "absent" => gaps[k].status # "absent")
  BY <1>1, TypedParts DEF RetryGap, GapsTyped, Gap
<1>3. Settled \subseteq Settled' => GapsFit'
  BY <1>1, <1>2 DEF RetryGap, Fits, GapsFit
<1>4. ProcFits' /\ HandPassed /\ RunFits' /\ SyncFits' /\ WaitPassed /\ MarkPassed
  BY <1>1, ProcKept, RunKept, SyncKept, MarkKept DEF Fits, RetryGap, bulk, history
<1>5. QED
  BY <1>1, <1>3, <1>4, Together

\* The cool-down is nobody's business here, and a stutter is none at all.
LEMMA IdleFits ==
    ASSUME Inv, Typed', CooldownLifts \/ UNCHANGED vars
    PROVE  Fits' /\ NoOtherHole'
<1>1. Typed /\ Fits /\ Grows
  BY OthersGrow DEF Inv, Fits
<1>2. UNCHANGED <<live, gaps, listed, gapRun, sync, claimed>>
  BY DEF CooldownLifts, vars, live, bulk, history
<1>3. QED
  BY <1>1, <1>2, ProcKept, RunKept, SyncKept, MarkKept, GapsKept, Together DEF Fits

-----------------------------------------------------------------------------
(* The steps: the syncs and the process.                                     *)

\* A sync that begins has fetched nothing.
LEMMA BeganFits ==
    ASSUME Inv, Typed', NEW kind \in {"history", "backlog"}, NEW limit \in Profiles \cup {0},
           kind = "backlog" => limit = 0,
           sync = IdleSync, Begin(kind, limit),
           UNCHANGED <<telegram, live, stored, cursor, recovery, faults, history>>
    PROVE  Fits' /\ NoOtherHole'
<1>1. Typed /\ Fits /\ Grows
  BY Numbers DEF Inv, Grows, telegram, history
<1>2. SyncFits'
  BY Began, Numbers, <1>1 DEF SyncFits, telegram, history
<1>3. WaitPassed
  BY DEF WaitPassed, Waiting
<1>4. ProcFits' /\ HandPassed /\ RunFits' /\ MarkPassed
  BY <1>1, ProcKept, RunKept, MarkKept DEF Fits, recovery, history
<1>5. QED
  BY <1>1, <1>2, <1>3, <1>4, GapsKept, Together DEF Fits, recovery

LEMMA StartHistoryFits ==
    ASSUME Inv, Typed', NEW limit \in Profiles, StartHistory(limit)
    PROVE  Fits' /\ NoOtherHole'
  BY BeganFits DEF StartHistory

LEMMA StartBacklogFits == ASSUME Inv, Typed', StartBacklog PROVE Fits' /\ NoOtherHole'
<1>1. CASE sync = IdleSync
  BY <1>1, BeganFits DEF StartBacklog
<1>2. CASE sync # IdleSync
  <2>1. Typed /\ Fits /\ Grows
    BY OthersGrow DEF Inv, Fits
  <2>2. UNCHANGED sync
    BY <1>2 DEF StartBacklog
  <2>3. QED
    BY <2>1, <2>2, ProcKept, RunKept, SyncKept, MarkKept, GapsKept, Together
    DEF Fits, StartBacklog, recovery, history
<1>3. QED
  BY <1>1, <1>2

LEMMA BeginAttemptFits == ASSUME Inv, Typed', BeginAttempt PROVE Fits' /\ NoOtherHole'
<1>1. Typed /\ Fits /\ Grows
  BY OthersGrow DEF Inv, Fits
<1>2. sync \in SyncSet /\ sync # IdleSync /\ sync.pc = "begin" /\ sync.limit \in Nat
      /\ cursor \in Nat /\ claimed \in Nat /\ posted \in Nat /\ cursor <= claimed
      /\ posted' = posted /\ claimed' = claimed
  <2>1. sync \in SyncSet /\ sync # IdleSync /\ sync.pc = "begin"
    BY <1>1, Paging DEF BeginAttempt
  <2>2. sync.limit \in Nat
    <3>1. \A n \in Profiles \cup {0} : n \in Nat
      BY ChannelHistoryAssumption
    <3>2. sync.limit \in Profiles \cup {0}
      BY <2>1 DEF SyncSet
    <3>3. QED
      BY <3>1, <3>2, Zenon
  <2>3. QED
    BY <1>1, <2>1, <2>2, Numbers DEF BeginAttempt, telegram, history
<1>3. WaitPassed
  BY <1>1, <1>2 DEF WaitPassed, Waiting, Fits, SyncFits
<1>4. SyncFits'
  <2>1. CASE sync' = IdleSync
    BY <2>1 DEF SyncFits
  <2>2. CASE /\ sync' \in SyncSet
             /\ sync'.pc = "fetch" /\ sync'.kind = sync.kind /\ sync'.limit = sync.limit
             /\ sync'.offset = 0 /\ sync'.maxSeen = 0 /\ sync'.count = 0
             /\ sync'.lower \in {0, cursor}
    <3>1. /\ sync'.lower <= claimed' /\ sync'.maxSeen <= posted'
          /\ sync'.kind = "backlog" => sync'.limit = 0
          /\ sync'.limit # 0 => sync'.count < sync'.limit
      BY <1>1, <1>2, <2>2 DEF Fits, SyncFits
    <3>2. QED
      BY <2>2, <3>1 DEF SyncFits
  <2>3. QED
    BY <1>1, <2>1, <2>2, BeginAttemptRun
<1>5. ProcFits' /\ HandPassed /\ RunFits' /\ MarkPassed
  BY <1>1, ProcKept, RunKept, MarkKept DEF Fits, BeginAttempt, recovery, history
<1>6. QED
  BY <1>1, <1>3, <1>4, <1>5, GapsKept, Together DEF Fits, BeginAttempt, recovery

LEMMA FetchSyncFits == ASSUME Inv, Typed', FetchSync PROVE Fits' /\ NoOtherHole'
<1>1. Typed /\ Fits /\ Grows
  BY OthersGrow DEF Inv, Fits
<1>2. sync \in SyncSet /\ sync # IdleSync /\ sync.pc = "fetch"
  BY <1>1, FetchSyncRun DEF FetchSync, Fits
<1>3. /\ posted' = posted /\ claimed' = claimed /\ version' = version
      /\ posted \in Nat /\ claimed \in Nat /\ claimed <= posted
  BY <1>1, Numbers DEF FetchSync, telegram, Typed
<1>4. ASSUME EndSync PROVE SyncFits' /\ WaitPassed
  BY <1>4 DEF EndSync, Excuse, SyncFits, WaitPassed, Waiting, Safe
<1>5. ASSUME Ids(Page) # {}, Newest > sync.lower, UNCHANGED excused, sync' \in SyncSet,
             sync'.pc = "store", sync'.kind = sync.kind, sync'.limit = sync.limit,
             sync'.lower = sync.lower, sync'.offset = sync.offset,
             sync'.maxSeen = Newest, sync'.page = Page
      PROVE  SyncFits' /\ WaitPassed
  <2>1. WaitPassed
    BY <1>2, <1>5 DEF WaitPassed, Waiting, Unfetched, IdleSync
  <2>2. /\ \A k \in Ids(Page) : k \in Msg /\ k <= posted /\ (sync.offset = 0 \/ k < sync.offset)
        /\ \A m \in Msg, k \in Ids(Page) :
             m <= posted /\ (sync.offset = 0 \/ m < sync.offset) /\ k <= m
               => m \in Ids(Page) \/ m \in Service \/ version[m] = Erased
        /\ Newest \in Ids(Page) \cup {sync.maxSeen}
        /\ sync.maxSeen <= Newest /\ \A k \in Ids(Page) : k <= Newest
        /\ Newest \in 0..MaxMsg /\ Newest <= posted
    BY <1>1, <1>2, SyncPage DEF Fits
  <2>3. /\ sync.lower <= claimed /\ (sync.kind = "backlog" => sync.limit = 0)
        /\ sync.offset # 0 => sync.offset <= sync.maxSeen /\ sync.maxSeen <= claimed
        /\ sync.offset = 0 => sync.maxSeen = 0
        /\ sync.offset \in Nat /\ sync.maxSeen \in Nat
    BY <1>1, <1>2, Bounds DEF Fits, SyncFits, SyncSet
  <2>4. CASE sync.offset # 0
    <3>1. Newest <= claimed /\ sync.offset <= Newest
      BY <1>3, <2>2, <2>3, <2>4, Bounds
    <3>2. \A m \in Msg : m < sync.offset => m <= posted
      BY <1>3, <2>3, <2>4, <3>1, Bounds
    <3>3. PageBelow(Page, sync.offset)
      BY <1>5, <2>2, <2>4, <3>2 DEF PageBelow, Whole
    <3>4. PageBelow(sync.page, sync.offset)'
      BY <1>3, <1>5, <3>3 DEF PageBelow, Whole
    <3>5. /\ sync'.lower <= claimed' /\ sync'.maxSeen <= posted'
          /\ sync'.kind = "backlog" => sync'.limit = 0
          /\ sync'.offset <= sync'.maxSeen /\ sync'.maxSeen <= claimed'
      BY <1>3, <1>5, <2>2, <2>3, <3>1
    <3>6. SyncFits'
      BY <1>5, <2>4, <3>4, <3>5 DEF SyncFits
    <3>7. QED
      BY <2>1, <3>6
  <2>5. CASE sync.offset = 0
    <3>1. Newest \in Ids(Page)
      <4>1. PICK k \in Ids(Page) : k \in 1..MaxMsg /\ k <= Newest
        BY <1>5, <2>2, Bounds
      <4>2. QED
        BY <2>2, <2>3, <2>5, <4>1
    <3>2. \A m \in Msg : m < Newest + 1 => m <= posted /\ m \in Nat
      BY <1>3, <2>2, Bounds
    <3>3. \A k \in Ids(Page) : k < Newest + 1
      BY <2>2, Bounds
    <3>4. PageBelow(Page, Newest + 1)
      BY <1>5, <2>2, <2>5, <3>2, <3>3 DEF PageBelow, Whole
    <3>5. PageBelow(sync.page, sync.maxSeen + 1)'
      BY <1>3, <1>5, <3>4 DEF PageBelow, Whole
    <3>6. /\ sync'.lower <= claimed' /\ sync'.maxSeen <= posted'
          /\ sync'.kind = "backlog" => sync'.limit = 0
          /\ sync'.maxSeen \in Ids(sync'.page) /\ sync'.lower < sync'.maxSeen
      BY <1>2, <1>3, <1>5, <2>2, <2>3, <3>1, Bounds DEF SyncSet
    <3>7. SyncFits'
      <4>1. Ids(sync.page)' = Ids(sync'.page)
        BY DEF Ids
      <4>2. QED
        BY <1>5, <2>5, <3>5, <3>6, <4>1 DEF SyncFits
    <3>8. QED
      BY <2>1, <3>7
  <2>6. QED
    BY <2>4, <2>5
<1>6. SyncFits' /\ WaitPassed
  BY <1>1, <1>4, <1>5, FetchSyncRun DEF Fits
<1>7. ProcFits' /\ HandPassed /\ RunFits' /\ MarkPassed
  BY <1>1, <1>3, ProcKept, RunKept, MarkKept DEF Fits, FetchSync, recovery
<1>8. QED
  BY <1>1, <1>6, <1>7, GapsKept, Together DEF Fits, FetchSync, recovery

\* After the first page the cursor's mark is the newest message seen.
LEMMA StoreSyncMark == ASSUME Typed, SyncFits, StoreSync PROVE sync.maxSeen <= claimed'
<1>1. sync \in SyncSet /\ sync # IdleSync /\ sync.pc = "store"
  BY SyncLeast DEF StoreSync
<1>2. sync.maxSeen \in 0..posted /\ sync.page \in Content /\ sync.lower \in 0..MaxMsg
  BY <1>1 DEF SyncSet, SyncFits
<1>3. CASE SaveCursor(sync.maxSeen)
  BY <1>2, <1>3, SaveCursorTyped DEF StoreSync, telegram
<1>4. CASE AboveLower(sync.page) = Nothing /\ KeepCursor
  <2>1. Ids(AboveLower(sync.page)) = {}
    BY <1>4, NothingIsEmpty
  <2>2. Ids(sync.page) \cap ((sync.lower + 1)..MaxMsg) = {}
    BY <1>2, <2>1, KeepTyped DEF AboveLower
  <2>3. sync.offset # 0
    <3>1. SUFFICES ASSUME sync.offset = 0 PROVE FALSE
      OBVIOUS
    <3>2. sync.maxSeen \in Ids(sync.page) /\ sync.lower < sync.maxSeen
      BY <1>1, <3>1 DEF SyncFits
    <3>3. sync.maxSeen \in (sync.lower + 1)..MaxMsg
      BY <1>1, <1>2, <3>2, Bounds DEF SyncSet
    <3>4. QED
      BY <2>2, <3>2, <3>3
  <2>4. QED
    BY <1>1, <1>4, <2>3 DEF SyncFits, KeepCursor
<1>5. QED
  BY <1>3, <1>4 DEF StoreSync

LEMMA StoreSyncFits == ASSUME Inv, Typed', StoreSync PROVE Fits' /\ NoOtherHole'
<1>1. /\ Typed /\ Fits /\ Grows
      /\ claimed' \in {claimed, sync.maxSeen} /\ sync.maxSeen <= claimed'
      /\ \A m \in Ids(sync.page) : sync.lower < m => stored'[m] # NotStored
  BY StoreSyncGrows, StoreSyncMark DEF Inv, Fits
<1>2. /\ sync \in SyncSet /\ sync # IdleSync
      /\ Least \in Msg /\ Least < Above /\ Least <= sync.maxSeen
      /\ \A m \in Msg : Least <= m /\ m < Above
           => m \in Ids(sync.page) \/ m \in Service \/ version[m] = Erased
  BY <1>1, SyncLeast DEF Fits, StoreSync
<1>3. /\ sync.lower \in Nat /\ sync.offset \in Nat /\ sync.maxSeen \in Nat
      /\ posted \in Nat /\ claimed \in Nat /\ claimed' \in Nat /\ claimed <= claimed'
      /\ sync.lower <= claimed /\ sync.maxSeen <= posted
      /\ (sync.kind = "backlog" => sync.limit = 0)
      /\ (sync.offset # 0 => sync.offset <= sync.maxSeen /\ sync.maxSeen <= claimed)
      /\ posted' = posted /\ version' = version
  BY <1>1, <1>2, Numbers, Bounds DEF SyncSet, Fits, SyncFits, StoreSync, telegram, Grows, Typed, TypeOK
<1>4. \A m \in Msg : sync.lower < m /\ Least <= m /\ m < Above => Safe(m)'
  BY <1>1, <1>2, <1>3 DEF Safe
<1>5. \/ /\ sync' = IdleSync
         /\ \A m \in Msg : sync.lower < m /\ m < Least => Safe(m)'
      \/ /\ ~ReachedLower(Least) /\ sync' \in SyncSet
         /\ sync'.pc = "fetch" /\ sync'.kind = sync.kind /\ sync'.limit = sync.limit
         /\ sync'.lower = sync.lower /\ sync'.offset = Least
         /\ sync'.maxSeen = sync.maxSeen /\ sync'.count = sync.count
         /\ \A m \in Msg : sync.lower < m /\ m < Least => m \in Waiting'
  <2>1. ASSUME NEW m \in Msg, sync.lower < m, m < Least PROVE m \in (sync.lower + 1)..(Least - 1)
    BY <1>2, <1>3, <2>1, Bounds
  <2>2. CASE sync' = IdleSync /\ Excuse((sync.lower + 1)..(Least - 1))
    BY <2>1, <2>2 DEF Excuse, Safe
  <2>3. CASE /\ ~ReachedLower(Least) /\ UNCHANGED excused
             /\ sync' \in SyncSet
             /\ sync'.pc = "fetch" /\ sync'.kind = sync.kind /\ sync'.limit = sync.limit
             /\ sync'.lower = sync.lower /\ sync'.offset = Least
             /\ sync'.maxSeen = sync.maxSeen /\ sync'.count = sync.count
    <3>1. sync' # IdleSync /\ Least # 0
      BY <1>2, <2>3, Bounds DEF IdleSync
    <3>2. Waiting' = (sync.lower + 1)..(Least - 1)
      BY <2>3, <3>1 DEF Waiting, Unfetched
    <3>3. QED
      BY <2>1, <2>3, <3>2
  <2>4. QED
    BY <1>1, <2>2, <2>3, StoreSyncRun DEF Fits
<1>6. \A m \in Msg : sync.lower < m /\ m < Above => Safe(m)' \/ m \in Waiting'
  <2>1. \A m \in Msg : m < Least \/ Least <= m
    BY <1>2, Bounds
  <2>2. QED
    BY <1>4, <1>5, <2>1
<1>7. WaitPassed
  <2> SUFFICES ASSUME NEW m \in Msg, m \in Waiting PROVE m \in Waiting' \/ Safe(m)'
    BY DEF WaitPassed
  <2>1. sync.offset # 0 /\ m \in (sync.lower + 1)..(sync.offset - 1)
    BY DEF Waiting, Unfetched
  <2>2. sync.lower < m /\ m < Above
    BY <1>3, <2>1 DEF Above
  <2>3. QED
    BY <1>6, <2>2
<1>8. MarkPassed
  <2> SUFFICES ASSUME NEW m \in Msg, claimed < m, m <= claimed'
               PROVE  Safe(m)' \/ m \in Waiting'
    BY DEF MarkPassed
  <2>1. m \in Nat /\ claimed' = sync.maxSeen /\ sync.offset = 0
    BY <1>1, <1>3, Bounds
  <2>2. sync.lower < m /\ m < Above
    BY <1>3, <2>1 DEF Above
  <2>3. QED
    BY <1>6, <2>2
<1>9. SyncFits'
  <2>1. CASE sync' = IdleSync
    BY <2>1 DEF SyncFits
  <2>2. CASE /\ ~ReachedLower(Least) /\ sync' \in SyncSet
             /\ sync'.pc = "fetch" /\ sync'.kind = sync.kind /\ sync'.limit = sync.limit
             /\ sync'.lower = sync.lower /\ sync'.offset = Least
             /\ sync'.maxSeen = sync.maxSeen /\ sync'.count = sync.count
    <3>1. /\ sync'.lower <= claimed' /\ sync'.maxSeen <= posted'
          /\ sync'.kind = "backlog" => sync'.limit = 0
          /\ sync'.offset <= sync'.maxSeen /\ sync'.maxSeen <= claimed'
          /\ sync'.offset # 0
      BY <1>1, <1>2, <1>3, <2>2, Bounds
    <3>2. sync'.limit # 0 => sync'.count < sync'.limit
      <4>1. sync.limit \in Nat /\ sync.count \in Nat
        <5>1. \A n \in Profiles \cup {0} : n \in Nat
          BY ChannelHistoryAssumption
        <5>2. sync.limit \in Profiles \cup {0} /\ sync.count \in Nat
          BY <1>2 DEF SyncSet
        <5>3. QED
          BY <5>1, <5>2, Zenon
      <4>2. sync.limit # 0 => sync.kind # "backlog" /\ sync.limit > 0
        BY <1>3, <4>1
      <4>3. sync.limit # 0 => ~(sync.count >= sync.limit)
        BY <2>2, <4>2 DEF ReachedLower
      <4>4. QED
        BY <2>2, <4>1, <4>3
    <3>3. QED
      BY <2>2, <3>1, <3>2 DEF SyncFits
  <2>3. QED
    BY <1>5, <2>1, <2>2
<1>10. ProcFits' /\ HandPassed /\ RunFits'
  BY <1>1, ProcKept, RunKept DEF Fits, StoreSync, recovery
<1>11. QED
  BY <1>1, <1>7, <1>8, <1>9, <1>10, GapsKept, Together DEF Fits, StoreSync, recovery

LEMMA SyncErrorFits == ASSUME Inv, Typed', SyncError PROVE Fits' /\ NoOtherHole'
<1>1. Typed /\ Fits /\ Grows
  BY OthersGrow DEF Inv, Fits
<1>2. sync # IdleSync /\ Excuse(Unfetched) /\ claimed' = claimed /\ posted' = posted
      /\ claimed \in Nat /\ posted \in Nat
  BY <1>1, Numbers DEF SyncError, telegram
<1>3. WaitPassed
  BY <1>2 DEF WaitPassed, Waiting, Excuse, Safe
<1>4. SyncFits'
  <2>1. CASE sync' = IdleSync
    BY <2>1 DEF SyncFits
  <2>2. CASE /\ sync' \in SyncSet
             /\ sync'.pc = "begin" /\ sync'.kind = sync.kind /\ sync'.limit = sync.limit
             /\ sync'.lower = 0 /\ sync'.offset = 0 /\ sync'.maxSeen = 0
    BY <1>1, <1>2, <2>2 DEF Fits, SyncFits
  <2>3. QED
    BY <1>1, <2>1, <2>2, SyncErrorRun
<1>5. ProcFits' /\ HandPassed /\ RunFits' /\ MarkPassed
  BY <1>1, <1>2, ProcKept, RunKept, MarkKept DEF Fits, SyncError, recovery
<1>6. QED
  BY <1>1, <1>3, <1>4, <1>5, GapsKept, Together DEF Fits, SyncError, recovery

LEMMA CrashFits == ASSUME Inv, Typed', Crash PROVE Fits' /\ NoOtherHole'
<1>1. Typed /\ Fits /\ Grows
  BY OthersGrow DEF Inv, Fits
<1>2. /\ events' = <<>> /\ proc' = IdleProc /\ listed' = {} /\ gapRun' = IdleGap
      /\ sync' = IdleSync /\ claimed' = claimed
  BY DEF Crash
<1>3. ProcFits' /\ RunFits' /\ SyncFits'
  BY <1>2 DEF ProcFits, RunFits, SyncFits
<1>4. HandPassed /\ WaitPassed
  BY DEF Crash, Excuse, HandPassed, WaitPassed, InHand, Waiting, Safe
<1>5. Settled \subseteq Settled' => GapsFit'
  BY <1>1, <1>2, CrashedGaps DEF Fits, GapsFit
<1>6. QED
  BY <1>1, <1>2, <1>3, <1>4, <1>5, MarkKept, Together

-----------------------------------------------------------------------------
(* The invariant.                                                           *)

LEMMA InvInit == Init => Inv
<1> SUFFICES ASSUME Init PROVE Inv
  OBVIOUS
<1>1. Typed
  <2>1. <<>> \in Seq(Event) /\ Len(<<>>) <= QueueSize
    BY EmptySeq, ChannelHistoryAssumption
  <2>2. 0 \in 0..MaxMsg /\ 0 \in 0..MaxFaults
    BY ChannelHistoryAssumption
  <2>3. TelegramTyped /\ LiveTyped /\ SyncTyped
    BY <2>1, <2>2 DEF Init, TelegramTyped, LiveTyped, SyncTyped, Version
  <2>4. StoreTyped
    BY <2>2, NothingIsEmpty DEF Init, StoreTyped
  <2>5. GapsTyped
    BY DEF Init, GapsTyped, Gap
  <2>6. QED
    BY <2>3, <2>4, <2>5, TypedParts
<1>2. Fits
  BY DEF Init, Fits, ProcFits, GapsFit, RunFits, SyncFits
<1>3. NoOtherHole
  BY DEF Init, NoOtherHole
<1>4. QED
  BY <1>1, <1>2, <1>3 DEF Inv

LEMMA InvStep == Inv /\ [Next]_vars => Inv'
<1> SUFFICES ASSUME Inv, [Next]_vars PROVE Inv'
  OBVIOUS
<1>1. Typed /\ ProcFits /\ GapsFit /\ RunFits /\ SyncFits
  BY DEF Inv, Fits
<1>2. CASE Post
  BY <1>1, <1>2, PostTyped, PostFits DEF Inv
<1>3. ASSUME NEW m \in Changing, NEW v \in 1..2, Change(m, v) PROVE Inv'
  BY <1>1, <1>3, ChangeTyped, ChangeFits DEF Inv
<1>4. CASE Processor
  <2>1. CASE TakeEvent
    BY <1>1, <2>1, TakeEventTyped, TakeEventFits DEF Inv
  <2>2. CASE EnqueueGapRecovery
    BY <1>1, <2>2, EnqueueTyped, EnqueueFits DEF Inv
  <2>3. CASE StoreMessage
    BY <1>1, <2>3, StoreMessageTyped, StoreMessageFits DEF Inv
  <2>4. CASE AdvanceCheck
    BY <1>1, <2>4, AdvanceCheckTyped, AdvanceCheckFits DEF Inv
  <2>5. CASE AdvanceSave
    BY <1>1, <2>5, AdvanceSaveTyped, AdvanceSaveFits DEF Inv
  <2>6. QED
    BY <1>4, <2>1, <2>2, <2>3, <2>4, <2>5 DEF Processor
<1>5. CASE ProcessError
  BY <1>1, <1>5, ProcessErrorTyped, ProcessErrorFits DEF Inv
<1>6. CASE GapWorker
  <2>1. CASE ListGaps
    BY <1>1, <2>1, ListGapsTyped, ListGapsFits DEF Inv
  <2>2. ASSUME NEW item \in listed, StartGap(item) PROVE Inv'
    BY <1>1, <2>2, StartGapTyped, StartGapFits DEF Inv
  <2>3. CASE FetchGap
    BY <1>1, <2>3, FetchGapTyped, FetchGapFits DEF Inv
  <2>4. CASE StoreGap
    BY <1>1, <2>4, StoreGapTyped, StoreGapFits DEF Inv
  <2>5. CASE FinishGap
    BY <1>1, <2>5, FinishGapTyped, FinishGapFits DEF Inv
  <2>6. CASE GapSucceeds
    <3>1. Typed' /\ EndGap("succeeded")
          /\ UNCHANGED <<telegram, live, stored, cursor, listed, bulk, history>>
      BY <1>1, <2>6, GapSucceedsTyped DEF GapSucceeds
    <3>2. QED
      BY <3>1, EndedFits DEF Inv
  <2>7. QED
    BY <1>6, <2>1, <2>2, <2>3, <2>4, <2>5, <2>6 DEF GapWorker
<1>7. CASE GapFails
  <2>1. Typed' /\ EndGap("failed")
        /\ UNCHANGED <<telegram, live, stored, cursor, listed, bulk, history>>
    BY <1>1, <1>7, GapFailsTyped DEF GapFails
  <2>2. QED
    BY <2>1, EndedFits DEF Inv
<1>8. CASE CooldownLifts
  BY <1>1, <1>8, CooldownTyped, IdleFits DEF Inv
<1>9. ASSUME NEW g \in GapId, RetryGap(g) PROVE Inv'
  BY <1>1, <1>9, RetryGapTyped, RetryGapFits DEF Inv
<1>10. ASSUME NEW limit \in Profiles, StartHistory(limit) PROVE Inv'
  BY <1>1, <1>10, StartHistoryTyped, StartHistoryFits DEF Inv
<1>11. CASE StartBacklog
  BY <1>1, <1>11, StartBacklogTyped, StartBacklogFits DEF Inv
<1>12. CASE Sync
  <2>1. CASE BeginAttempt
    BY <1>1, <2>1, BeginAttemptTyped, BeginAttemptFits DEF Inv
  <2>2. CASE FetchSync
    BY <1>1, <2>2, FetchSyncTyped, FetchSyncFits DEF Inv
  <2>3. CASE StoreSync
    BY <1>1, <2>3, StoreSyncTyped, StoreSyncFits DEF Inv
  <2>4. QED
    BY <1>12, <2>1, <2>2, <2>3 DEF Sync
<1>13. CASE SyncError
  BY <1>1, <1>13, SyncErrorTyped, SyncErrorFits DEF Inv
<1>14. CASE Crash
  BY <1>1, <1>14, CrashTyped, CrashFits DEF Inv
<1>15. CASE UNCHANGED vars
  <2>1. Typed'
    BY <1>1, <1>15 DEF Typed, TypeOK, vars
  <2>2. QED
    BY <1>15, <2>1, IdleFits DEF Inv
<1>16. QED
  BY <1>2, <1>3, <1>4, <1>5, <1>6, <1>7, <1>8, <1>9, <1>10, <1>11, <1>12, <1>13, <1>14, <1>15
  DEF Next

LEMMA Invariance == Spec => []Inv
<1>1. Init => Inv
  BY InvInit
<1>2. Inv /\ [Next]_vars => Inv'
  BY InvStep
<1>3. QED
  BY <1>1, <1>2, PTL DEF Spec

-----------------------------------------------------------------------------
(* The theorems.                                                            *)

\* Every state of the channel's history is well typed, for any numbers of
\* messages, gap rows, retries and faults: above all, no gap recovery is ever
\* queued, listed or run with a range that RecoverGapWithProgress rejects.
THEOREM TypeCorrect == Spec => []TypeOK
<1>1. Inv => TypeOK
  BY DEF Inv, Typed
<1>2. QED
  BY <1>1, Invariance, PTL

\* No message up to the highest cursor value is lost but in the ways Excuse
\* records, whatever the live updates, gap recoveries, syncs, retries and
\* restarts do to each other.
THEOREM NoOtherHoleCorrect == Spec => []NoOtherHole
<1>1. Inv => NoOtherHole
  BY DEF Inv
<1>2. QED
  BY <1>1, Invariance, PTL

LEMMA GapPagesDescend ==
    ASSUME Inv, [Next]_vars, gapRun.pc = "store", gapRun'.pc = "fetch"
    PROVE  gapRun'.offset < gapRun.offset
<1>1. gapRun # IdleGap
  BY Busy
<1>2. CASE StoreGap
  BY <1>2, StoreGapRun DEF Inv, Fits
<1>3. CASE ~StoreGap
  <2>1. CASE Post \/ (\E m \in Changing, v \in 1..2 : Change(m, v)) \/ UNCHANGED vars
    BY <1>1, <2>1 DEF Post, Change, vars, recovery
  <2>2. CASE Processor \/ ProcessError
    BY <1>1, <2>2
    DEF Processor, TakeEvent, EnqueueGapRecovery, StoreMessage, AdvanceCheck, AdvanceSave,
        ProcessError, recovery
  <2>3. CASE GapWorker
    BY <1>1, <1>3, <2>3
    DEF GapWorker, ListGaps, StartGap, FetchGap, FinishGap, GapSucceeds, EndGap, IdleGap
  <2>4. CASE GapFails \/ CooldownLifts \/ (\E g \in GapId : RetryGap(g)) \/ Crash
    BY <1>1, <2>4 DEF GapFails, EndGap, CooldownLifts, RetryGap, Crash, IdleGap
  <2>5. CASE (\E limit \in Profiles : StartHistory(limit)) \/ StartBacklog \/ Sync \/ SyncError
    BY <1>1, <2>5
    DEF StartHistory, StartBacklog, Sync, BeginAttempt, FetchSync, StoreSync, SyncError, recovery
  <2>6. QED
    BY <2>1, <2>2, <2>3, <2>4, <2>5 DEF Next
<1>4. QED
  BY <1>2, <1>3

LEMMA SyncPagesDescend ==
    ASSUME Inv, [Next]_vars, sync.pc = "store", sync'.pc = "fetch"
    PROVE  sync'.offset > 0 /\ (sync.offset = 0 \/ sync'.offset < sync.offset)
<1>1. sync # IdleSync /\ Typed /\ SyncFits
  BY Busy DEF Inv, Fits
<1>2. CASE StoreSync
  <2>1. Least \in Msg /\ Least < Above /\ sync'.offset = Least
    BY <1>1, <1>2, SyncLeast, StoreSyncRun DEF StoreSync, IdleSync
  <2>2. QED
    BY <2>1, Bounds DEF Above
<1>3. CASE ~StoreSync
  <2>1. CASE SyncError
    BY <1>1, <2>1, SyncErrorRun DEF IdleSync
  <2>2. CASE Post \/ (\E m \in Changing, v \in 1..2 : Change(m, v)) \/ UNCHANGED vars
    BY <1>1, <2>2 DEF Post, Change, vars, bulk
  <2>3. CASE Processor \/ ProcessError
    BY <1>1, <2>3
    DEF Processor, TakeEvent, EnqueueGapRecovery, StoreMessage, AdvanceCheck, AdvanceSave,
        ProcessError, bulk
  <2>4. CASE GapWorker \/ GapFails \/ CooldownLifts \/ \E g \in GapId : RetryGap(g)
    BY <1>1, <2>4
    DEF GapWorker, ListGaps, StartGap, FetchGap, StoreGap, FinishGap, GapSucceeds, GapFails,
        CooldownLifts, RetryGap, bulk
  <2>5. CASE (\E limit \in Profiles : StartHistory(limit)) \/ StartBacklog \/ Sync
    BY <1>1, <1>3, <2>5
    DEF StartHistory, StartBacklog, Sync, BeginAttempt, FetchSync, IdleSync
  <2>6. CASE Crash
    BY <2>6 DEF Crash, IdleSync
  <2>7. QED
    BY <2>1, <2>2, <2>3, <2>4, <2>5, <2>6 DEF Next
<1>4. QED
  BY <1>2, <1>3

\* Each page a gap recovery or a sync asks for lies below the one before, so
\* that the loops end however long the channel is.
THEOREM PagesDescendCorrect == Spec => PagesDescend
<1>1. Inv /\ [Next]_vars =>
        [/\ gapRun.pc = "store" /\ gapRun'.pc = "fetch" => gapRun'.offset < gapRun.offset
         /\ sync.pc = "store" /\ sync'.pc = "fetch" =>
               sync'.offset > 0 /\ (sync.offset = 0 \/ sync'.offset < sync.offset)]_vars
  BY GapPagesDescend, SyncPagesDescend
<1>2. QED
  BY <1>1, Invariance, PTL DEF Spec, PagesDescend

-----------------------------------------------------------------------------
(* What is given up, and why.                                               *)

\* The causes GivenUpForCause admits.
Cause ==
    \/ faults' # faults
    \/ proc' # proc /\ proc.pc = "save" /\ proc.from = 0
    \/ sync' # sync /\ (\/ sync.limit > 0
                        \/ sync.pc = "fetch" /\ OnlyService(sync.offset, Asked))
    \/ gapRun' # gapRun /\ gapRun.pc = "fetch" /\ OnlyService(gapRun.offset, BatchSize)

Justified == excused' \subseteq excused \cup Archived \/ Cause

\* An empty page means that nothing is left below the offset, unless service
\* messages filled it.
LEMMA EmptyPage ==
    ASSUME Typed, NEW offset, NEW limit, FetchHistory(offset, limit) = Nothing,
           ~OnlyService(offset, limit),
           NEW m \in Msg, m <= posted, m < offset
    PROVE  m \in Archived
<1>1. Below(offset) = {}
  BY DEF OnlyService
<1>2. m \in 1..posted
  BY Numbers, Bounds
<1>3. QED
  BY <1>1, <1>2 DEF Below, Archived

LEMMA AdvanceSaveJustified == ASSUME Inv, AdvanceSave PROVE Justified
<1>1. proc # IdleProc /\ proc' = IdleProc
  BY AdvanceSaveGrows DEF AdvanceSave, Inv, Fits
<1>2. QED
  BY <1>1 DEF AdvanceSave, Excuse, Justified, Cause

\* A fault is counted.
LEMMA FaultJustified == ASSUME Inv, Fault PROVE Justified
<1>1. faults \in Nat
  BY ChannelHistoryAssumption DEF Inv, Typed, TypeOK
<1>2. QED
  BY <1>1 DEF Fault, Justified, Cause

LEMMA FetchGapJustified == ASSUME Inv, FetchGap PROVE Justified
<1> DEFINE page == FetchHistory(gapRun.offset, BatchSize)
<1>1. gapRun \in RunSet /\ gapRun # IdleGap /\ gapRun.offset \in Nat /\ gapRun.offset <= posted
      /\ posted \in Nat
  BY Running, Bounds, Numbers DEF FetchGap, RunSet, Inv, Fits, RunFits
<1>2. CASE page # Nothing
  BY <1>2 DEF FetchGap, Excuse, Justified
<1>3. CASE page = Nothing /\ ~OnlyService(gapRun.offset, BatchSize)
  <2>1. ASSUME NEW m \in Msg, m \in gapRun.payload.from..(gapRun.offset - 1)
        PROVE  m \in Archived
    <3>1. m < gapRun.offset /\ m <= posted
      BY <1>1, <2>1, Bounds
    <3>2. QED
      BY <1>3, <3>1, EmptyPage DEF Inv
  <2>2. QED
    BY <1>3, <2>1 DEF FetchGap, Excuse, Justified
<1>4. CASE page = Nothing /\ OnlyService(gapRun.offset, BatchSize)
  <2>1. gapRun'.pc = "finish" /\ gapRun.pc = "fetch"
    BY <1>1, <1>4 DEF FetchGap, RunSet
  <2>2. QED
    BY <1>4, <2>1 DEF Justified, Cause
<1>5. QED
  BY <1>2, <1>3, <1>4

LEMMA FetchSyncJustified == ASSUME Inv, FetchSync PROVE Justified
<1>1. /\ Typed /\ SyncFits /\ sync \in SyncSet /\ sync # IdleSync
      /\ sync.pc = "fetch"
  BY FetchSyncRun DEF FetchSync, Inv, Fits
<1>2. /\ sync.offset \in Nat /\ sync.lower \in Nat /\ sync.maxSeen \in Nat /\ posted \in Nat
      /\ sync.offset # 0 => sync.offset <= posted
  BY <1>1, Bounds, Numbers DEF SyncFits, SyncSet
<1>3. CASE UNCHANGED excused
  BY <1>3 DEF Justified
<1>4. CASE EndSync /\ Page = Nothing /\ OnlyService(sync.offset, Asked)
  BY <1>1, <1>4 DEF EndSync, Justified, Cause
<1>5. CASE EndSync /\ Page = Nothing /\ ~OnlyService(sync.offset, Asked)
  <2>1. ASSUME NEW m \in Msg, m \in Unfetched PROVE m \in Archived
    <3>1. m < sync.offset /\ m <= posted
      BY <1>2, <2>1, Bounds DEF Unfetched
    <3>2. QED
      BY <1>1, <1>5, <3>1, EmptyPage DEF Page
  <2>2. QED
    BY <1>5, <2>1 DEF EndSync, Excuse, Justified
<1>6. CASE EndSync /\ Page # Nothing /\ Newest <= sync.lower
  <2>1. PICK k \in Ids(Page) : k \in Nat /\ k <= sync.lower
    <3>1. Page \in Content /\ \A k \in Ids(Page) : k \in Msg /\ k <= Newest
      BY <1>1, SyncPage
    <3>2. PICK k \in Ids(Page) : TRUE
      BY <1>6, <3>1, NothingIsEmpty
    <3>3. Newest \in Nat
      BY <1>1, SyncPage, Bounds
    <3>4. QED
      BY <1>2, <1>6, <3>1, <3>2, <3>3, Bounds
  <2>2. ASSUME NEW m \in Msg, m \in Unfetched PROVE m \in Archived
    <3>1. m < sync.offset /\ m <= posted /\ k <= m /\ sync.lower < m
      BY <1>2, <2>1, <2>2, Bounds DEF Unfetched
    <3>2. m \in Ids(Page) \/ m \in Service \/ version[m] = Erased
      BY <1>1, <2>1, <3>1, SyncPage
    <3>3. m \notin Ids(Page)
      <4>1. m \in Ids(Page) => m <= Newest
        BY <1>1, SyncPage
      <4>2. Newest \in Nat
        BY <1>1, SyncPage, Bounds
      <4>3. QED
        BY <1>2, <1>6, <3>1, <4>1, <4>2, Bounds
    <3>4. QED
      BY <3>2, <3>3 DEF Archived
  <2>3. QED
    BY <1>6, <2>2 DEF EndSync, Excuse, Justified
<1>7. QED
  BY <1>3, <1>4, <1>5, <1>6 DEF FetchSync, Page, Newest

LEMMA StoreSyncJustified == ASSUME Inv, StoreSync PROVE Justified
<1>1. /\ Typed /\ SyncFits /\ sync \in SyncSet /\ sync # IdleSync /\ Least \in Msg
  BY SyncLeast DEF StoreSync, Inv, Fits
<1>2. CASE UNCHANGED excused
  BY <1>2 DEF Justified
<1>3. CASE ReachedLower(Least) /\ sync' = IdleSync /\ Excuse((sync.lower + 1)..(Least - 1))
  <2>1. CASE sync.kind = "backlog"
    <3>1. Least <= sync.lower /\ Least \in Nat /\ sync.lower \in Nat
      BY <1>1, <1>3, <2>1, Bounds DEF ReachedLower, SyncSet
    <3>2. (sync.lower + 1)..(Least - 1) = {}
      BY <3>1
    <3>3. QED
      BY <1>3, <3>2 DEF Excuse, Justified
  <2>2. CASE sync.kind # "backlog"
    BY <1>1, <1>3, <2>2 DEF ReachedLower, Justified, Cause
  <2>3. QED
    BY <2>1, <2>2
<1>4. QED
  BY <1>1, <1>2, <1>3, StoreSyncRun

LEMMA NextJustified == ASSUME Inv, [Next]_vars PROVE Justified
<1>1. CASE AdvanceSave \/ FetchGap \/ FetchSync \/ StoreSync
  BY <1>1, AdvanceSaveJustified, FetchGapJustified, FetchSyncJustified, StoreSyncJustified
<1>2. CASE ProcessError \/ GapFails \/ SyncError \/ Crash
  BY <1>2, FaultJustified DEF ProcessError, GapFails, SyncError, Crash
<1>3. CASE UNCHANGED excused
  BY <1>3 DEF Justified
<1>4. UNCHANGED excused \/ AdvanceSave \/ FetchGap \/ FetchSync \/ StoreSync \/ ProcessError
      \/ GapFails \/ SyncError \/ Crash
  <2>1. CASE Post \/ (\E m \in Changing, v \in 1..2 : Change(m, v)) \/ UNCHANGED vars
    BY <2>1 DEF Post, Change, vars, history
  <2>2. CASE Processor
    BY <2>2 DEF Processor, TakeEvent, EnqueueGapRecovery, StoreMessage, AdvanceCheck, history
  <2>3. CASE GapWorker \/ CooldownLifts \/ \E g \in GapId : RetryGap(g)
    BY <2>3
    DEF GapWorker, ListGaps, StartGap, StoreGap, FinishGap, GapSucceeds, CooldownLifts, RetryGap,
        history
  <2>4. CASE (\E limit \in Profiles : StartHistory(limit)) \/ StartBacklog \/ Sync
    BY <2>4 DEF StartHistory, StartBacklog, Sync, BeginAttempt, history
  <2>5. QED
    BY <2>1, <2>2, <2>3, <2>4 DEF Next
<1>5. QED
  BY <1>1, <1>2, <1>3, <1>4

\* Nothing below the cursor is given up without one of the four causes, for any
\* channel, page size, limit and number of faults: the loops of the full sync,
\* the backlog and the gap recovery end where they ought to.
THEOREM GivenUpForCauseCorrect == Spec => GivenUpForCause
<1>1. Inv /\ [Next]_vars => [~(excused' \subseteq excused \cup Archived) => Cause]_vars
  BY NextJustified DEF Justified
<1>2. QED
  BY <1>1, Invariance, PTL DEF Spec, GivenUpForCause, Cause
=============================================================================
