--------------------------- MODULE ChannelHistory ---------------------------
(***************************************************************************)
(* How the messages of one listened channel reach the database: the live   *)
(* updates and their processor, the gap_recovery rows and the worker that  *)
(* runs them, the history sync and the backlog sync that share the lock of *)
(* the channel, and the history cursor all of them read and write.         *)
(*                                                                         *)
(* Every SQL statement and every WithTx transaction is one step; so is     *)
(* every Telegram request.  A Go function that issues several of them is   *)
(* several steps, with the values it read kept in its own variables.       *)
(*                                                                         *)
(* Abstracted: a message is its id and a version (0 as posted, 1 edited,   *)
(* 2 deleted).  The account is online or the request fails.  A watch rule  *)
(* is enabled that keeps every message (messagefilter is not modelled).    *)
(* The states of a task row that only TaskQueue tells apart are one here.  *)
(***************************************************************************)
EXTENDS Integers, FiniteSets, Sequences

CONSTANTS
    MaxMsg,      \* bound: messages posted to the channel
    Service,     \* ids of service messages ("X pinned a message", ...)
    GapId,       \* bound: ids of gap_recovery rows, a set of numbers
    BatchSize,   \* sync.history_batch_size
    Profiles,    \* message limits of the history syncs (0: the full history)
    MaxTries,    \* retry.Policy.MaxTries
    QueueSize,   \* update.Options.QueueSize
    Changing,    \* bound: ids of the messages that may be edited or deleted
    MaxFaults    \* bound: failing requests and statements, and process exits

Msg == 1..MaxMsg

ASSUME ChannelHistoryAssumption ==
    /\ MaxMsg \in Nat \ {0}
    /\ Service \subseteq Msg /\ Changing \subseteq Msg \ Service
    /\ GapId \subseteq Nat /\ Profiles \subseteq Nat
    /\ {BatchSize, MaxTries, QueueSize} \subseteq Nat \ {0}
    /\ MaxFaults \in Nat

Version == 0..2
Erased == 2
NotStored == -1

VARIABLES
    posted,    \* Telegram: the newest id of the channel
    version,   \* Telegram: what became of each message
    events,    \* update.Service.events, a buffered channel
    proc,      \* the Processor and the event it is working on
    stored,    \* telegram_messages: the stored version of each message
    cursor,    \* the "history" row of telegram_sync_cursors (0: no row)
    gaps,      \* the gap_recovery rows of the channel
    listed,    \* rows the worker has listed and not started yet
    gapRun,    \* the gap recovery the worker is running
    cooling,   \* GapRecoveryCooldown.IsCoolingDown
    sync,      \* the history or backlog sync that holds the channel (its field
               \* floor is history: the cursor when the first attempt began)
    backlog,   \* StartListenBacklog has not reached the channel yet
    faults,    \* errors and process exits so far
    claimed,   \* history: the highest value the cursor ever had
    excused    \* history: messages given up below the cursor, see Excuse

vars == <<posted, version, events, proc, stored, cursor, gaps, listed, gapRun,
          cooling, sync, backlog, faults, claimed, excused>>
telegram == <<posted, version>>
live == <<events, proc>>
recovery == <<gaps, listed, gapRun, cooling>>
bulk == <<sync, backlog>>
history == <<claimed, excused>>

Event == [type : {"new", "edit", "delete"}, id : Msg, version : Version]
\* RecoverGapWithProgress rejects every other range.
Payload == {p \in [from : Msg, to : Msg, trigger : Msg] : p.from <= p.to /\ p.to < p.trigger}
NoPayload == [from |-> 0, to |-> 0, trigger |-> 0]
Gap == [status : {"absent", "queued", "running", "succeeded", "failed", "deleted"},
        payload : Payload \cup {NoPayload}]
Content == [Msg -> Version \cup {NotStored}]
Nothing == [m \in Msg |-> NotStored]
Ids(content) == {m \in Msg : content[m] # NotStored}
Keep(content, ids) == [m \in Msg |-> IF m \in ids THEN content[m] ELSE NotStored]

IdleProc == [pc |-> "idle", from |-> 0]
IdleGap == [pc |-> "idle"]
IdleSync == [pc |-> "idle"]

TypeOK ==
    /\ posted \in 0..MaxMsg
    /\ version \in [Msg -> Version]
    /\ events \in Seq(Event) /\ Len(events) <= QueueSize
    /\ \/ proc = IdleProc
       \/ proc \in [pc : {"enqueue", "store", "advance", "save"}, event : Event, from : 0..MaxMsg]
    /\ stored \in Content
    /\ cursor \in 0..MaxMsg
    /\ gaps \in [GapId -> Gap]
    /\ listed \subseteq [id : GapId, payload : Payload]
    /\ \/ gapRun = IdleGap
       \/ gapRun \in [pc : {"fetch", "store", "finish", "end"}, id : GapId,
                      payload : Payload, offset : Msg, page : Content]
    /\ cooling \in BOOLEAN
    /\ \/ sync = IdleSync
       \/ sync \in [pc : {"begin", "fetch", "store"}, kind : {"history", "backlog"},
                    attempt : 1..MaxTries, limit : Profiles \cup {0}, lower : 0..MaxMsg,
                    offset : 0..MaxMsg, maxSeen : 0..MaxMsg, count : Nat,
                    asked : Nat, page : Content, floor : 0..MaxMsg]
    /\ backlog \in BOOLEAN
    /\ faults \in 0..MaxFaults
    /\ claimed \in 0..MaxMsg
    /\ excused \subseteq Msg

-----------------------------------------------------------------------------
(* Telegram.                                                                 *)

Largest(s) == IF s = {} THEN 0 ELSE CHOOSE m \in s : \A k \in s : k <= m
Smallest(s) == IF s = {} THEN 0 ELSE CHOOSE m \in s : \A k \in s : m <= k

\* The ids messages.getHistory can return below offset (0: from the newest).
Below(offset) ==
    {m \in 1..posted : version[m] # Erased /\ (offset = 0 \/ m < offset)}

\* FetchHistory: the newest limit ids below offset, of which only ordinary
\* messages are kept (GotdClient drops every other class of message).
FetchHistory(offset, limit) ==
    LET below == Below(offset)
        ids == {m \in below : Cardinality({k \in below : k > m}) < limit}
    IN Keep(version, ids \ Service)

\* The listener is connected and the event reaches the queue, or it is not and
\* the update is lost; a full queue makes the listener wait.
Deliver(type, m, v) ==
    \/ UNCHANGED events
    \/ /\ Len(events) < QueueSize
       /\ events' = Append(events, [type |-> type, id |-> m, version |-> v])

Post ==
    /\ posted < MaxMsg
    /\ posted' = posted + 1
    /\ IF posted + 1 \in Service THEN UNCHANGED events ELSE Deliver("new", posted + 1, 0)
    /\ UNCHANGED <<version, proc, stored, cursor, recovery, bulk, faults, history>>

Change(m, v) ==
    /\ m <= posted
    /\ version[m] < v
    /\ version' = [version EXCEPT ![m] = v]
    /\ Deliver(IF v = Erased THEN "delete" ELSE "edit", m, v)
    /\ UNCHANGED <<posted, proc, stored, cursor, recovery, bulk, faults, history>>

-----------------------------------------------------------------------------
(* The database.                                                             *)

\* SaveBatchTx: an upsert that overwrites every column, deleted included.
Upsert(page) ==
    [m \in Msg |-> IF m \in Ids(page) THEN page[m] ELSE stored[m]]

\* SyncCursorRepository.Save: an upsert that does not look at the old value.
SaveCursor(value) ==
    /\ cursor' = value
    /\ claimed' = Largest({claimed, value})

KeepCursor == UNCHANGED <<cursor, claimed>>

\* Messages below the cursor that nothing will fetch any more.
Excuse(ids) == excused' = excused \cup (ids \cap Msg)

Fault ==
    /\ faults < MaxFaults
    /\ faults' = faults + 1

-----------------------------------------------------------------------------
(* Processor.Process, on one event at a time.                                *)

QueuedGaps == {g \in GapId : gaps[g].status = "queued"}

\* Variant: any message beyond the cursor reveals a gap.
IsGapAnyAhead(m) == ~cooling /\ cursor > 0 /\ m > cursor

\* A gap is enqueued for a new message that does not follow the cursor.
IsGap(m) == ~cooling /\ cursor > 0 /\ m > cursor + 1

TakeEvent ==
    /\ proc = IdleProc
    /\ events # <<>>
    /\ events' = Tail(events)
    /\ LET e == Head(events) IN
       \/ /\ e.type = "delete"
          /\ stored' = [stored EXCEPT ![e.id] = IF @ = NotStored THEN @ ELSE Erased]
          /\ UNCHANGED proc
       \/ /\ e.type # "delete"
          /\ proc' = IF e.type = "new" /\ IsGap(e.id)
                     THEN [pc |-> "enqueue", event |-> e, from |-> cursor + 1]
                     ELSE [pc |-> "store", event |-> e, from |-> 0]
          /\ UNCHANGED stored
    /\ UNCHANGED <<telegram, cursor, recovery, bulk, faults, history>>

\* The queued row with the highest to_message_id, then the highest id.
Widest ==
    CHOOSE g \in QueuedGaps : \A k \in QueuedGaps :
        \/ gaps[k].payload.to < gaps[g].payload.to
        \/ gaps[k].payload.to = gaps[g].payload.to /\ k <= g

\* CoalesceGapRecovery: the payload of the new request replaces that of the
\* widest queued row, whose to_message_id and trigger_message_id are kept when
\* they are higher; the other queued rows are deleted.
Coalesce(payload) ==
    IF QueuedGaps # {}
    THEN LET old == gaps[Widest].payload IN
         gaps' = [g \in GapId |->
                    IF g \notin QueuedGaps THEN gaps[g]
                    ELSE IF g # Widest THEN [gaps[g] EXCEPT !.status = "deleted"]
                    ELSE [gaps[g] EXCEPT !.payload =
                            [from |-> payload.from,
                             to |-> Largest({payload.to, old.to}),
                             trigger |-> Largest({payload.trigger, old.trigger})]]]
    ELSE \E g \in GapId :
            /\ gaps[g].status = "absent"
            /\ gaps' = [gaps EXCEPT ![g] = [status |-> "queued", payload |-> payload]]

EnqueueGapRecovery ==
    /\ proc.pc = "enqueue"
    /\ Coalesce([from |-> proc.from, to |-> proc.event.id - 1, trigger |-> proc.event.id])
    /\ proc' = [proc EXCEPT !.pc = "store"]
    /\ UNCHANGED <<telegram, events, stored, cursor, listed, gapRun, cooling, bulk, faults, history>>

StoreMessage ==
    /\ proc.pc = "store"
    /\ stored' = [stored EXCEPT ![proc.event.id] = proc.event.version]
    /\ proc' = IF proc.event.type = "new" THEN [proc EXCEPT !.pc = "advance"] ELSE IdleProc
    /\ UNCHANGED <<telegram, events, cursor, recovery, bulk, faults, history>>

\* Variant: the cursor follows every live message.
AdvanceCheckAlways ==
    /\ proc.pc = "advance"
    /\ proc' = IF cursor < proc.event.id THEN [proc EXCEPT !.pc = "save"] ELSE IdleProc
    /\ UNCHANGED <<telegram, events, stored, cursor, recovery, bulk, faults, history>>

\* advanceHistoryCursor moves the cursor by one message, or creates it ...
AdvanceCheck ==
    /\ proc.pc = "advance"
    /\ proc' = IF cursor = 0 \/ proc.event.id = cursor + 1
               THEN [proc EXCEPT !.pc = "save", !.from = cursor] ELSE IdleProc
    /\ UNCHANGED <<telegram, events, stored, cursor, recovery, bulk, faults, history>>

\* ... and writes it in a statement of its own.
AdvanceSave ==
    /\ proc.pc = "save"
    /\ SaveCursor(proc.event.id)
    /\ Excuse(IF proc.from = 0 THEN 1..(proc.event.id - 1) ELSE {})
    /\ proc' = IdleProc
    /\ UNCHANGED <<telegram, events, stored, recovery, bulk, faults>>

\* Any of the statements fails: the event is logged and dropped.  A gap that
\* was enqueued for it stays, and its recovery ends below the lost message.
DroppedEvent == IF proc.pc = "store" /\ proc.from > 0 THEN {proc.event.id} ELSE {}

ProcessError ==
    /\ proc # IdleProc
    /\ Fault
    /\ Excuse(DroppedEvent)
    /\ proc' = IdleProc
    /\ UNCHANGED <<telegram, events, stored, cursor, recovery, bulk, claimed>>

Processor ==
    TakeEvent \/ EnqueueGapRecovery \/ StoreMessage \/ AdvanceCheck \/ AdvanceSave

-----------------------------------------------------------------------------
(* The task worker and RecoverGapWithProgress.                               *)

\* ProcessOnce lists the queued rows, payloads included, and takes them in turn.
ListGaps ==
    /\ gapRun = IdleGap /\ listed = {}
    /\ QueuedGaps # {}
    /\ listed' = {[id |-> g, payload |-> gaps[g].payload] : g \in QueuedGaps}
    /\ UNCHANGED <<telegram, live, stored, cursor, gaps, gapRun, cooling, bulk, faults, history>>

StartGap(item) ==
    /\ gapRun = IdleGap
    /\ item \in listed
    /\ listed' = listed \ {item}
    /\ IF gaps[item.id].status = "queued"
       THEN /\ gaps' = [gaps EXCEPT ![item.id].status = "running"]
            /\ gapRun' = [pc |-> "fetch", id |-> item.id, payload |-> item.payload,
                          offset |-> item.payload.trigger, page |-> Nothing]
       ELSE UNCHANGED <<gaps, gapRun>>
    /\ UNCHANGED <<telegram, live, stored, cursor, cooling, bulk, faults, history>>

\* A page without ordinary messages ends the loop, even above the lower bound.
FetchGap ==
    LET page == FetchHistory(gapRun.offset, BatchSize) IN
    /\ gapRun.pc = "fetch"
    /\ gapRun' = [gapRun EXCEPT !.pc = IF page = Nothing THEN "finish" ELSE "store", !.page = page]
    /\ Excuse(IF page = Nothing THEN gapRun.payload.from..(gapRun.offset - 1) ELSE {})
    /\ UNCHANGED <<telegram, live, stored, cursor, gaps, listed, cooling, bulk, faults, claimed>>

\* Variant: the message before the one that revealed the gap is left out.
InGapShort(page) == Keep(page, gapRun.payload.from..(gapRun.payload.to - 1))

InGap(page) == Keep(page, gapRun.payload.from..gapRun.payload.to)

\* Variant: the next page is fetched from the same offset.
StoreGapSameOffset ==
    LET least == Smallest(Ids(gapRun.page)) IN
    /\ gapRun.pc = "store"
    /\ stored' = Upsert(InGap(gapRun.page))
    /\ gapRun' = [gapRun EXCEPT !.pc = IF least <= gapRun.payload.from THEN "finish" ELSE "fetch",
                                !.page = Nothing]
    /\ UNCHANGED <<telegram, live, cursor, gaps, listed, cooling, bulk, faults, history>>

\* storeBatch without a cursor; the loop goes on below the page's lowest id.
StoreGap ==
    LET least == Smallest(Ids(gapRun.page)) IN
    /\ gapRun.pc = "store"
    /\ stored' = Upsert(InGap(gapRun.page))
    /\ gapRun' = [gapRun EXCEPT !.pc = IF least <= gapRun.payload.from THEN "finish" ELSE "fetch",
                                !.offset = least, !.page = Nothing]
    /\ UNCHANGED <<telegram, live, cursor, gaps, listed, cooling, bulk, faults, history>>

\* The cursor is set to the message that revealed the gap, forward or back.
FinishGap ==
    /\ gapRun.pc = "finish"
    /\ SaveCursor(gapRun.payload.trigger)
    /\ gapRun' = [gapRun EXCEPT !.pc = "end"]
    /\ UNCHANGED <<telegram, live, stored, gaps, listed, cooling, bulk, faults, excused>>

EndGap(outcome) ==
    /\ cooling' = (outcome = "failed")
    /\ gaps' = [gaps EXCEPT ![gapRun.id].status =
                  IF @ = "running" THEN outcome ELSE @]
    /\ gapRun' = IdleGap

GapSucceeds ==
    /\ gapRun.pc = "end"
    /\ EndGap("succeeded")
    /\ UNCHANGED <<telegram, live, stored, cursor, listed, bulk, faults, history>>

\* An error, a time-out, a flood wait, a pause or a cancellation.
GapFails ==
    /\ gapRun # IdleGap
    /\ Fault
    /\ EndGap("failed")
    /\ UNCHANGED <<telegram, live, stored, cursor, listed, bulk, history>>

\* POST /api/tasks/:id/retry, with the payload the row was left with.
RetryGap(g) ==
    /\ gaps[g].status = "failed"
    /\ gaps' = [gaps EXCEPT ![g].status = "queued"]
    /\ UNCHANGED <<telegram, live, stored, cursor, listed, gapRun, cooling, bulk, faults, history>>

CooldownLifts ==
    /\ cooling
    /\ cooling' = FALSE
    /\ UNCHANGED <<telegram, live, stored, cursor, gaps, listed, gapRun, bulk, faults, history>>

GapWorker ==
    ListGaps \/ (\E item \in listed : StartGap(item)) \/ FetchGap \/ StoreGap
             \/ FinishGap \/ GapSucceeds

-----------------------------------------------------------------------------
(* History sync and backlog sync; tryAcquireChannel admits one at a time.    *)

Begin(kind, limit) ==
    sync' = [pc |-> "begin", kind |-> kind, attempt |-> 1, limit |-> limit, lower |-> 0,
             offset |-> 0, maxSeen |-> 0, count |-> 0, asked |-> 0, page |-> Nothing,
             floor |-> 0]

\* The history_sync task, POST /api/channels/:id/sync and .../sync-many.
StartHistory(limit) ==
    /\ sync = IdleSync
    /\ Begin("history", limit)
    /\ UNCHANGED <<telegram, live, stored, cursor, recovery, backlog, faults, history>>

\* StartListenBacklog, once after each start; a channel in use is skipped.
StartBacklog ==
    /\ backlog
    /\ backlog' = FALSE
    /\ IF sync = IdleSync THEN Begin("backlog", 0) ELSE UNCHANGED sync
    /\ UNCHANGED <<telegram, live, stored, cursor, recovery, faults, history>>

\* An attempt begins; a backlog reads the cursor to know where to stop.
BeginAttempt ==
    /\ sync.pc = "begin"
    /\ sync' = IF sync.kind = "backlog" /\ cursor = 0 THEN IdleSync
               ELSE [sync EXCEPT !.pc = "fetch", !.offset = 0, !.maxSeen = 0, !.count = 0,
                                 !.lower = IF sync.kind = "backlog" THEN cursor ELSE 0,
                                 !.floor = IF sync.attempt = 1 THEN cursor ELSE @]
    /\ UNCHANGED <<telegram, live, stored, cursor, recovery, backlog, faults, history>>

\* The messages an attempt that ends now leaves behind below the cursor.
Unfetched == (sync.lower + 1)..(sync.offset - 1)

EndSync == sync' = IdleSync /\ Excuse(Unfetched)

\* The number of messages asked for: a backlog asks for the newest one first.
Asked ==
    IF sync.kind = "backlog" /\ sync.offset = 0 THEN 1
    ELSE IF sync.limit > 0 THEN Smallest({BatchSize, sync.limit - sync.count})
    ELSE BatchSize

FetchSync ==
    LET page == FetchHistory(sync.offset, Asked)
        newest == Largest(Ids(page) \cup {sync.maxSeen})
    IN
    /\ sync.pc = "fetch"
    /\ IF page = Nothing \/ newest <= sync.lower
       THEN EndSync
       ELSE /\ sync' = [sync EXCEPT !.pc = "store", !.page = page, !.asked = Asked,
                                    !.maxSeen = newest, !.count = @ + Cardinality(Ids(page))]
            /\ UNCHANGED excused
    /\ UNCHANGED <<telegram, live, stored, cursor, recovery, backlog, faults, claimed>>

\* Variant: no limit is a limit that the first page reaches.
ReachedLowerUnlimited(least) ==
    IF sync.kind = "backlog" THEN least <= sync.lower
    ELSE sync.count >= sync.limit \/ Cardinality(Ids(sync.page)) < sync.asked

\* A backlog ends at its lower bound, a limited history sync at its limit or
\* with a page shorter than it asked for.
ReachedLower(least) ==
    IF sync.kind = "backlog" THEN least <= sync.lower
    ELSE sync.limit > 0 /\ (sync.count >= sync.limit \/ Cardinality(Ids(sync.page)) < sync.asked)

AboveLower(page) == Keep(page, (sync.lower + 1)..MaxMsg)

\* storeBatch writes the page and, in the same transaction, moves the cursor to
\* the newest message seen - with the first page already.
StoreSync ==
    LET least == Smallest(Ids(sync.page))
        more == AboveLower(sync.page)
        next == [sync EXCEPT !.pc = "fetch", !.offset = least, !.page = Nothing]
    IN
    /\ sync.pc = "store"
    /\ stored' = Upsert(more)
    /\ IF more # Nothing THEN SaveCursor(sync.maxSeen) ELSE KeepCursor
    /\ IF ReachedLower(least)
       THEN /\ sync' = IdleSync
            /\ Excuse((sync.lower + 1)..(least - 1))
       ELSE sync' = next /\ UNCHANGED excused
    /\ UNCHANGED <<telegram, live, recovery, backlog, faults>>

\* The attempt fails: the next one starts from the newest message again.
SyncError ==
    /\ sync # IdleSync
    /\ Fault
    /\ \/ /\ sync.attempt < MaxTries
          /\ sync' = [sync EXCEPT !.pc = "begin", !.attempt = @ + 1, !.page = Nothing,
                                  !.lower = 0, !.offset = 0, !.maxSeen = 0, !.count = 0, !.asked = 0]
       \/ sync' = IdleSync
    /\ Excuse(Unfetched)
    /\ UNCHANGED <<telegram, live, stored, cursor, recovery, backlog, claimed>>

Sync == BeginAttempt \/ FetchSync \/ StoreSync

-----------------------------------------------------------------------------
(* The process.                                                              *)

\* The process exits and starts again: RestoreUnfinished queues the gap it was
\* running, the backlog sync is due again.
Crash ==
    /\ Fault
    /\ events' = <<>>
    /\ proc' = IdleProc
    /\ gaps' = [g \in GapId |-> IF gaps[g].status = "running"
                                THEN [gaps[g] EXCEPT !.status = "queued"] ELSE gaps[g]]
    /\ listed' = {} /\ gapRun' = IdleGap /\ cooling' = FALSE
    /\ sync' = IdleSync /\ backlog' = TRUE
    /\ Excuse((IF sync = IdleSync THEN {} ELSE Unfetched)
              \cup (IF proc = IdleProc THEN {} ELSE DroppedEvent))
    /\ UNCHANGED <<telegram, stored, cursor, claimed>>

Init ==
    /\ posted = 0 /\ version = [m \in Msg |-> 0]
    /\ events = <<>> /\ proc = IdleProc
    /\ stored = Nothing /\ cursor = 0
    /\ gaps = [g \in GapId |-> [status |-> "absent", payload |-> NoPayload]]
    /\ listed = {} /\ gapRun = IdleGap /\ cooling = FALSE
    /\ sync = IdleSync /\ backlog = TRUE
    /\ faults = 0
    /\ claimed = 0 /\ excused = {}

Next ==
    \/ Post \/ \E m \in Changing, v \in 1..2 : Change(m, v)
    \/ Processor \/ ProcessError
    \/ GapWorker \/ GapFails \/ CooldownLifts \/ \E g \in GapId : RetryGap(g)
    \/ \E limit \in Profiles : StartHistory(limit)
    \/ StartBacklog \/ Sync \/ SyncError
    \/ Crash

Spec == Init /\ [][Next]_vars

-----------------------------------------------------------------------------
(* Properties.                                                               *)

\* Messages that an actor which is still at work is about to store.
Pending ==
    (IF sync = IdleSync \/ sync.offset = 0 THEN {} ELSE Unfetched)
    \cup (IF proc = IdleProc THEN {} ELSE DroppedEvent)

\* Every message up to the highest cursor value is stored, erased in Telegram,
\* about to be stored, or was given up in one of the ways Excuse records: the
\* cursor was created by a live message, a sync ended before it reached the
\* lower bound, a page held service messages only, or an event was dropped
\* between its gap recovery and its own transaction.  Live updates, coalesced
\* gap recoveries, their stale payloads, cursors set back, retries and restarts
\* lose nothing else.
NoOtherHole ==
    \A m \in 1..claimed :
        \/ stored[m] # NotStored
        \/ m \in Service \/ version[m] = Erased
        \/ m \in excused \cup Pending

\* The page loops end: whatever is posted, edited and deleted in the channel
\* while a gap recovery or an attempt of a sync pages through it, each page it
\* asks for lies below the one before.
PagesDescend ==
    [][/\ gapRun.pc = "store" /\ gapRun'.pc = "fetch" => gapRun'.offset < gapRun.offset
       /\ sync.pc = "store" /\ sync'.pc = "fetch" =>
             sync'.offset > 0 /\ (sync.offset = 0 \/ sync'.offset < sync.offset)]_vars

\* Stored, never to be stored, or gone from Telegram.
Archived == {m \in Msg : stored[m] # NotStored \/ m \in Service \/ version[m] = Erased}

\* There are messages below the offset, and none of those answered is ordinary.
OnlyService(offset, limit) == Below(offset) # {} /\ FetchHistory(offset, limit) = Nothing

\* What Excuse records has a cause each time.  Without an error or a restart a
\* message below the cursor is given up by a live message that finds no cursor,
\* by a sync that was limited, or by a page that only service messages filled:
\* no full sync, backlog or gap recovery stops early for any other reason.
GivenUpForCause ==
    [][~(excused' \subseteq excused \cup Archived) =>
         \/ faults' # faults
         \/ proc' # proc /\ proc.pc = "save" /\ proc.from = 0
         \/ sync' # sync /\ (\/ sync.limit > 0
                             \/ sync.pc = "fetch" /\ OnlyService(sync.offset, Asked))
         \/ gapRun' # gapRun /\ gapRun.pc = "fetch" /\ OnlyService(gapRun.offset, BatchSize)]_vars
=============================================================================
