---------------------------- MODULE PlaybackQueue ----------------------------
(***************************************************************************)
(* Proof of play: the queue of playback events of the player and the log   *)
(* they end up in.                                                         *)
(*                                                                         *)
(* The player (apps/web-player/src/playbackEvents.ts) writes an event to   *)
(* IndexedDB for each item it shows and each error, cuts the queue back to *)
(* its maximum, and sends the oldest events every 15 seconds and whenever  *)
(* it comes online; what the API (apps/api/src/playback/                   *)
(* playback.service.ts) has stored is then removed.  A page that cannot    *)
(* open the database keeps the events in memory.                           *)
(*                                                                         *)
(* Every database call is a step, so that events are added, cut back and   *)
(* removed in any order.  Requests and answers get lost, the page is       *)
(* reloaded while they are under way, the contents an event names are      *)
(* deleted, and the page is paired again, as another device.               *)
(***************************************************************************)
EXTENDS Naturals, Sequences, FiniteSets

CONSTANTS
    Devices,            \* the devices the page may be paired as
    Contents,           \* assets and playlists
    None,               \* null
    MAX_QUEUE_SIZE,
    FLUSH_BATCH_SIZE,
    MaxEvents,          \* bound: events enqueued
    MaxFaults           \* bound: failures, reloads, new pairings, deleted contents

ASSUME QueueAssumption ==
    /\ MAX_QUEUE_SIZE \in Nat \ {0} /\ FLUSH_BATCH_SIZE \in Nat \ {0}
    /\ MaxEvents \in Nat /\ MaxFaults \in Nat
    /\ None \notin Devices \union Contents

VARIABLES
    token,      \* the device whose token the page holds
    db,         \* whether openDb gave this page a database
    event,      \* the events enqueued so far; the index of an event is its id
    writing,    \* events whose put is under way
    store,      \* events in IndexedDB
    trimming,   \* events written, whose trimQueue has yet to read the store
    excess,     \* for calls of trimQueue that have read it, what they delete
    memory,     \* events in memoryFallback
    flush,      \* the call of flushPlaybackQueue that holds the flag flushing
    late,       \* requests under way whose page is gone
    log,        \* PlaybackLog: <<device, clientEventId>>
    contents,   \* the contents that exist
    lost,       \* history: events cut off, and events that a failure took
    faults      \* failures, reloads, new pairings and deleted contents so far

vars == <<token, db, event, writing, store, trimming, excess, memory, flush,
          late, log, contents, lost, faults>>

-----------------------------------------------------------------------------
Ids == 1 .. MaxEvents
Enqueued == 1 .. Len(event)

\* Events of layouts and walls name no content.
Event == [enqueuedAt : Ids, content : Contents \union {None}]
Request == [device : Devices, batch : SUBSET Ids]

\* sent: until the server has answered; stored: the answer was a success.
Flush == [phase : {"sent", "stored"}, req : Request]

\* The queue of the page that runs: readAll, or memoryFallback.
Queue == IF db THEN store ELSE memory

Older(i, j) == event[i].enqueuedAt <= event[j].enqueuedAt

\* The n oldest events of S.  Two events of one millisecond, as the end of an item
\* and the start of the next often are, come in either order from the database.
Oldest(S, n) ==
    {T \in SUBSET S : /\ Cardinality(T) = n
                      /\ \A i \in T, j \in S \ T : Older(i, j)}

\* memoryFallback keeps the order of arrival.
OldestInMemory(S, n) ==
    {i \in S : Cardinality({j \in S : j < i}) < n}

Fault == faults < MaxFaults /\ faults' = faults + 1

-----------------------------------------------------------------------------
(* enqueuePlaybackEvent and trimQueue.                                     *)

\* Only the order of the times matters: the clock stands still or goes on by one.
Now(t) == IF event = <<>> THEN t = 1
                          ELSE t \in Ids /\ t - event[Len(event)].enqueuedAt \in {0, 1}

\* Without a database: push, and shift when the array is too long.
Push(i) ==
    LET all == memory \union {i}
        cut == IF Cardinality(all) > MAX_QUEUE_SIZE THEN OldestInMemory(all, 1) ELSE {}
    IN  /\ memory' = all \ cut
        /\ lost' = [lost EXCEPT !.cut = @ \union cut]
        /\ UNCHANGED writing

\* The content may have been deleted: a page without network plays its cache.
Enqueue(c, t) ==
    /\ Len(event) < MaxEvents /\ Now(t)
    /\ event' = Append(event, [enqueuedAt |-> t, content |-> c])
    /\ IF db THEN /\ writing' = writing \union {Len(event) + 1}
                  /\ UNCHANGED <<memory, lost>>
             ELSE Push(Len(event) + 1)
    /\ UNCHANGED <<token, db, store, trimming, excess, flush, late, log, contents, faults>>

Put(i) ==
    /\ i \in writing
    /\ writing' = writing \ {i}
    /\ store' = store \union {i}
    /\ trimming' = trimming \union {i}
    /\ UNCHANGED <<token, db, event, excess, memory, flush, late, log, contents, lost, faults>>

\* The transaction of put fails, for want of space say: the event is given up.
PutFails(i) ==
    /\ i \in writing /\ Fault
    /\ writing' = writing \ {i}
    /\ lost' = [lost EXCEPT !.failed = @ \union {i}]
    /\ UNCHANGED <<token, db, event, store, trimming, excess, memory, flush, late, log, contents>>

ReadExcess(i) ==
    /\ i \in trimming
    /\ trimming' = trimming \ {i}
    /\ IF Cardinality(store) <= MAX_QUEUE_SIZE
       THEN UNCHANGED excess
       ELSE \E S \in Oldest(store, Cardinality(store) - MAX_QUEUE_SIZE) :
               excess' = excess \union {S}
    /\ UNCHANGED <<token, db, event, writing, store, memory, flush, late, log, contents, lost, faults>>

\* trimQueue ends without a deletion: its read or its transaction failed.
TrimFails(i) ==
    /\ i \in trimming /\ Fault
    /\ trimming' = trimming \ {i}
    /\ UNCHANGED <<token, db, event, writing, store, excess, memory, flush, late, log, contents, lost>>

\* Mutant: not the events read as excess, but as many of those there are now.
DeleteAgain(S) ==
    /\ S \in excess
    /\ excess' = excess \ {S}
    /\ \E T \in SUBSET store :
          /\ T \in Oldest(store, IF Cardinality(S) < Cardinality(store)
                                 THEN Cardinality(S) ELSE Cardinality(store))
          /\ store' = store \ T
          /\ lost' = [lost EXCEPT !.cut = @ \union T]
    /\ UNCHANGED <<token, db, event, writing, trimming, memory, flush, late, log, contents, faults>>

DeleteExcess(S) ==
    /\ S \in excess
    /\ excess' = excess \ {S}
    /\ store' = store \ S
    /\ lost' = [lost EXCEPT !.cut = @ \union (S \intersect store)]
    /\ UNCHANGED <<token, db, event, writing, trimming, memory, flush, late, log, contents, faults>>

-----------------------------------------------------------------------------
(* flushPlaybackQueue and ingestBatch.                                     *)

Smaller(m, n) == IF m < n THEN m ELSE n

Batch(B) ==
    LET n == Smaller(Cardinality(Queue), FLUSH_BATCH_SIZE)
    IN  IF db THEN B \in Oldest(store, n) ELSE B = OldestInMemory(memory, n)

\* Mutant: the token is not looked at.
StartFlushUnpaired(B) ==
    /\ flush = None
    /\ Queue # {} /\ Batch(B)
    /\ flush' = [phase |-> "sent", req |-> [device |-> token, batch |-> B]]
    /\ UNCHANGED <<token, db, event, writing, store, trimming, excess, memory, late, log,
                   contents, lost, faults>>

\* One call at a time: the flag flushing is that of the module, not of the loop.
StartFlush(B) ==
    /\ flush = None /\ token # None
    /\ Queue # {} /\ Batch(B)
    /\ flush' = [phase |-> "sent", req |-> [device |-> token, batch |-> B]]
    /\ UNCHANGED <<token, db, event, writing, store, trimming, excess, memory, late, log,
                   contents, lost, faults>>

\* There is nothing to send, or nobody to send it as; the timer goes on.
SkipFlush ==
    /\ flush = None
    /\ token = None \/ Queue = {}
    /\ UNCHANGED vars

\* The checks of ingestBatch; a content deleted after them fails on its foreign key.
Accepted(r) == \A i \in r.batch : event[i].content \in contents \union {None}

\* createMany with skipDuplicates, by the unique key of device and clientEventId.
Record(r) == log' = log \union ({r.device} \X r.batch)

Ingest ==
    /\ flush # None /\ flush.phase = "sent"
    /\ Accepted(flush.req)
    /\ Record(flush.req)
    /\ flush' = [flush EXCEPT !.phase = "stored"]
    /\ UNCHANGED <<token, db, event, writing, store, trimming, excess, memory, late,
                   contents, lost, faults>>

\* The answer is a refusal: the batch stays.
Refuse ==
    /\ flush # None /\ flush.phase = "sent"
    /\ ~Accepted(flush.req)
    /\ flush' = None
    /\ UNCHANGED <<token, db, event, writing, store, trimming, excess, memory, late, log,
                   contents, lost, faults>>

\* The request is lost, or goes on without the page; or its answer is lost.
FlushFails ==
    /\ flush # None /\ Fault
    /\ flush' = None
    /\ late' \in {late} \union
                {late \union {r} : r \in IF flush.phase = "sent" THEN {flush.req} ELSE {}}
    /\ UNCHANGED <<token, db, event, writing, store, trimming, excess, memory, log,
                   contents, lost>>

\* Mutant: the oldest events of the present queue, not those that were sent.
RemoveOldest ==
    /\ flush # None /\ flush.phase = "stored"
    /\ flush' = None
    /\ LET n == Smaller(Cardinality(flush.req.batch), Cardinality(Queue))
       IN  IF db THEN /\ \E B \in Oldest(store, n) : store' = store \ B
                      /\ UNCHANGED memory
                 ELSE /\ memory' = memory \ OldestInMemory(memory, n)
                      /\ UNCHANGED store
    /\ UNCHANGED <<token, db, event, writing, trimming, excess, late, log, contents, lost, faults>>

\* Mutant: a batch that was stored stays in the queue.
RemoveNothing ==
    /\ flush # None /\ flush.phase = "stored"
    /\ flush' = None
    /\ UNCHANGED <<token, db, event, writing, store, trimming, excess, memory, late, log,
                   contents, lost, faults>>

removeMany ==
    /\ flush # None /\ flush.phase = "stored"
    /\ flush' = None
    /\ IF db THEN store' = store \ flush.req.batch /\ UNCHANGED memory
             ELSE memory' = memory \ flush.req.batch /\ UNCHANGED store
    /\ UNCHANGED <<token, db, event, writing, trimming, excess, late, log, contents, lost, faults>>

\* A request outlives its page and is handled after all.
IngestLate(r) ==
    /\ r \in late
    /\ late' = late \ {r}
    /\ IF Accepted(r) THEN Record(r) ELSE UNCHANGED log
    /\ UNCHANGED <<token, db, event, writing, store, trimming, excess, memory, flush,
                   contents, lost, faults>>

-----------------------------------------------------------------------------
(* The page and its surroundings.                                          *)

\* Transactions under way are not committed; the database opens or does not.
Reload ==
    /\ Fault
    /\ db' \in BOOLEAN
    /\ writing' = {} /\ trimming' = {} /\ excess' = {} /\ memory' = {}
    /\ lost' = [lost EXCEPT !.failed = @ \union writing \union memory]
    /\ flush' = None
    /\ late' = IF flush # None /\ flush.phase = "sent" THEN late \union {flush.req} ELSE late
    /\ UNCHANGED <<token, event, store, log, contents>>

\* The session is found invalid; neither the queue nor the call under way is touched.
invalidateSession ==
    /\ token # None /\ Fault
    /\ token' = None
    /\ UNCHANGED <<db, event, writing, store, trimming, excess, memory, flush, late, log,
                   contents, lost>>

performPair(d) ==
    /\ token = None
    /\ token' = d
    /\ UNCHANGED <<db, event, writing, store, trimming, excess, memory, flush, late, log,
                   contents, lost, faults>>

RemoveContent(c) ==
    /\ c \in contents /\ Fault
    /\ contents' = contents \ {c}
    /\ UNCHANGED <<token, db, event, writing, store, trimming, excess, memory, flush, late, log,
                   lost>>

-----------------------------------------------------------------------------
Init ==
    /\ token \in Devices /\ db \in BOOLEAN
    /\ event = <<>> /\ writing = {} /\ store = {} /\ trimming = {} /\ excess = {}
    /\ memory = {} /\ flush = None /\ late = {} /\ log = {}
    /\ contents = Contents
    /\ lost = [cut |-> {}, failed |-> {}]
    /\ faults = 0

Saves ==
    \/ \E i \in Ids : Put(i) \/ ReadExcess(i)
    \/ \E S \in excess : DeleteExcess(S)

Sends ==
    \/ \E B \in SUBSET Queue : StartFlush(B)
    \/ SkipFlush \/ Ingest \/ Refuse \/ removeMany

Environment ==
    \/ \E c \in Contents \union {None}, t \in Ids : Enqueue(c, t)
    \/ \E i \in Ids : PutFails(i) \/ TrimFails(i)
    \/ FlushFails \/ Reload \/ invalidateSession
    \/ \E r \in late : IngestLate(r)
    \/ \E d \in Devices : performPair(d)
    \/ \E c \in Contents : RemoveContent(c)

Next == Saves \/ Sends \/ Environment

\* The timer of the flush goes on, and every request is answered in the end.
Fairness == WF_vars(Sends)

Spec == Init /\ [][Next]_vars /\ Fairness

-----------------------------------------------------------------------------
(* Properties.                                                             *)

\* The shape of the state.
TypeOK ==
    /\ token \in Devices \union {None} /\ db \in BOOLEAN
    /\ event \in Seq(Event) /\ Len(event) <= MaxEvents
    /\ writing \subseteq Enqueued /\ store \subseteq Enqueued
    /\ trimming \subseteq Enqueued /\ memory \subseteq Enqueued
    /\ excess \subseteq SUBSET Enqueued
    /\ flush \in Flush \union {None} /\ late \subseteq Request
    /\ log \subseteq Devices \X Enqueued
    /\ contents \subseteq Contents
    /\ lost \in [cut : SUBSET Enqueued, failed : SUBSET Enqueued]
    /\ faults \in 0 .. MaxFaults

Recorded == {i \in Enqueued : \E d \in Devices : <<d, i>> \in log}

\* No event disappears: one that is neither cut off from a full queue nor lost with
\* a failed write or a page without database is waiting or in the log.  Batches
\* removed from the queue are batches stored, whatever was added, cut back,
\* answered late or reloaded in between.
EventsAreAccountedFor ==
    Enqueued = writing \union store \union memory \union Recorded
                       \union lost.cut \union lost.failed

\* Only the surplus of a full queue is cut off: whatever a call of trimQueue deletes,
\* on the strength of what it read before others added and removed events, as many
\* events as the queue holds were enqueued no earlier.
OnlySurplusIsCut ==
    \A i \in lost.cut :
        Cardinality({j \in Enqueued \ {i} : Older(i, j)}) >= MAX_QUEUE_SIZE

\* The queue empties after lost requests and answers (playbackEvents.test.ts, line 43),
\* as long as the page stays paired and nothing in the queue names a content that was
\* deleted: one such event has its whole batch, the oldest, refused for ever.
Blocked == \E i \in Queue : event[i].content \notin contents \union {None}

QueueDrains ==
    []<>(Queue = {} \/ token = None \/ Blocked)

\* The queue implements the delivery of events as EventDelivery states it: an event waits
\* wherever the page keeps it, and is given up with a cut or a failure; every step of the
\* page, of its database calls and of the API is a step of the delivery or none.
Lost == lost.cut \union lost.failed
Waiting == (writing \union store \union memory) \ Recorded
Dropped == Lost \ Recorded

Delivery == INSTANCE EventDelivery
              WITH Events <- Ids, waiting <- Waiting, recorded <- Recorded, dropped <- Dropped

ImplementsDelivery == Delivery!Spec
=============================================================================
