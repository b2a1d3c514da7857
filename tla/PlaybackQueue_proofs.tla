------------------------- MODULE PlaybackQueue_proofs -------------------------
(* The safety invariants of PlaybackQueue hold for any devices and contents,  *)
(* any size of the queue and of a batch, and any bound on events and faults.  *)
(* The last part is about Alerts, which the API keeps of a device beside the  *)
(* log of what it played: no state is shared.  Types, and the exclusion of    *)
(* two kinds of alert, hold for any evaluations and any bounds.               *)
EXTENDS PlaybackQueue, Alerts, FiniteSetTheorems, SequenceTheorems, TLAPS

-----------------------------------------------------------------------------
(* The inductive invariant.                                                *)

InLog(r) == {r.device} \X r.batch \subseteq log

\* The batch of a call that was answered with success is in the log.
StoredOK == flush # None => (flush.phase = "stored" => InLog(flush.req))

\* Requests name events that were enqueued.
BatchesOK ==
    /\ flush # None => flush.req.batch \subseteq Enqueued
    /\ \A r \in late : r.batch \subseteq Enqueued

\* The times of events grow with their ids.
InOrder == \A i, j \in Enqueued : i <= j => Older(i, j)

\* As many events as the queue holds were enqueued no earlier than event i.
Surplus(i) == Cardinality({j \in Enqueued \ {i} : Older(i, j)}) >= MAX_QUEUE_SIZE

\* What a call of trimQueue is about to delete is surplus, whatever happened since.
ExcessOK == \A S \in excess : \A i \in S : Surplus(i)

IInv ==
    /\ TypeOK
    /\ StoredOK
    /\ BatchesOK
    /\ InOrder
    /\ ExcessOK
    /\ EventsAreAccountedFor
    /\ OnlySurplusIsCut

-----------------------------------------------------------------------------
(* Events that were enqueued.                                              *)

LEMMA EnqueuedFinite ==
    ASSUME TypeOK
    PROVE  /\ Len(event) \in Nat
           /\ IsFiniteSet(Enqueued)
           /\ Enqueued \subseteq Ids
           /\ \A i \in Enqueued : event[i] \in Event /\ event[i].enqueuedAt \in Nat
<1>1. Len(event) \in Nat /\ Len(event) <= MaxEvents /\ event \in Seq(Event)
  BY DEF TypeOK
<1>2. IsFiniteSet(Enqueued)
  BY <1>1, FS_Interval DEF Enqueued
<1>3. Enqueued \subseteq Ids
  BY <1>1, QueueAssumption DEF Enqueued, Ids
<1>4. \A i \in Enqueued : event[i] \in Event
  BY <1>1 DEF Enqueued
<1>5. \A x \in Event : x.enqueuedAt \in Nat
  BY DEF Event, Ids
<1> QED
  BY <1>1, <1>2, <1>3, <1>4, <1>5

LEMMA SubsetsFinite ==
    ASSUME TypeOK, NEW S, S \subseteq Enqueued
    PROVE  IsFiniteSet(S) /\ Cardinality(S) \in Nat
<1>1. IsFiniteSet(S)
  BY EnqueuedFinite, FS_Subset
<1> QED
  BY <1>1, FS_CardinalityType

LEMMA MoreIsEnough ==
    ASSUME NEW S, IsFiniteSet(S), NEW T \in SUBSET S, Cardinality(T) >= MAX_QUEUE_SIZE
    PROVE  Cardinality(S) >= MAX_QUEUE_SIZE
<1>1. IsFiniteSet(T) /\ Cardinality(T) <= Cardinality(S)
  BY FS_Subset
<1>2. Cardinality(S) \in Nat /\ Cardinality(T) \in Nat
  BY <1>1, FS_CardinalityType
<1> QED
  BY <1>1, <1>2, QueueAssumption

LEMMA EventKept ==
    ASSUME event' = event
    PROVE  /\ Enqueued' = Enqueued
           /\ InOrder' = InOrder
           /\ \A i : Surplus(i)' = Surplus(i)
BY DEF Enqueued, InOrder, Surplus, Older

\* Surplus stays surplus, whatever is enqueued.
LEMMA SurplusStays ==
    ASSUME TypeOK, TypeOK', NEW x, event' = Append(event, x),
           NEW i \in Enqueued, Surplus(i)
    PROVE  Surplus(i)'
<1> DEFINE old == {j \in Enqueued \ {i} : Older(i, j)}
           new == {j \in Enqueued' \ {i} : Older(i, j)'}
<1>1. Len(event) \in Nat /\ Len(event') = Len(event) + 1
  BY EnqueuedFinite DEF TypeOK
<1>2. Enqueued \subseteq Enqueued'
  BY <1>1 DEF Enqueued
<1>3. \A j \in Enqueued : event'[j] = event[j]
  BY <1>1 DEF Enqueued, TypeOK
<1>4. \A j \in Enqueued : Older(i, j)' = Older(i, j)
  BY <1>3 DEF Older
<1>5. old \in SUBSET new
  BY <1>2, <1>4
<1>6. IsFiniteSet(Enqueued')
  BY <1>1, FS_Interval DEF Enqueued
<1>7. IsFiniteSet(new)
  BY <1>6, FS_Subset
<1>8. Cardinality(old) >= MAX_QUEUE_SIZE
  BY DEF Surplus
<1>9. Cardinality(new) >= MAX_QUEUE_SIZE
  BY <1>5, <1>7, <1>8, MoreIsEnough
<1> QED
  BY <1>9 DEF Surplus

-----------------------------------------------------------------------------
(* Steps that enqueue nothing.                                             *)

\* What is left to show of such a step.
LEMMA Kept ==
    ASSUME IInv, event' = event, TypeOK', StoredOK', BatchesOK', EventsAreAccountedFor',
           \A S \in excess' : S \in excess \/ \A i \in S : Surplus(i),
           \A i \in lost'.cut : i \in lost.cut \/ Surplus(i)
    PROVE  IInv'
<1>1. Enqueued' = Enqueued /\ InOrder' /\ \A i : Surplus(i)' = Surplus(i)
  BY EventKept DEF IInv
<1>2. ExcessOK'
  BY <1>1 DEF IInv, ExcessOK
<1>3. \A i \in lost.cut : Surplus(i)
  BY DEF IInv, OnlySurplusIsCut, Surplus
<1>4. \A i \in lost'.cut : Surplus(i)'
  BY <1>1, <1>3
<1>5. OnlySurplusIsCut'
  BY <1>4 DEF OnlySurplusIsCut, Surplus
<1> QED
  BY <1>1, <1>2, <1>5 DEF IInv

LEMMA RecordedKept ==
    ASSUME event' = event, log \subseteq log'
    PROVE  Recorded \subseteq Recorded'
BY DEF Recorded, Enqueued

\* A step that touches neither requests nor log keeps what is said of them.
LEMMA RequestsKept ==
    ASSUME IInv, event' = event, flush' \in {flush, None}, late' = late, log' = log
    PROVE  StoredOK' /\ BatchesOK' /\ Recorded' = Recorded /\ Enqueued' = Enqueued
<1>1. Enqueued' = Enqueued
  BY EventKept
<1>2. StoredOK'
  BY DEF IInv, StoredOK, InLog
<1>3. BatchesOK'
  BY <1>1 DEF IInv, BatchesOK
<1>4. Recorded' = Recorded
  BY <1>1 DEF Recorded
<1> QED
  BY <1>1, <1>2, <1>3, <1>4

LEMMA PutStep ==
    ASSUME IInv, NEW i \in Ids, Put(i)
    PROVE  IInv'
<1>1. StoredOK' /\ BatchesOK' /\ Recorded' = Recorded /\ Enqueued' = Enqueued
  BY RequestsKept DEF Put
<1>2. TypeOK'
  BY <1>1 DEF IInv, TypeOK, Put
<1>3. EventsAreAccountedFor'
  BY <1>1 DEF IInv, EventsAreAccountedFor, Put
<1> QED
  BY <1>1, <1>2, <1>3, Kept DEF Put

LEMMA FaultType ==
    ASSUME faults \in 0 .. MaxFaults, Fault
    PROVE  faults' \in 0 .. MaxFaults
BY QueueAssumption DEF Fault

LEMMA LostType ==
    ASSUME TypeOK
    PROVE  /\ lost.cut \subseteq Enqueued /\ lost.failed \subseteq Enqueued
           /\ \A S : [lost EXCEPT !.cut = S] = [cut |-> S, failed |-> lost.failed]
           /\ \A S : [lost EXCEPT !.failed = S] = [cut |-> lost.cut, failed |-> S]
BY DEF TypeOK

LEMMA PutFailsStep ==
    ASSUME IInv, NEW i \in Ids, PutFails(i)
    PROVE  IInv'
<1>1. StoredOK' /\ BatchesOK' /\ Recorded' = Recorded /\ Enqueued' = Enqueued
  BY RequestsKept DEF PutFails
<1>2. lost' = [cut |-> lost.cut, failed |-> lost.failed \union {i}]
  BY LostType DEF IInv, PutFails
<1>3. TypeOK'
  BY <1>1, <1>2, FaultType, LostType DEF IInv, TypeOK, PutFails
<1>4. EventsAreAccountedFor'
  BY <1>1, <1>2 DEF IInv, EventsAreAccountedFor, PutFails
<1> QED
  BY <1>1, <1>2, <1>3, <1>4, Kept DEF PutFails

\* The oldest events of a store that is too large are surplus: as many as the queue
\* holds are left, and none of these is older.
LEMMA OldestAreSurplus ==
    ASSUME TypeOK, NEW S \in Oldest(store, Cardinality(store) - MAX_QUEUE_SIZE), NEW i \in S
    PROVE  Surplus(i)
<1>1. store \subseteq Enqueued /\ S \subseteq store
  BY DEF TypeOK, Oldest
<1>2. IsFiniteSet(store) /\ Cardinality(store) \in Nat
  BY <1>1, SubsetsFinite
<1>3. Cardinality(S) = Cardinality(store) - MAX_QUEUE_SIZE
  BY DEF Oldest
<1>4. IsFiniteSet(S) /\ store \intersect S = S
  BY <1>1, <1>2, FS_Subset
<1>5. Cardinality(store \ S) = Cardinality(store) - Cardinality(store \intersect S)
  BY <1>2, FS_Difference
<1>6. Cardinality(store \ S) = MAX_QUEUE_SIZE
  BY <1>2, <1>3, <1>4, <1>5, QueueAssumption
<1>7. \A j \in store \ S : Older(i, j)
  BY DEF Oldest
<1> DEFINE later == {j \in Enqueued \ {i} : Older(i, j)}
<1>8. store \ S \in SUBSET later /\ later \subseteq Enqueued
  BY <1>1, <1>7
<1>9. IsFiniteSet(later)
  BY <1>8, SubsetsFinite
<1>10. Cardinality(later) >= MAX_QUEUE_SIZE
  BY <1>6, <1>8, <1>9, MoreIsEnough, QueueAssumption
<1> QED
  BY <1>10 DEF Surplus

LEMMA ReadExcessStep ==
    ASSUME IInv, NEW i \in Ids, ReadExcess(i)
    PROVE  IInv'
<1>1. StoredOK' /\ BatchesOK' /\ Recorded' = Recorded /\ Enqueued' = Enqueued
  BY RequestsKept DEF ReadExcess
<1>2. EventsAreAccountedFor'
  BY <1>1 DEF IInv, EventsAreAccountedFor, ReadExcess
<1>3. CASE Cardinality(store) <= MAX_QUEUE_SIZE
  <2>1. excess' = excess
    BY <1>3 DEF ReadExcess
  <2>2. TypeOK'
    BY <1>1, <2>1 DEF IInv, TypeOK, ReadExcess
  <2> QED
    BY <1>1, <1>2, <2>1, <2>2, Kept DEF ReadExcess
<1>4. CASE ~(Cardinality(store) <= MAX_QUEUE_SIZE)
  <2>1. PICK S \in Oldest(store, Cardinality(store) - MAX_QUEUE_SIZE) :
            excess' = excess \union {S}
    BY <1>4 DEF ReadExcess
  <2>2. \A j \in S : Surplus(j)
    BY OldestAreSurplus DEF IInv
  <2>3. S \subseteq Enqueued
    BY DEF IInv, TypeOK, Oldest
  <2>4. TypeOK'
    BY <1>1, <2>1, <2>3 DEF IInv, TypeOK, ReadExcess
  <2>5. \A T \in excess' : T \in excess \/ \A j \in T : Surplus(j)
    BY <2>1, <2>2
  <2> QED
    BY <1>1, <1>2, <2>4, <2>5, Kept DEF ReadExcess
<1> QED
  BY <1>3, <1>4

LEMMA TrimFailsStep ==
    ASSUME IInv, NEW i \in Ids, TrimFails(i)
    PROVE  IInv'
<1>1. StoredOK' /\ BatchesOK' /\ Recorded' = Recorded /\ Enqueued' = Enqueued
  BY RequestsKept DEF TrimFails
<1>2. TypeOK'
  BY <1>1, FaultType DEF IInv, TypeOK, TrimFails
<1>3. EventsAreAccountedFor'
  BY <1>1 DEF IInv, EventsAreAccountedFor, TrimFails
<1> QED
  BY <1>1, <1>2, <1>3, Kept DEF TrimFails

LEMMA DeleteExcessStep ==
    ASSUME IInv, NEW S \in excess, DeleteExcess(S)
    PROVE  IInv'
<1>1. StoredOK' /\ BatchesOK' /\ Recorded' = Recorded /\ Enqueued' = Enqueued
  BY RequestsKept DEF DeleteExcess
<1>2. lost' = [cut |-> lost.cut \union (S \intersect store), failed |-> lost.failed]
  BY LostType DEF IInv, DeleteExcess
<1>3. TypeOK'
  BY <1>1, <1>2, LostType DEF IInv, TypeOK, DeleteExcess
<1>4. EventsAreAccountedFor'
  BY <1>1, <1>2 DEF IInv, EventsAreAccountedFor, DeleteExcess
<1>5. \A i \in lost'.cut : i \in lost.cut \/ Surplus(i)
  BY <1>2 DEF IInv, ExcessOK
<1> QED
  BY <1>1, <1>3, <1>4, <1>5, Kept DEF DeleteExcess
-----------------------------------------------------------------------------
(* Requests and their answers.                                             *)

LEMMA StartFlushStep ==
    ASSUME IInv, NEW B \in SUBSET Queue, StartFlush(B)
    PROVE  IInv'
<1>1. Enqueued' = Enqueued /\ Recorded' = Recorded
  BY DEF StartFlush, Enqueued, Recorded
<1>2. B \subseteq Enqueued /\ Enqueued \subseteq Ids
  BY EnqueuedFinite DEF IInv, TypeOK, Queue
<1>3. flush' = [phase |-> "sent", req |-> [device |-> token, batch |-> B]] /\ token \in Devices
  BY DEF StartFlush, IInv, TypeOK
<1>4. flush' \in Flush
  BY <1>2, <1>3 DEF Flush, Request
<1>5. TypeOK'
  BY <1>1, <1>4 DEF IInv, TypeOK, StartFlush
<1>6. StoredOK' /\ BatchesOK'
  BY <1>1, <1>2, <1>3 DEF IInv, StoredOK, BatchesOK, StartFlush
<1>7. EventsAreAccountedFor'
  BY <1>1 DEF IInv, EventsAreAccountedFor, StartFlush
<1> QED
  BY <1>5, <1>6, <1>7, Kept DEF StartFlush

\* A request that is stored puts its batch, and only that, into the log.
LEMMA RecordOK ==
    ASSUME IInv, NEW r \in Request, r.batch \subseteq Enqueued, Record(r), event' = event
    PROVE  /\ log' \subseteq Devices \X Enqueued
           /\ log \subseteq log' /\ InLog(r)'
           /\ Recorded \subseteq Recorded' /\ Recorded' \subseteq Enqueued
<1>1. r.device \in Devices
  BY DEF Request
<1>2. log' = log \union ({r.device} \X r.batch)
  BY DEF Record
<1>3. log' \subseteq Devices \X Enqueued
  BY <1>1, <1>2 DEF IInv, TypeOK
<1>4. Recorded \subseteq Recorded' /\ Recorded' \subseteq Enqueued
  BY <1>2, RecordedKept DEF Recorded, Enqueued
<1> QED
  BY <1>2, <1>3, <1>4 DEF InLog

LEMMA IngestStep ==
    ASSUME IInv, Ingest
    PROVE  IInv'
<1>1. Enqueued' = Enqueued
  BY EventKept DEF Ingest
<1>2. flush \in Flush /\ flush.req \in Request /\ flush.req.batch \subseteq Enqueued
  BY DEF IInv, TypeOK, BatchesOK, Ingest, Flush
<1>3. flush' = [phase |-> "stored", req |-> flush.req]
  BY <1>2 DEF Ingest, Flush
<1>4. /\ log' \subseteq Devices \X Enqueued /\ InLog(flush.req)'
      /\ Recorded \subseteq Recorded' /\ Recorded' \subseteq Enqueued
  BY <1>2, RecordOK DEF Ingest
<1>5. flush' \in Flush
  BY <1>2, <1>3 DEF Flush
<1>6. TypeOK'
  BY <1>1, <1>4, <1>5 DEF IInv, TypeOK, Ingest
<1>7. StoredOK'
  BY <1>3, <1>4 DEF StoredOK, InLog
<1>8. BatchesOK'
  BY <1>1, <1>2, <1>3 DEF IInv, BatchesOK, Ingest
<1>9. EventsAreAccountedFor'
  BY <1>1, <1>4 DEF IInv, EventsAreAccountedFor, Ingest
<1> QED
  BY <1>6, <1>7, <1>8, <1>9, Kept DEF Ingest

LEMMA RefuseStep ==
    ASSUME IInv, Refuse
    PROVE  IInv'
<1>1. StoredOK' /\ BatchesOK' /\ Recorded' = Recorded /\ Enqueued' = Enqueued
  BY RequestsKept DEF Refuse
<1>2. TypeOK'
  BY <1>1 DEF IInv, TypeOK, Refuse
<1>3. EventsAreAccountedFor'
  BY <1>1 DEF IInv, EventsAreAccountedFor, Refuse
<1> QED
  BY <1>1, <1>2, <1>3, Kept DEF Refuse

LEMMA FlushFailsStep ==
    ASSUME IInv, FlushFails
    PROVE  IInv'
<1>1. Enqueued' = Enqueued /\ Recorded' = Recorded
  BY DEF FlushFails, Enqueued, Recorded
<1>2. flush \in Flush /\ flush.req \in Request /\ flush.req.batch \subseteq Enqueued
  BY DEF IInv, TypeOK, BatchesOK, FlushFails, Flush
<1>3. late' \subseteq late \union {flush.req}
  BY DEF FlushFails
<1>4. TypeOK'
  BY <1>1, <1>2, <1>3, FaultType DEF IInv, TypeOK, FlushFails
<1>5. StoredOK' /\ BatchesOK'
  BY <1>1, <1>2, <1>3 DEF IInv, StoredOK, BatchesOK, FlushFails
<1>6. EventsAreAccountedFor'
  BY <1>1 DEF IInv, EventsAreAccountedFor, FlushFails
<1> QED
  BY <1>4, <1>5, <1>6, Kept DEF FlushFails

\* What is removed is in the log, whatever else left or entered the queue.
LEMMA removeManyStep ==
    ASSUME IInv, removeMany
    PROVE  IInv'
<1>1. StoredOK' /\ BatchesOK' /\ Recorded' = Recorded /\ Enqueued' = Enqueued
  BY RequestsKept DEF removeMany
<1>2. flush.req.batch \subseteq Enqueued /\ InLog(flush.req) /\ flush.req.device \in Devices
  BY DEF IInv, TypeOK, StoredOK, BatchesOK, removeMany, Flush, Request
<1>3. flush.req.batch \subseteq Recorded
  BY <1>2 DEF InLog, Recorded
<1>4. /\ store' \subseteq store /\ store \subseteq store' \union flush.req.batch
      /\ memory' \subseteq memory /\ memory \subseteq memory' \union flush.req.batch
  BY DEF removeMany
<1>5. TypeOK'
  BY <1>1, <1>4 DEF IInv, TypeOK, removeMany
<1>6. EventsAreAccountedFor'
  BY <1>1, <1>3, <1>4 DEF IInv, EventsAreAccountedFor, removeMany
<1> QED
  BY <1>1, <1>5, <1>6, Kept DEF removeMany

LEMMA IngestLateStep ==
    ASSUME IInv, NEW r \in late, IngestLate(r)
    PROVE  IInv'
<1>1. Enqueued' = Enqueued
  BY EventKept DEF IngestLate
<1>2. r \in Request /\ r.batch \subseteq Enqueued
  BY DEF IInv, TypeOK, BatchesOK
<1>3. /\ log' \subseteq Devices \X Enqueued /\ log \subseteq log'
      /\ Recorded \subseteq Recorded' /\ Recorded' \subseteq Enqueued
  <2>1. CASE Accepted(r)
    BY <1>2, <2>1, RecordOK DEF IngestLate
  <2>2. CASE ~Accepted(r)
    BY <2>2, <1>1 DEF IngestLate, IInv, TypeOK, Recorded
  <2> QED
    BY <2>1, <2>2
<1>4. TypeOK'
  BY <1>1, <1>3 DEF IInv, TypeOK, IngestLate
<1>5. StoredOK' /\ BatchesOK'
  BY <1>1, <1>3 DEF IInv, StoredOK, BatchesOK, InLog, IngestLate
<1>6. EventsAreAccountedFor'
  BY <1>1, <1>3 DEF IInv, EventsAreAccountedFor, IngestLate
<1> QED
  BY <1>4, <1>5, <1>6, Kept DEF IngestLate

-----------------------------------------------------------------------------
(* The page and its surroundings.                                          *)

LEMMA ReloadStep ==
    ASSUME IInv, Reload
    PROVE  IInv'
<1>1. Enqueued' = Enqueued /\ Recorded' = Recorded
  BY DEF Reload, Enqueued, Recorded
<1>2. lost' = [cut |-> lost.cut, failed |-> lost.failed \union writing \union memory]
  BY LostType DEF IInv, Reload
<1>3. late' \subseteq Request /\ \A r \in late' : r.batch \subseteq Enqueued
  BY DEF IInv, TypeOK, BatchesOK, Reload, Flush
<1>4. TypeOK'
  BY <1>1, <1>2, <1>3, FaultType, LostType DEF IInv, TypeOK, Reload
<1>5. StoredOK' /\ BatchesOK'
  BY <1>1, <1>3 DEF StoredOK, BatchesOK, Reload
<1>6. EventsAreAccountedFor'
  BY <1>1, <1>2 DEF IInv, EventsAreAccountedFor, Reload
<1>7. excess' = {} /\ lost'.cut = lost.cut
  BY <1>2 DEF Reload
<1> QED
  BY <1>4, <1>5, <1>6, <1>7, Kept DEF Reload

\* Sessions and contents come and go without touching an event.
LEMMA SurroundingsStep ==
    ASSUME IInv,
           \/ invalidateSession
           \/ \E d \in Devices : performPair(d)
           \/ \E c \in Contents : RemoveContent(c)
    PROVE  IInv'
<1>1. /\ UNCHANGED <<db, event, writing, store, trimming, excess, memory, flush, late, log, lost>>
      /\ token' \in Devices \union {None} /\ contents' \subseteq Contents
      /\ faults' = faults \/ Fault
  BY DEF IInv, TypeOK, invalidateSession, performPair, RemoveContent
<1>2. faults' \in 0 .. MaxFaults
  BY <1>1, FaultType DEF IInv, TypeOK
<1>3. StoredOK' /\ BatchesOK' /\ Recorded' = Recorded /\ Enqueued' = Enqueued
  BY <1>1, RequestsKept
<1>4. TypeOK'
  BY <1>1, <1>2, <1>3 DEF IInv, TypeOK
<1>5. EventsAreAccountedFor'
  BY <1>1, <1>3 DEF IInv, EventsAreAccountedFor
<1> QED
  BY <1>1, <1>3, <1>4, <1>5, Kept
-----------------------------------------------------------------------------
(* Enqueueing.                                                             *)

\* The new event has the next id, and a time no earlier than the others'.
LEMMA EnqueueGrows ==
    ASSUME IInv, NEW c \in Contents \union {None}, NEW t \in Ids, Enqueue(c, t)
    PROVE  /\ Len(event) + 1 \in Ids /\ Len(event) \in Nat
           /\ event' \in Seq(Event) /\ Len(event') = Len(event) + 1
           /\ Enqueued' = Enqueued \union {Len(event) + 1}
           /\ \A i \in Enqueued : event'[i] = event[i]
           /\ InOrder'
<1> DEFINE n == Len(event) + 1
           x == [enqueuedAt |-> t, content |-> c]
<1>1. Len(event) \in Nat /\ event \in Seq(Event) /\ Len(event) < MaxEvents
  BY EnqueuedFinite DEF IInv, TypeOK, Enqueue
<1>2. n \in Ids
  BY <1>1, QueueAssumption DEF Ids
<1>3. x \in Event /\ event' = Append(event, x)
  BY DEF Event, Enqueue
<1>4. /\ event' \in Seq(Event) /\ Len(event') = n /\ event'[n] = x
      /\ \A i \in Enqueued : event'[i] = event[i]
  BY <1>1, <1>3 DEF Enqueued
<1>5. Enqueued' = Enqueued \union {n}
  BY <1>1, <1>4 DEF Enqueued
<1>6. \A i \in Enqueued : event[i].enqueuedAt \in Nat
  BY EnqueuedFinite DEF IInv
<1>7. ASSUME NEW i \in Enqueued
      PROVE  event[i].enqueuedAt <= t
  <2>1. event # <<>> /\ Len(event) \in Enqueued /\ i <= Len(event)
    BY <1>1 DEF Enqueued
  <2>2. event[i].enqueuedAt <= event[Len(event)].enqueuedAt
    BY <2>1 DEF IInv, InOrder, Older
  <2>3. t - event[Len(event)].enqueuedAt \in {0, 1}
    BY <2>1 DEF Enqueue, Now
  <2>4. t \in Nat /\ event[Len(event)].enqueuedAt \in Nat /\ event[i].enqueuedAt \in Nat
    BY <1>6, <2>1 DEF Ids
  <2> QED
    BY <2>2, <2>3, <2>4
<1>8. ASSUME NEW i \in Enqueued', NEW j \in Enqueued', i <= j
      PROVE  Older(i, j)'
  <2>1. CASE j \in Enqueued
    <3>1. i \in Enqueued
      BY <1>1, <1>5, <1>8, <2>1 DEF Enqueued
    <3> QED
      BY <1>4, <1>8, <2>1, <3>1 DEF IInv, InOrder, Older
  <2>2. CASE j = n /\ i \in Enqueued
    BY <1>4, <1>7, <2>2 DEF Older
  <2>3. CASE j = n /\ i = n
    BY <1>4, <2>3 DEF Older, Ids
  <2> QED
    BY <1>5, <2>1, <2>2, <2>3
<1> QED
  BY <1>1, <1>2, <1>4, <1>5, <1>8 DEF InOrder

\* Without a database the array gives up its first event when it is too long.
LEMMA PushOK ==
    ASSUME IInv, NEW c \in Contents \union {None}, NEW t \in Ids, Enqueue(c, t), ~db
    PROVE  \E cut \in SUBSET (memory \union {Len(event) + 1}) :
              /\ cut \subseteq Enqueued'
              /\ memory' = (memory \union {Len(event) + 1}) \ cut
              /\ lost' = [cut |-> lost.cut \union cut, failed |-> lost.failed]
              /\ writing' = writing
              /\ \A i \in cut : Surplus(i)'
<1> DEFINE n == Len(event) + 1
           all == memory \union {n}
           cut == IF Cardinality(all) > MAX_QUEUE_SIZE THEN OldestInMemory(all, 1) ELSE {}
<1>1. /\ Enqueued' = Enqueued \union {n} /\ InOrder' /\ memory \subseteq Enqueued
      /\ Len(event') = n /\ n \in Nat
  BY EnqueueGrows DEF IInv, TypeOK
<1>2. Push(n)
  BY DEF Enqueue
<1>3. memory' = all \ cut /\ writing' = writing
      /\ lost' = [cut |-> lost.cut \union cut, failed |-> lost.failed]
  BY <1>2, LostType DEF Push, IInv
<1>4. cut \subseteq all /\ all \subseteq Enqueued'
  BY <1>1 DEF OldestInMemory
<1>5. IsFiniteSet(Enqueued')
  BY <1>1, FS_Interval DEF Enqueued
<1>6. IsFiniteSet(all) /\ Cardinality(all) \in Nat
  BY <1>4, <1>5, FS_Subset, FS_CardinalityType
<1>7. ASSUME NEW i \in cut
      PROVE  Surplus(i)'
  <2> DEFINE before == {j \in all : j < i}
             later == {j \in Enqueued' \ {i} : Older(i, j)'}
  <2>1. Cardinality(all) > MAX_QUEUE_SIZE /\ i \in all /\ Cardinality(before) < 1
    BY DEF OldestInMemory
  <2>2. IsFiniteSet(before)
    BY <1>6, FS_Subset
  <2>3. Cardinality(before) \in Nat
    BY <2>2, FS_CardinalityType
  <2>4. Cardinality(before) = 0
    BY <2>1, <2>3
  <2>5. before = {}
    BY <2>2, <2>4, FS_EmptySet
  <2>6. \A j \in all : j \in Nat
    BY <1>1, <1>4 DEF Enqueued
  <2>7. \A j \in all : Older(i, j)'
    BY <1>1, <1>4, <2>1, <2>5, <2>6 DEF InOrder
  <2>8. all \ {i} \in SUBSET later
    BY <1>4, <2>7
  <2>9. IsFiniteSet(later)
    BY <1>5, FS_Subset
  <2>10. Cardinality(all \ {i}) = Cardinality(all) - 1
    BY <1>6, <2>1, FS_RemoveElement
  <2>11. Cardinality(all \ {i}) >= MAX_QUEUE_SIZE
    BY <1>6, <2>1, <2>10, QueueAssumption
  <2>12. Cardinality(later) >= MAX_QUEUE_SIZE
    BY <2>8, <2>9, <2>11, MoreIsEnough
  <2> QED
    BY <2>12 DEF Surplus
<1>8. cut \in SUBSET all /\ cut \subseteq Enqueued'
  BY <1>4
<1> HIDE DEF cut
<1> QED
  BY <1>3, <1>7, <1>8

LEMMA EnqueueStep ==
    ASSUME IInv, NEW c \in Contents \union {None}, NEW t \in Ids, Enqueue(c, t)
    PROVE  IInv'
<1> DEFINE n == Len(event) + 1
<1>1. /\ event' \in Seq(Event) /\ Len(event') = n /\ Len(event) \in Nat /\ n \in Ids
      /\ Enqueued' = Enqueued \union {n}
      /\ InOrder'
  BY EnqueueGrows
<1>2. UNCHANGED <<token, db, store, trimming, excess, flush, late, log, contents, faults>>
  BY DEF Enqueue
<1>3. PICK cut \in SUBSET Enqueued' :
          /\ writing' \union memory' \union cut = writing \union memory \union {n} \union cut
          /\ writing' \subseteq Enqueued' /\ memory' \subseteq Enqueued'
          /\ lost' = [cut |-> lost.cut \union cut, failed |-> lost.failed]
          /\ \A i \in cut : Surplus(i)'
  <2>1. CASE db
    <3>1. writing' = writing \union {n} /\ memory' = memory /\ lost' = lost
      BY <2>1 DEF Enqueue
    <3>2. lost = [cut |-> lost.cut, failed |-> lost.failed]
      BY DEF IInv, TypeOK
    <3>3. writing' \subseteq Enqueued' /\ memory' \subseteq Enqueued'
      BY <1>1, <3>1 DEF IInv, TypeOK
    <3>4. {} \in SUBSET Enqueued' /\ lost' = [cut |-> lost.cut \union {}, failed |-> lost.failed]
      BY <3>1, <3>2
    <3> HIDE DEF n
    <3> QED
      BY <3>1, <3>3, <3>4
  <2>2. CASE ~db
    <3>1. PICK cut \in SUBSET (memory \union {n}) :
              /\ cut \subseteq Enqueued'
              /\ memory' = (memory \union {n}) \ cut
              /\ lost' = [cut |-> lost.cut \union cut, failed |-> lost.failed]
              /\ writing' = writing
              /\ \A i \in cut : Surplus(i)'
      BY <2>2, PushOK
    <3>2. writing \subseteq Enqueued' /\ memory \subseteq Enqueued' /\ n \in Enqueued'
      BY <1>1 DEF IInv, TypeOK
    <3> QED
      BY <3>1, <3>2
  <2> QED
    BY <2>1, <2>2
<1>4. lost.cut \subseteq Enqueued /\ lost.failed \subseteq Enqueued
  BY LostType DEF IInv
<1>5. Len(event') <= MaxEvents
  BY <1>1, QueueAssumption DEF Ids
<1>6. TypeOK'
  BY <1>1, <1>2, <1>3, <1>4, <1>5 DEF IInv, TypeOK
<1>7. StoredOK' /\ BatchesOK'
  BY <1>1, <1>2 DEF IInv, StoredOK, BatchesOK, InLog
<1>8. \A i \in Enqueued : Surplus(i) => Surplus(i)'
  BY <1>6, SurplusStays DEF IInv, Enqueue
<1>9. ExcessOK'
  BY <1>2, <1>8 DEF IInv, ExcessOK, TypeOK
<1>10. \A i \in lost'.cut : Surplus(i)'
  BY <1>3, <1>4, <1>8 DEF IInv, OnlySurplusIsCut, Surplus
<1>11. OnlySurplusIsCut'
  BY <1>10 DEF OnlySurplusIsCut, Surplus
<1>12. Recorded' = Recorded
  BY <1>1, <1>2 DEF Recorded, IInv, TypeOK
<1>13. lost'.cut = lost.cut \union cut /\ lost'.failed = lost.failed
  BY <1>3
<1>14. EventsAreAccountedFor'
  BY <1>1, <1>2, <1>3, <1>12, <1>13 DEF IInv, EventsAreAccountedFor
<1> QED
  BY <1>1, <1>6, <1>7, <1>9, <1>11, <1>14 DEF IInv
-----------------------------------------------------------------------------
(* The theorems.                                                           *)

LEMMA InitOK == Init => IInv
<1> SUFFICES ASSUME Init PROVE IInv
  OBVIOUS
<1>1. Len(event) = 0 /\ Enqueued = {}
  BY DEF Init, Enqueued
<1>2. TypeOK
  BY <1>1, QueueAssumption DEF Init, TypeOK
<1>3. StoredOK /\ BatchesOK /\ InOrder /\ ExcessOK
  BY <1>1 DEF Init, StoredOK, BatchesOK, InOrder, ExcessOK
<1>4. EventsAreAccountedFor /\ OnlySurplusIsCut
  BY <1>1 DEF Init, EventsAreAccountedFor, Recorded, OnlySurplusIsCut
<1> QED
  BY <1>2, <1>3, <1>4 DEF IInv

LEMMA NextOK == IInv /\ [Next]_vars => IInv'
<1> SUFFICES ASSUME IInv, [Next]_vars PROVE IInv'
  OBVIOUS
<1>1. CASE Saves
  BY <1>1, PutStep, ReadExcessStep, DeleteExcessStep DEF Saves
<1>2. ASSUME UNCHANGED vars
      PROVE  IInv'
  <2>1. StoredOK' /\ BatchesOK' /\ Recorded' = Recorded /\ Enqueued' = Enqueued
    BY <1>2, RequestsKept DEF vars
  <2>2. TypeOK' /\ EventsAreAccountedFor'
    BY <1>2, <2>1 DEF vars, IInv, TypeOK, EventsAreAccountedFor
  <2> QED
    BY <1>2, <2>1, <2>2, Kept DEF vars
<1>3. CASE Sends
  BY <1>2, <1>3, StartFlushStep, IngestStep, RefuseStep, removeManyStep DEF Sends, SkipFlush
<1>4. CASE Environment
  BY <1>4, EnqueueStep, PutFailsStep, TrimFailsStep, FlushFailsStep, ReloadStep,
     IngestLateStep, SurroundingsStep DEF Environment
<1> QED
  BY <1>1, <1>2, <1>3, <1>4 DEF Next

\* The invariant of the queue: what trimQueue is about to delete is surplus and what
\* removeMany is about to remove is in the log, at every moment of every call.
THEOREM Invariance == Spec => []IInv
<1>1. Spec => Init /\ [][Next]_vars
  BY DEF Spec
<1> QED
  BY <1>1, InitOK, NextOK, PTL

\* Every reachable state is well typed: no request is sent without a device.
THEOREM TypeCorrect == Spec => []TypeOK
<1>1. IInv => TypeOK
  BY DEF IInv
<1> QED
  BY <1>1, Invariance, PTL

\* No event disappears from the queue of playbackEvents.ts other than into the log,
\* off a full queue, or with a failure that is the event's own.
THEOREM EventsStayAccountedFor == Spec => []EventsAreAccountedFor
<1>1. IInv => EventsAreAccountedFor
  BY DEF IInv
<1> QED
  BY <1>1, Invariance, PTL

\* trimQueue and the shift of memoryFallback cut off surplus only.
THEOREM OnlySurplusIsEverCut == Spec => []OnlySurplusIsCut
<1>1. IInv => OnlySurplusIsCut
  BY DEF IInv
<1> QED
  BY <1>1, Invariance, PTL

-----------------------------------------------------------------------------
(* The queue implements the delivery of events.                            *)

\* The page keeps an event in one place at a time.
Places ==
    /\ writing \intersect store = {}
    /\ writing \intersect memory = {}
    /\ store \intersect memory = {}

Held == writing \union store \union memory

\* The events the delivery knows are those that were enqueued.
LEMMA KnownIsEnqueued ==
    ASSUME IInv
    PROVE  Waiting \union Recorded \union Dropped = Enqueued /\ Recorded \subseteq Enqueued
BY DEF IInv, EventsAreAccountedFor, Waiting, Dropped, Lost, Recorded

\* A step that gives up the events of S, and records none.
LEMMA GivesUp ==
    ASSUME NEW S, Held' = Held \ S, S \subseteq Held, Lost' = Lost \union S, Recorded' = Recorded
    PROVE  Delivery!Drop
<1>1. Waiting' = Waiting \ S
  BY DEF Waiting, Held
<1>2. Dropped' = Dropped \union (Waiting \ Waiting')
  BY <1>1 DEF Waiting, Dropped, Held
<1> QED
  BY <1>1, <1>2 DEF Delivery!Drop

\* A step that moves events, or removes such as are recorded.
LEMMA Stutters ==
    ASSUME Held' \subseteq Held, Held \subseteq Held' \union Recorded, Lost' = Lost,
           Recorded' = Recorded
    PROVE  UNCHANGED Delivery!vars
<1>1. Waiting' = Waiting /\ Dropped' = Dropped
  BY DEF Waiting, Dropped, Held
<1> QED
  BY <1>1 DEF Delivery!vars

\* A step that records events.
LEMMA Records ==
    ASSUME IInv, Held' = Held, Lost' = Lost, Recorded \subseteq Recorded', Recorded' \subseteq Enqueued
    PROVE  Delivery!Record
<1>1. Waiting' = Waiting \ Recorded' /\ Dropped' = Dropped \ Recorded'
  BY DEF Waiting, Dropped, Held
<1> QED
  BY <1>1, KnownIsEnqueued DEF Delivery!Record, Delivery!Known

LEMMA DatabaseImplements ==
    ASSUME IInv, Places, Saves \/ \E i \in Ids : PutFails(i) \/ TrimFails(i)
    PROVE  [Delivery!Next]_(Delivery!vars)
<1>1. ASSUME NEW i \in Ids, Put(i) \/ ReadExcess(i) \/ TrimFails(i)
      PROVE  UNCHANGED Delivery!vars
  <2>1. UNCHANGED <<event, log, lost>>
    BY <1>1 DEF Put, ReadExcess, TrimFails
  <2>2. Held' = Held
    BY <1>1 DEF Put, ReadExcess, TrimFails, Held
  <2>3. Recorded' = Recorded /\ Lost' = Lost
    BY <2>1 DEF Recorded, Enqueued, Lost
  <2> QED
    BY <2>2, <2>3, Stutters
<1>2. ASSUME NEW i \in Ids, PutFails(i)
      PROVE  Delivery!Drop
  <2>1. UNCHANGED <<event, log, store, memory>> /\ writing' = writing \ {i} /\ i \in writing
    BY <1>2 DEF PutFails
  <2>2. lost' = [cut |-> lost.cut, failed |-> lost.failed \union {i}]
    BY <1>2, LostType DEF IInv, PutFails
  <2>3. Held' = Held \ {i} /\ {i} \subseteq Held
    BY <2>1 DEF Held, Places
  <2>4. Recorded' = Recorded /\ Lost' = Lost \union {i}
    BY <2>1, <2>2 DEF Recorded, Enqueued, Lost
  <2> QED
    BY <2>3, <2>4, GivesUp
<1>3. ASSUME NEW S \in excess, DeleteExcess(S)
      PROVE  Delivery!Drop
  <2> DEFINE C == S \intersect store
  <2>1. UNCHANGED <<event, log, writing, memory>> /\ store' = store \ S
    BY <1>3 DEF DeleteExcess
  <2>2. lost' = [cut |-> lost.cut \union C, failed |-> lost.failed]
    BY <1>3, LostType DEF IInv, DeleteExcess
  <2>3. Held' = Held \ C /\ C \subseteq Held
    BY <2>1 DEF Held, Places
  <2>4. Recorded' = Recorded /\ Lost' = Lost \union C
    BY <2>1, <2>2 DEF Recorded, Enqueued, Lost
  <2> QED
    BY <2>3, <2>4, GivesUp
<1> QED
  BY <1>1, <1>2, <1>3 DEF Saves, Delivery!Next

LEMMA RequestsImplement ==
    ASSUME IInv, Places, Sends \/ FlushFails \/ \E r \in late : IngestLate(r)
    PROVE  [Delivery!Next]_(Delivery!vars)
<1>1. ASSUME FlushFails \/ Refuse \/ SkipFlush \/ \E B \in SUBSET Queue : StartFlush(B)
      PROVE  UNCHANGED Delivery!vars
  <2>1. UNCHANGED <<event, log, lost, writing, store, memory>>
    BY <1>1 DEF FlushFails, Refuse, SkipFlush, StartFlush, vars
  <2>2. Held' = Held /\ Recorded' = Recorded /\ Lost' = Lost
    BY <2>1 DEF Held, Recorded, Enqueued, Lost
  <2> QED
    BY <2>2, Stutters
<1>2. ASSUME removeMany
      PROVE  UNCHANGED Delivery!vars
  <2>1. UNCHANGED <<event, log, lost, writing>>
    BY <1>2 DEF removeMany
  <2>2. flush.req.batch \subseteq Enqueued /\ InLog(flush.req) /\ flush.req.device \in Devices
    BY <1>2 DEF IInv, TypeOK, StoredOK, BatchesOK, removeMany, Flush, Request
  <2>3. flush.req.batch \subseteq Recorded
    BY <2>2 DEF InLog, Recorded
  <2>4. /\ store' \subseteq store /\ store \subseteq store' \union flush.req.batch
        /\ memory' \subseteq memory /\ memory \subseteq memory' \union flush.req.batch
    BY <1>2 DEF removeMany
  <2>5. Held' \subseteq Held /\ Held \subseteq Held' \union Recorded
    BY <2>1, <2>3, <2>4 DEF Held
  <2>6. Recorded' = Recorded /\ Lost' = Lost
    BY <2>1 DEF Recorded, Enqueued, Lost
  <2> QED
    BY <2>5, <2>6, Stutters
<1>3. ASSUME Ingest
      PROVE  Delivery!Record
  <2>1. UNCHANGED <<event, lost, writing, store, memory>>
    BY <1>3 DEF Ingest
  <2>2. flush.req \in Request /\ flush.req.batch \subseteq Enqueued
    BY <1>3 DEF IInv, TypeOK, BatchesOK, Ingest, Flush
  <2>3. Recorded \subseteq Recorded' /\ Recorded' \subseteq Enqueued
    BY <1>3, <2>2, RecordOK DEF Ingest
  <2>4. Held' = Held /\ Lost' = Lost
    BY <2>1 DEF Held, Lost
  <2> QED
    BY <2>3, <2>4, Records
<1>4. ASSUME NEW r \in late, IngestLate(r)
      PROVE  Delivery!Record
  <2>1. UNCHANGED <<event, lost, writing, store, memory>>
    BY <1>4 DEF IngestLate
  <2>2. r \in Request /\ r.batch \subseteq Enqueued
    BY DEF IInv, TypeOK, BatchesOK
  <2>3. Recorded \subseteq Recorded' /\ Recorded' \subseteq Enqueued
    <3>1. CASE Accepted(r)
      BY <1>4, <2>1, <2>2, <3>1, RecordOK DEF IngestLate
    <3>2. CASE ~Accepted(r)
      BY <1>4, <2>1, <3>2 DEF IngestLate, Recorded, Enqueued
    <3> QED
      BY <3>1, <3>2
  <2>4. Held' = Held /\ Lost' = Lost
    BY <2>1 DEF Held, Lost
  <2> QED
    BY <2>3, <2>4, Records
<1> QED
  BY <1>1, <1>2, <1>3, <1>4 DEF Sends, Delivery!Next

\* What the page adds: an array that is full gives up its first event.
LEMMA EnqueueImplements ==
    ASSUME IInv, Places, NEW c \in Contents \union {None}, NEW t \in Ids, Enqueue(c, t)
    PROVE  \E i \in Ids : Delivery!Take(i)
<1> DEFINE n == Len(event) + 1
<1>1. /\ Enqueued' = Enqueued \union {n} /\ n \in Ids /\ n \notin Enqueued
      /\ UNCHANGED <<store, log>>
  BY EnqueueGrows DEF Enqueue, Enqueued
<1> HIDE DEF n
<1>2. Recorded' = Recorded /\ n \notin Recorded
  <2>1. log \subseteq Devices \X Enqueued
    BY DEF IInv, TypeOK
  <2>2. \A d \in Devices : <<d, n>> \notin log
    BY <1>1, <2>1
  <2> QED
    BY <1>1, <2>2 DEF Recorded
<1>3. /\ store \subseteq Enqueued /\ writing \subseteq Enqueued /\ memory \subseteq Enqueued
      /\ Lost \subseteq Enqueued
  BY LostType DEF IInv, TypeOK, Lost
<1>4. PICK cut \in SUBSET (Held \union {n}) :
          Held' = (Held \union {n}) \ cut /\ Lost' = Lost \union cut
  <2>1. CASE db
    <3>1. writing' = writing \union {n} /\ UNCHANGED <<memory, lost>>
      BY <2>1 DEF Enqueue, n
    <3>2. Held' = (Held \union {n}) \ {} /\ Lost' = Lost \union {}
      BY <1>1, <3>1 DEF Held, Lost
    <3> QED
      BY <3>2
  <2>2. CASE ~db
    <3>1. PICK cut \in SUBSET (memory \union {n}) :
              /\ memory' = (memory \union {n}) \ cut
              /\ lost' = [cut |-> lost.cut \union cut, failed |-> lost.failed]
              /\ writing' = writing
      BY <2>2, PushOK DEF n
    <3>2. Held' = (Held \union {n}) \ cut
      BY <1>1, <1>3, <3>1 DEF Held, Places
    <3>3. Lost' = Lost \union cut
      BY <3>1 DEF Lost
    <3> QED
      BY <3>1, <3>2, <3>3 DEF Held
  <2> QED
    BY <2>1, <2>2
<1>5. Waiting' = (Waiting \union {n}) \ cut
  BY <1>2, <1>4 DEF Waiting, Held
<1>6. Dropped' = Dropped \union ((Waiting \union {n}) \ Waiting')
  BY <1>2, <1>4, <1>5 DEF Waiting, Dropped, Held
<1>7. Delivery!Take(n)
  BY <1>1, <1>2, <1>5, <1>6, KnownIsEnqueued DEF Delivery!Take, Delivery!Known
<1> QED
  BY <1>1, <1>7

LEMMA SurroundingsImplement ==
    ASSUME IInv, Places,
           \/ Reload
           \/ invalidateSession
           \/ \E d \in Devices : performPair(d)
           \/ \E c \in Contents : RemoveContent(c)
    PROVE  [Delivery!Next]_(Delivery!vars)
<1>1. ASSUME Reload
      PROVE  Delivery!Drop
  <2> DEFINE S == writing \union memory
  <2>1. UNCHANGED <<event, log, store>> /\ writing' = {} /\ memory' = {}
    BY <1>1 DEF Reload
  <2>2. lost' = [cut |-> lost.cut, failed |-> lost.failed \union writing \union memory]
    BY <1>1, LostType DEF IInv, Reload
  <2>3. Held' = Held \ S /\ S \subseteq Held
    BY <2>1 DEF Held, Places
  <2>4. Recorded' = Recorded /\ Lost' = Lost \union S
    BY <2>1, <2>2 DEF Recorded, Enqueued, Lost
  <2> QED
    BY <2>3, <2>4, GivesUp
<1>2. ASSUME \/ invalidateSession
             \/ \E d \in Devices : performPair(d)
             \/ \E c \in Contents : RemoveContent(c)
      PROVE  UNCHANGED Delivery!vars
  <2>1. UNCHANGED <<event, log, lost, writing, store, memory>>
    BY <1>2 DEF invalidateSession, performPair, RemoveContent
  <2>2. Held' = Held /\ Recorded' = Recorded /\ Lost' = Lost
    BY <2>1 DEF Held, Recorded, Enqueued, Lost
  <2> QED
    BY <2>2, Stutters
<1> QED
  BY <1>1, <1>2 DEF Delivery!Next

LEMMA NextImplements ==
    ASSUME IInv, Places, [Next]_vars
    PROVE  [Delivery!Next]_(Delivery!vars)
<1>1. CASE UNCHANGED vars
  <2>1. Held' = Held /\ Recorded' = Recorded /\ Lost' = Lost
    BY <1>1 DEF vars, Held, Recorded, Enqueued, Lost
  <2> QED
    BY <2>1, Stutters
<1>2. CASE \E c \in Contents \union {None}, t \in Ids : Enqueue(c, t)
  BY <1>2, EnqueueImplements DEF Delivery!Next
<1>3. CASE Saves \/ Sends
  BY <1>3, DatabaseImplements, RequestsImplement
<1>4. CASE Environment
  BY <1>2, <1>4, DatabaseImplements, RequestsImplement, SurroundingsImplement DEF Environment
<1> QED
  BY <1>1, <1>3, <1>4 DEF Next

LEMMA PlacesKept ==
    ASSUME IInv, Places, [Next]_vars
    PROVE  Places'
<1>1. ASSUME NEW c \in Contents \union {None}, NEW t \in Ids, Enqueue(c, t)
      PROVE  Places'
  <2>1. /\ Len(event) + 1 \notin Enqueued /\ store' = store
        /\ store \subseteq Enqueued /\ writing \subseteq Enqueued /\ memory \subseteq Enqueued
    BY <1>1, EnqueueGrows DEF IInv, TypeOK, Enqueued, Enqueue
  <2>2. CASE db
    BY <1>1, <2>1, <2>2 DEF Enqueue, Places
  <2>3. CASE ~db
    BY <1>1, <2>1, <2>3, PushOK DEF Places
  <2> QED
    BY <2>2, <2>3
<1>2. CASE Saves
  BY <1>2 DEF Saves, Put, ReadExcess, DeleteExcess, Places
<1>3. CASE Sends
  BY <1>3 DEF Sends, StartFlush, SkipFlush, Ingest, Refuse, removeMany, vars, Places
<1>4. CASE Environment
  BY <1>1, <1>4 DEF Environment, PutFails, TrimFails, FlushFails, Reload, invalidateSession,
     IngestLate, performPair, RemoveContent, Places
<1>5. CASE UNCHANGED vars
  BY <1>5 DEF vars, Places
<1> QED
  BY <1>2, <1>3, <1>4, <1>5 DEF Next

LEMMA InitImplements ==
    ASSUME Init
    PROVE  Places /\ Delivery!Init
BY DEF Init, Places, Delivery!Init, Waiting, Recorded, Dropped, Lost, Enqueued

\* Whatever the database calls, requests, answers, reloads and pairings of proof of play
\* do, in any order, is a delivery of events: what is recorded stays recorded, what waits
\* goes on to wait until it is recorded or given up, and nothing is forgotten.
THEOREM ImplementsTheDelivery == Spec => ImplementsDelivery
<1>1. Init => Places /\ Delivery!Init
  BY InitImplements
<1>2. IInv /\ Places /\ [Next]_vars => Places'
  BY PlacesKept
<1>3. IInv /\ Places /\ [Next]_vars => [Delivery!Next]_(Delivery!vars)
  BY NextImplements
<1>4. Spec => Init /\ [][Next]_vars
  BY DEF Spec
<1>5. Spec => Delivery!Spec
  BY <1>1, <1>2, <1>3, <1>4, Invariance, PTL DEF Delivery!Spec
<1> QED
  BY <1>5 DEF ImplementsDelivery

-----------------------------------------------------------------------------
(* The alerts of a device (Alerts): the inductive invariant.                *)

\* The steps an evaluation may have left: the end of a plan, or what CompareRevision
\* made of the last step.
Middle == {Open("playback_fault"), Resolve("playback_fault")}
Todos ==
    {<<>>, <<Sync>>, <<Open(Sync.kind)>>, <<Resolve(Sync.kind)>>}
    \union {<<f, Sync>> : f \in Middle}
    \union {<<Resolve(k), f, Sync>> : k \in {"device_offline", "device_offline_long"},
                                      f \in Middle}
    \union {<<o, Resolve("device_offline_long"), f, Sync>> :
               o \in {Open("device_offline"), Resolve("device_offline")}, f \in Middle}
    \union {<<Open("device_offline_long"), Resolve("device_offline"), f, Sync>> : f \in Middle}

Offline == {"device_offline", "device_offline_long"}

\* The evaluation i is about to resolve one of the two kinds of absence.
SettlesOffline(i) ==
    Under(i) /\ OpOf(i).do = "resolve" /\ OpOf(i).kind \in Offline

BothOpen == alert["device_offline"] = "open" /\ alert["device_offline_long"] = "open"

PlansOK == \A i \in Calls : call[i].todo \in Todos
OfflineOK == BothOpen /\ failures = 0 => \E i \in Calls : SettlesOffline(i)

AlertsInv == AlertsTypeOK /\ PlansOK /\ OfflineOK

-----------------------------------------------------------------------------
LEMMA AlertsInvImplies == AlertsInv => AlertsTypeOK /\ OfflineKindsExclude
BY DEF AlertsInv, OfflineOK, BothOpen, SettlesOffline, OfflineKindsExclude

\* What is left of a plan: an opening of a kind of absence is followed by the
\* resolution of the other, and a step less is left of it each time.
LEMMA TodosShape ==
    ASSUME NEW t \in Todos, t # <<>>
    PROVE  /\ t \in Seq(Op) /\ Head(t) \in Op
           /\ Len(t) = 1 \/ (Tail(t) \in Todos /\ Tail(t) # <<>>)
           /\ Head(t).do = "open" /\ Head(t).kind \in Offline =>
                 /\ Len(t) # 1 /\ Head(Tail(t)).do = "resolve"
                 /\ Head(Tail(t)).kind \in Offline
<1>1. /\ Sync \in Op /\ Sync.do = "sync" /\ Sync.kind \notin Offline
      /\ \A k \in Kinds : /\ Open(k) \in Op /\ Open(k).do = "open" /\ Open(k).kind = k
                          /\ Resolve(k) \in Op /\ Resolve(k).do = "resolve"
                          /\ Resolve(k).kind = k
  BY DEF Sync, Op, Open, Resolve, Kinds, Offline
<1>2. /\ Sync.kind \in Kinds /\ Offline \subseteq Kinds /\ "playback_fault" \in Kinds \ Offline
      /\ "device_offline" \in Offline /\ "device_offline_long" \in Offline
  BY DEF Sync, Kinds, Offline
<1>3. \A f \in Middle : f \in Op /\ f.kind \notin Offline
  BY <1>1, <1>2 DEF Middle
<1> HIDE DEF Middle
<1>4. CASE t = <<Sync>> \/ t = <<Open(Sync.kind)>> \/ t = <<Resolve(Sync.kind)>>
  <2>1. PICK o \in Op : t = <<o>> /\ (o.do = "open" => o.kind \notin Offline)
    BY <1>4, <1>1, <1>2
  <2>2. t \in Seq(Op) /\ Head(t) = o /\ Len(t) = 1
    BY <2>1
  <2> QED
    BY <2>1, <2>2
<1>5. CASE \E f \in Middle : t = <<f, Sync>>
  <2>1. PICK f \in Middle : t = <<f, Sync>>
    BY <1>5
  <2>2. Tail(t) = <<Sync>> /\ Head(t) = f /\ t \in Seq(Op)
    BY <2>1, <1>1, <1>3
  <2> QED
    BY <2>2, <1>3 DEF Todos
<1>6. CASE \E k \in Offline, f \in Middle : t = <<Resolve(k), f, Sync>>
  <2>1. PICK k \in Offline, f \in Middle : t = <<Resolve(k), f, Sync>>
    BY <1>6
  <2>2. Tail(t) = <<f, Sync>> /\ Head(t) = Resolve(k) /\ t \in Seq(Op)
    BY <2>1, <1>1, <1>2, <1>3
  <2>3. Tail(t) \in Todos
    BY <2>2 DEF Todos
  <2> QED
    BY <2>2, <2>3, <1>1, <1>2
<1>7. CASE \E o \in {Open(k) : k \in Offline} \union {Resolve(k) : k \in Offline},
              k \in Offline, f \in Middle : t = <<o, Resolve(k), f, Sync>>
  <2>1. PICK o \in {Open(k) : k \in Offline} \union {Resolve(k) : k \in Offline},
             k \in Offline, f \in Middle : t = <<o, Resolve(k), f, Sync>>
    BY <1>7
  <2>2. o \in Op
    BY <1>1, <1>2
  <2>3. Tail(t) = <<Resolve(k), f, Sync>> /\ Head(t) = o /\ t \in Seq(Op)
    BY <2>1, <2>2, <1>1, <1>2, <1>3
  <2>4. Tail(t) \in Todos
    BY <2>3 DEF Todos, Offline
  <2>5. Head(Tail(t)) = Resolve(k) /\ Len(t) # 1 /\ Tail(t) # <<>>
    BY <2>1, <2>3
  <2>6. Head(Tail(t)).do = "resolve" /\ Head(Tail(t)).kind \in Offline
    BY <2>5, <1>1, <1>2
  <2>7. t \in Seq(Op) /\ Head(t) \in Op
    BY <2>2, <2>3
  <2> QED
    BY <2>4, <2>5, <2>6, <2>7
<1>8. \/ t \in {<<>>, <<Sync>>, <<Open(Sync.kind)>>, <<Resolve(Sync.kind)>>}
      \/ t \in {<<f, Sync>> : f \in Middle}
      \/ t \in {<<Resolve(k), f, Sync>> : k \in Offline, f \in Middle}
      \/ t \in {<<o, Resolve("device_offline_long"), f, Sync>> :
                   o \in {Open("device_offline"), Resolve("device_offline")}, f \in Middle}
      \/ t \in {<<Open("device_offline_long"), Resolve("device_offline"), f, Sync>> : f \in Middle}
  BY DEF Todos, Offline
<1>9. CASE t \in {<<o, Resolve("device_offline_long"), f, Sync>> :
                    o \in {Open("device_offline"), Resolve("device_offline")}, f \in Middle}
  BY <1>9, <1>2, <1>7
<1>10. CASE t \in {<<Open("device_offline_long"), Resolve("device_offline"), f,
               Sync>> : f \in Middle}
  BY <1>10, <1>2, <1>7
<1> QED
  BY <1>4, <1>5, <1>6, <1>8, <1>9, <1>10

LEMMA JoinPairs ==
    ASSUME NEW a, NEW b, NEW c, NEW d
    PROVE  <<a, b>> \o <<c, d>> = <<a, b, c, d>>
<1> DEFINE S == {a, b, c, d}
<1>1. <<a, b>> \in Seq(S) /\ <<c, d>> \in Seq(S) /\ <<a, b, c, d>> \in Seq(S)
  OBVIOUS
<1>2. /\ Len(<<a, b>>) = 2 /\ Len(<<c, d>>) = 2 /\ Len(<<a, b, c, d>>) = 4
      /\ <<a, b>>[1] = a /\ <<a, b>>[2] = b /\ <<c, d>>[1] = c /\ <<c, d>>[2] = d
      /\ <<a, b, c, d>>[1] = a /\ <<a, b, c, d>>[2] = b
      /\ <<a, b, c, d>>[3] = c /\ <<a, b, c, d>>[4] = d
  OBVIOUS
<1> QED
  <2> DEFINE s == <<a, b>> t == <<c, d>> u == <<a, b, c, d>> v == s \o t
  <2>1. s \in Seq(S) /\ t \in Seq(S) /\ u \in Seq(S) /\ Len(s) = 2 /\ Len(t) = 2 /\ Len(u) = 4
        /\ s[1] = a /\ s[2] = b /\ t[1] = c /\ t[2] = d
        /\ u[1] = a /\ u[2] = b /\ u[3] = c /\ u[4] = d
    BY <1>1, <1>2
  <2> HIDE DEF s, t, u, S
  <2>2. v \in Seq(S) /\ Len(v) = 4 /\ v[1] = a /\ v[2] = b /\ v[3] = c /\ v[4] = d
    <3>1. /\ v \in Seq(S) /\ Len(v) = Len(s) + Len(t)
          /\ \A i \in 1 .. Len(s) + Len(t) : v[i] = IF i <= Len(s) THEN s[i] ELSE t[i - Len(s)]
      <4> HIDE DEF v
      <4>1. s \in Seq(S) /\ t \in Seq(S)
        BY <2>1
      <4> QED
        BY <4>1, ConcatProperties DEF v
    <3> QED
      BY <3>1, <2>1
  <2> HIDE DEF v
  <2>3. v = u
    BY <2>1, <2>2
  <2> QED
    BY <2>3 DEF v, s, t, u

LEMMA PlanIsTodo ==
    ASSUME NEW age \in {"online", "offline", "long"}, NEW fault \in BOOLEAN
    PROVE  Plan(age, fault) \in Todos /\ Plan(age, fault) # <<>>
<1> DEFINE f == IF fault THEN Open("playback_fault") ELSE Resolve("playback_fault")
<1>1. f \in Middle
  BY DEF Middle
<1>2. CASE age = "long"
  <2>1. Plan(age, fault) = <<Open("device_offline_long"), Resolve("device_offline")>> \o <<f, Sync>>
    BY <1>2 DEF Plan
  <2> HIDE DEF f
  <2>2. Plan(age, fault) = <<Open("device_offline_long"), Resolve("device_offline"), f, Sync>>
    BY <2>1, JoinPairs
  <2> QED
    BY <2>2, <1>1 DEF Todos
<1>3. CASE age = "offline"
  <2>1. Plan(age, fault) = <<Open("device_offline"), Resolve("device_offline_long")>> \o <<f, Sync>>
    BY <1>3 DEF Plan
  <2> HIDE DEF f
  <2>2. Plan(age, fault) = <<Open("device_offline"), Resolve("device_offline_long"), f, Sync>>
    BY <2>1, JoinPairs
  <2> QED
    BY <2>2, <1>1 DEF Todos
<1>4. CASE age = "online"
  <2>1. Plan(age, fault) = <<Resolve("device_offline"), Resolve("device_offline_long")>>
           \o <<f, Sync>>
    BY <1>4 DEF Plan
  <2> HIDE DEF f
  <2>2. Plan(age, fault) = <<Resolve("device_offline"), Resolve("device_offline_long"), f, Sync>>
    BY <2>1, JoinPairs
  <2> QED
    BY <2>2, <1>1 DEF Todos
<1> QED
  BY <1>2, <1>3, <1>4

-----------------------------------------------------------------------------
(* The steps.                                                              *)

LEMMA AlertsInitially == AlertsInit => AlertsInv
<1> SUFFICES ASSUME AlertsInit PROVE AlertsInv
  OBVIOUS
<1>1. NoCall \in Call /\ NoCall.todo = <<>> /\ NoCall.read = "unread" /\ <<>> \in Todos
  BY DEF NoCall, Call, Statuses, Todos
<1>2. AlertsTypeOK
  BY <1>1, AlertsAssumption DEF AlertsInit, AlertsTypeOK, Statuses
<1>3. PlansOK
  BY <1>1 DEF AlertsInit, PlansOK
<1>4. OfflineOK
  BY DEF AlertsInit, OfflineOK, BothOpen, Kinds
<1> QED
  BY <1>2, <1>3, <1>4 DEF AlertsInv

\* A step that leaves the rows and the evaluations alone.
LEMMA AsideStep ==
    ASSUME AlertsInv, AlertsTypeOK', UNCHANGED <<alert, call, failures>>
    PROVE  AlertsInv'
<1>1. PlansOK'
  BY DEF AlertsInv, PlansOK
<1>2. OfflineOK'
  BY DEF AlertsInv, OfflineOK, BothOpen, SettlesOffline, Under, OpOf
<1> QED
  BY <1>1, <1>2 DEF AlertsInv

\* What an evaluation i becomes keeps the types and the plans.
LEMMA CallBecomes ==
    ASSUME AlertsInv, NEW i \in Calls, NEW c \in Call, c.todo \in Todos,
           c.read # "unread" => c.todo # <<>> /\ Head(c.todo) # Sync,
           call' = [call EXCEPT ![i] = c],
           alive' \in BOOLEAN, presence' \in {"online", "offline", "long"},
           UNCHANGED <<faulty, stale, licensed, acking, changes>>,
           alert' \in [Kinds -> Statuses], failures' \in 0 .. MaxFailures
    PROVE  /\ AlertsTypeOK' /\ PlansOK'
           /\ Under(i)' <=> c.todo # <<>>
           /\ OpOf(i)' = Head(c.todo)
           /\ \A j \in Calls \ {i} : SettlesOffline(j)' <=> SettlesOffline(j)
<1>1. /\ call \in [Calls -> Call] /\ call' \in [Calls -> Call] /\ call'[i] = c
      /\ \A j \in Calls \ {i} : call'[j] = call[j]
  BY DEF AlertsInv, AlertsTypeOK
<1>2. PlansOK'
  BY <1>1 DEF AlertsInv, PlansOK
<1>3. \A j \in Calls : call'[j].read # "unread" => Under(j)' /\ OpOf(j)' # Sync
  BY <1>1 DEF AlertsInv, AlertsTypeOK, Under, OpOf
<1>4. AlertsTypeOK'
  BY <1>1, <1>3 DEF AlertsInv, AlertsTypeOK
<1>5. Under(i)' <=> c.todo # <<>>
  BY <1>1 DEF Under
<1>6. OpOf(i)' = Head(c.todo)
  BY <1>1 DEF OpOf
<1>7. ASSUME NEW j \in Calls \ {i} PROVE SettlesOffline(j)' <=> SettlesOffline(j)
  BY <1>1 DEF SettlesOffline, Under, OpOf
<1> QED
  BY <1>2, <1>4, <1>5, <1>6, <1>7

LEMMA EvaluationTyped ==
    ASSUME AlertsInv, NEW i \in Calls
    PROVE  /\ call[i] \in Call /\ call[i].todo \in Todos
           /\ call[i].read \in Statuses \union {"unread"}
           /\ call[i].online \in BOOLEAN /\ call[i].stale \in BOOLEAN
           /\ alert \in [Kinds -> Statuses] /\ failures \in 0 .. MaxFailures
           /\ alive \in BOOLEAN /\ presence \in {"online", "offline", "long"}
BY DEF AlertsInv, AlertsTypeOK, PlansOK, Call

\* The witness of OfflineOK is another evaluation.
LEMMA OtherSettles ==
    ASSUME AlertsInv, NEW i \in Calls, ~SettlesOffline(i), failures' = failures,
           \A j \in Calls \ {i} : SettlesOffline(j)' <=> SettlesOffline(j),
           BothOpen' => BothOpen
    PROVE  OfflineOK'
<1> SUFFICES ASSUME BothOpen', failures' = 0
             PROVE  \E j \in Calls : SettlesOffline(j)'
  BY DEF OfflineOK
<1>1. PICK j \in Calls : SettlesOffline(j)
  BY DEF AlertsInv, OfflineOK
<1> QED
  BY <1>1

LEMMA EvaluateStep ==
    ASSUME AlertsInv, NEW i \in Calls, NEW age \in {"online", "offline", "long"}, ~Under(i),
           evaluateDevice(i, age), UNCHANGED <<alive, faulty, stale, licensed, alert, acking,
                                               changes, failures>>,
           presence' \in {"online", "offline", "long"}
    PROVE  AlertsInv'
<1>1. CASE ~licensed
  <2>1. AlertsTypeOK'
    BY <1>1 DEF AlertsInv, AlertsTypeOK, evaluateDevice, Under, OpOf
  <2> QED
    BY <1>1, <2>1, AsideStep DEF evaluateDevice
<1>2. CASE licensed
  <2> DEFINE c == [todo |-> Plan(age, faulty), read |-> "unread",
                   online |-> age = "online", stale |-> stale]
  <2>1. faulty \in BOOLEAN /\ stale \in BOOLEAN
    BY DEF AlertsInv, AlertsTypeOK
  <2>2. Plan(age, faulty) \in Todos /\ Plan(age, faulty) # <<>>
    BY <2>1, PlanIsTodo
  <2>3. Plan(age, faulty) \in Seq(Op)
    BY <2>2, TodosShape
  <2>4. c \in Call /\ c.todo \in Todos /\ c.read = "unread"
    BY <2>1, <2>2, <2>3 DEF Call
  <2>5. call' = [call EXCEPT ![i] = c]
    BY <1>2 DEF evaluateDevice
  <2> HIDE DEF c
  <2>6. /\ AlertsTypeOK' /\ PlansOK'
        /\ \A j \in Calls \ {i} : SettlesOffline(j)' <=> SettlesOffline(j)
    BY <2>4, <2>5, CallBecomes, EvaluationTyped
  <2>7. OfflineOK'
    BY <2>6, OtherSettles DEF SettlesOffline, BothOpen
  <2> QED
    BY <2>6, <2>7 DEF AlertsInv
<1> QED
  BY <1>1, <1>2

LEMMA CompareStep == ASSUME AlertsInv, NEW i \in Calls, CompareRevision(i) PROVE AlertsInv'
<1>1. PICK pending \in {call[i].stale, stale} :
         call' = [call EXCEPT ![i] = [NoCall EXCEPT !.todo =
                      <<IF pending /\ call[i].online THEN Open(Sync.kind)
                                                    ELSE Resolve(Sync.kind)>>]]
  BY DEF CompareRevision
<1> DEFINE t == <<IF pending /\ call[i].online THEN Open(Sync.kind) ELSE Resolve(Sync.kind)>>
           c == [NoCall EXCEPT !.todo = t]
<1>2. t \in {<<Open(Sync.kind)>>, <<Resolve(Sync.kind)>>} /\ t # <<>>
  OBVIOUS
<1>3. call' = [call EXCEPT ![i] = c]
  BY <1>1
<1> HIDE DEF t
<1>4. t \in Todos /\ t # <<>>
  BY <1>2 DEF Todos
<1>5. t \in Seq(Op)
  BY <1>4, TodosShape
<1>6. c \in Call /\ c.todo = t /\ c.read = "unread"
  BY <1>5 DEF Call, NoCall, Statuses
<1> HIDE DEF c
<1>7. ~SettlesOffline(i)
  BY DEF CompareRevision, SettlesOffline, Sync
<1>8. /\ AlertsTypeOK' /\ PlansOK'
      /\ \A j \in Calls \ {i} : SettlesOffline(j)' <=> SettlesOffline(j)
  BY <1>3, <1>4, <1>6, CallBecomes, EvaluationTyped DEF CompareRevision, world
<1>9. OfflineOK'
  BY <1>7, <1>8, OtherSettles DEF BothOpen, CompareRevision
<1> QED
  BY <1>8, <1>9 DEF AlertsInv

LEMMA FindStep == ASSUME AlertsInv, NEW i \in Calls, FindAlert(i) PROVE AlertsInv'
<1> DEFINE c == [call[i] EXCEPT !.read = alert[OpOf(i).kind]]
<1>1. /\ call[i].todo # <<>> /\ call[i].todo \in Todos /\ call[i] \in Call
      /\ OpOf(i) = Head(call[i].todo) /\ OpOf(i) # Sync
      /\ alert \in [Kinds -> Statuses]
  BY EvaluationTyped DEF FindAlert, Under, OpOf
<1>2. OpOf(i).kind \in Kinds
  BY <1>1, TodosShape DEF Op
<1>3. c \in Call /\ c.todo = call[i].todo
  BY <1>1, <1>2 DEF Call
<1>4. call' = [call EXCEPT ![i] = c]
  BY DEF FindAlert
<1> HIDE DEF c
<1>5. /\ AlertsTypeOK' /\ PlansOK' /\ Under(i)' /\ OpOf(i)' = OpOf(i)
      /\ \A j \in Calls \ {i} : SettlesOffline(j)' <=> SettlesOffline(j)
  BY <1>1, <1>3, <1>4, CallBecomes, EvaluationTyped DEF FindAlert, world
<1>6. \A j \in Calls : SettlesOffline(j) => SettlesOffline(j)'
  BY <1>5 DEF SettlesOffline
<1>7. OfflineOK'
  BY <1>6 DEF AlertsInv, OfflineOK, BothOpen, FindAlert
<1> QED
  BY <1>5, <1>7 DEF AlertsInv

\* The evaluation after a step: over, or at the next of its plan.
LEMMA NextOpKeeps ==
    ASSUME AlertsInv, NEW i \in Calls, Under(i)
    PROVE  /\ NextOp(i) \in Call /\ NextOp(i).todo \in Todos /\ NextOp(i).read = "unread"
           /\ OpOf(i).do = "open" /\ OpOf(i).kind \in Offline =>
                 /\ NextOp(i).todo # <<>> /\ Head(NextOp(i).todo).do = "resolve"
                 /\ Head(NextOp(i).todo).kind \in Offline
<1>1. /\ call[i].todo # <<>> /\ call[i].todo \in Todos /\ call[i] \in Call
      /\ OpOf(i) = Head(call[i].todo)
  BY EvaluationTyped DEF Under, OpOf
<1>2. NoCall \in Call /\ NoCall.todo = <<>> /\ NoCall.read = "unread" /\ <<>> \in Todos
  BY DEF NoCall, Call, Statuses, Todos
<1>3. CASE Len(call[i].todo) = 1
  BY <1>1, <1>2, <1>3, TodosShape DEF NextOp
<1>4. CASE Len(call[i].todo) # 1
  <2> DEFINE c == [call[i] EXCEPT !.todo = Tail(@), !.read = "unread"]
  <2>1. NextOp(i) = c /\ c.todo = Tail(call[i].todo) /\ c.read = "unread"
    BY <1>1, <1>4 DEF NextOp, Call
  <2>2. Tail(call[i].todo) \in Todos /\ Tail(call[i].todo) # <<>>
    BY <1>1, <1>4, TodosShape
  <2>3. Tail(call[i].todo) \in Seq(Op)
    BY <2>2, TodosShape
  <2>4. c \in Call
    BY <1>1, <2>3 DEF Call
  <2> HIDE DEF c
  <2>5. OpOf(i).do = "open" /\ OpOf(i).kind \in Offline =>
           /\ Head(Tail(call[i].todo)).do = "resolve"
           /\ Head(Tail(call[i].todo)).kind \in Offline
    BY <1>1, TodosShape
  <2> QED
    BY <2>1, <2>2, <2>4, <2>5
<1> QED
  BY <1>3, <1>4

LEMMA OpenStep == ASSUME AlertsInv, NEW i \in Calls, upsertOpen(i) PROVE AlertsInv'
<1> DEFINE k == OpOf(i).kind
           clash == call[i].read = "none" /\ alert[k] # "none"
           c == IF clash THEN NoCall ELSE NextOp(i)
<1>1. /\ call' = [call EXCEPT ![i] = c]
      /\ alert' = IF call[i].read \in {"none", "resolved"} /\ ~clash
                  THEN [alert EXCEPT ![k] = "open"] ELSE alert
      /\ Under(i) /\ OpOf(i).do = "open" /\ failures' = failures
  BY DEF upsertOpen
<1>2. NoCall \in Call /\ NoCall.todo = <<>> /\ NoCall.read = "unread" /\ <<>> \in Todos
  BY DEF NoCall, Call, Statuses, Todos
<1>3. c \in Call /\ c.todo \in Todos /\ c.read = "unread"
  BY <1>1, <1>2, NextOpKeeps
<1>4. alert \in [Kinds -> Statuses] /\ alert' \in [Kinds -> Statuses]
  BY <1>1, EvaluationTyped DEF Statuses
<1>5. k \in Offline /\ ~clash => c.todo # <<>> /\ Head(c.todo).do = "resolve"
                                 /\ Head(c.todo).kind \in Offline
  BY <1>1, NextOpKeeps
<1>6. BothOpen' => BothOpen \/ (k \in Offline /\ ~clash)
  BY <1>1, <1>4 DEF BothOpen, Offline, Kinds
<1>7. ~SettlesOffline(i)
  BY <1>1 DEF SettlesOffline
<1> HIDE DEF k, clash, c
<1>8. /\ AlertsTypeOK' /\ PlansOK' /\ (Under(i)' <=> c.todo # <<>>) /\ OpOf(i)' = Head(c.todo)
      /\ \A j \in Calls \ {i} : SettlesOffline(j)' <=> SettlesOffline(j)
  BY <1>1, <1>3, <1>4, CallBecomes, EvaluationTyped DEF upsertOpen, world
<1>9. CASE k \in Offline /\ ~clash
  <2>1. SettlesOffline(i)'
    BY <1>5, <1>8, <1>9 DEF SettlesOffline
  <2> QED
    BY <2>1, <1>8 DEF AlertsInv, OfflineOK
<1>10. CASE ~(k \in Offline /\ ~clash)
  <2>1. OfflineOK'
    BY <1>1, <1>6, <1>7, <1>8, <1>10, OtherSettles
  <2> QED
    BY <2>1, <1>8 DEF AlertsInv
<1> QED
  BY <1>9, <1>10

LEMMA ResolveStep == ASSUME AlertsInv, NEW i \in Calls, resolve(i) PROVE AlertsInv'
<1> DEFINE k == OpOf(i).kind
           c == NextOp(i)
<1>1. /\ call' = [call EXCEPT ![i] = c]
      /\ alert' = IF alert[k] \in Active THEN [alert EXCEPT ![k] = "resolved"] ELSE alert
      /\ Under(i) /\ OpOf(i).do = "resolve" /\ failures' = failures
  BY DEF resolve
<1>2. c \in Call /\ c.todo \in Todos /\ c.read = "unread"
  BY <1>1, NextOpKeeps
<1>3. alert \in [Kinds -> Statuses] /\ alert' \in [Kinds -> Statuses]
  BY <1>1, EvaluationTyped DEF Statuses
<1>4. BothOpen' => BothOpen /\ k \notin Offline
  BY <1>1, <1>3 DEF BothOpen, Offline, Kinds, Active
<1> HIDE DEF c
<1>5. /\ AlertsTypeOK' /\ PlansOK'
      /\ \A j \in Calls \ {i} : SettlesOffline(j)' <=> SettlesOffline(j)
  BY <1>1, <1>2, <1>3, CallBecomes, EvaluationTyped DEF resolve, world
<1>6. CASE k \in Offline
  BY <1>4, <1>5, <1>6 DEF AlertsInv, OfflineOK
<1>7. CASE k \notin Offline
  <2>1. ~SettlesOffline(i)
    BY <1>7 DEF SettlesOffline
  <2>2. OfflineOK'
    BY <1>1, <1>4, <1>5, <2>1, OtherSettles
  <2> QED
    BY <2>2, <1>5 DEF AlertsInv
<1> QED
  BY <1>6, <1>7

LEMMA FailStep == ASSUME AlertsInv, NEW i \in Calls, EvaluationFails(i) PROVE AlertsInv'
<1>1. NoCall \in Call /\ NoCall.todo = <<>> /\ NoCall.read = "unread" /\ <<>> \in Todos
  BY DEF NoCall, Call, Statuses, Todos
<1>2. call' = [call EXCEPT ![i] = NoCall] /\ failures' = failures + 1 /\ failures < MaxFailures
  BY DEF EvaluationFails, Failure
<1>3. failures' \in 0 .. MaxFailures /\ failures' # 0
  BY <1>2, EvaluationTyped, AlertsAssumption
<1>4. AlertsTypeOK' /\ PlansOK'
  BY <1>1, <1>2, <1>3, CallBecomes, EvaluationTyped DEF EvaluationFails, world
<1> QED
  BY <1>3, <1>4 DEF AlertsInv, OfflineOK

LEMMA AcknowledgeStep == ASSUME AlertsInv, NEW k \in Kinds, acknowledge(k) PROVE AlertsInv'
<1>1. alert' \in [Kinds -> Statuses] /\ (BothOpen' => BothOpen)
  BY DEF acknowledge, AlertsInv, AlertsTypeOK, Statuses, BothOpen, Kinds
<1>2. AlertsTypeOK'
  BY <1>1 DEF acknowledge, AlertsInv, AlertsTypeOK, world, Under, OpOf
<1>3. PlansOK'
  BY DEF acknowledge, AlertsInv, PlansOK
<1>4. OfflineOK'
  BY <1>1 DEF acknowledge, AlertsInv, OfflineOK, SettlesOffline, Under, OpOf
<1> QED
  BY <1>2, <1>3, <1>4 DEF AlertsInv

LEMMA ChangesCounted == ASSUME AlertsInv, Change PROVE changes' \in 0 .. MaxChanges
BY AlertsAssumption DEF AlertsInv, AlertsTypeOK, Change

LEMMA AlertsInduction == AlertsInv /\ [AlertsNext]_alertsVars => AlertsInv'
<1> SUFFICES ASSUME AlertsInv, [AlertsNext]_alertsVars PROVE AlertsInv'
  OBVIOUS
<1>1. CASE World
  <2>1. /\ alive' \in BOOLEAN /\ faulty' \in BOOLEAN /\ stale' \in BOOLEAN /\ licensed' \in BOOLEAN
        /\ presence' \in {"online", "offline", "long"} /\ changes' \in 0 .. MaxChanges
    <3> USE ChangesCounted
    <3>1. CASE PlayerStops \/ PlayerStarts
      BY <3>1 DEF PlayerStops, PlayerStarts, AlertsInv, AlertsTypeOK
    <3>2. CASE TimePasses
      BY <3>2 DEF TimePasses, AlertsInv, AlertsTypeOK
    <3>3. CASE ConditionsChange
      BY <3>3 DEF ConditionsChange, AlertsInv, AlertsTypeOK
    <3> QED
      BY <1>1, <3>1, <3>2, <3>3 DEF World
  <2>2. UNCHANGED <<alert, call, acking, failures>>
    BY <1>1 DEF World, PlayerStops, PlayerStarts, TimePasses, ConditionsChange
  <2>3. AlertsTypeOK'
    BY <2>1, <2>2 DEF AlertsInv, AlertsTypeOK, Under, OpOf
  <2> QED
    BY <2>2, <2>3, AsideStep
<1>2. CASE pollState
  <2>1. AlertsTypeOK'
    BY <1>2 DEF pollState, AlertsInv, AlertsTypeOK, Under, OpOf
  <2> QED
    BY <1>2, <2>1, AsideStep DEF pollState
<1>3. CASE \E i \in Calls : Heartbeat(i) \/ evaluateTenant(i)
  <2>1. PICK i \in Calls : Heartbeat(i) \/ evaluateTenant(i)
    BY <1>3
  <2> QED
    BY <2>1, EvaluateStep, EvaluationTyped DEF Heartbeat, evaluateTenant, world
<1>4. CASE \E i \in Calls : Evaluation(i) \/ EvaluationFails(i)
  BY <1>4, CompareStep, FindStep, OpenStep, ResolveStep, FailStep DEF Evaluation
<1>5. CASE \E k \in Kinds : StartAcknowledge(k)
  <2>1. AlertsTypeOK'
    BY <1>5, ChangesCounted DEF StartAcknowledge, AlertsInv, AlertsTypeOK, world, Under, OpOf
  <2> QED
    BY <1>5, <2>1, AsideStep DEF StartAcknowledge
<1>6. CASE \E k \in Kinds : acknowledge(k)
  BY <1>6, AcknowledgeStep
<1>7. CASE UNCHANGED alertsVars
  <2>1. AlertsTypeOK'
    BY <1>7 DEF alertsVars, AlertsInv, AlertsTypeOK, Under, OpOf
  <2> QED
    BY <1>7, <2>1, AsideStep DEF alertsVars
<1> QED
  BY <1>1, <1>2, <1>3, <1>4, <1>5, <1>6, <1>7 DEF AlertsNext

\* The steps left of an evaluation are the end of a plan of evaluateDevice, and while
\* both kinds of absence are open some evaluation is about to resolve one of them.
THEOREM AlertsInvariance == AlertsSpec => []AlertsInv
BY AlertsInitially, AlertsInduction, PTL DEF AlertsSpec

\* The rows of alerts, and the evaluations with what they read, have their types.
THEOREM AlertsTypeCorrect == AlertsSpec => []AlertsTypeOK
BY AlertsInvariance, AlertsInvImplies, PTL

\* A device is not left with an open alert for a short and one for a long absence:
\* evaluateDevice opens one and resolves the other, so that only an evaluation that still
\* runs, or one that failed halfway, may have both open.
THEOREM OfflineKindsStayApart == AlertsSpec => []OfflineKindsExclude
BY AlertsInvariance, AlertsInvImplies, PTL
=============================================================================
