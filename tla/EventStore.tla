----------------------------- MODULE EventStore -----------------------------
(***************************************************************************)
(* The path of an event from the device to the data base.  The thread of   *)
(* CMessageQueue hands it to CCacheTransport::Send; the thread of          *)
(* CCacheTransport takes it through the chain of handlers to CDBTransport, *)
(* which queues it or, over the limit, only counts it; the thread of       *)
(* CDBTransport inserts the queued events, several in one transaction of   *)
(* the one connection it shares with the deletions of CMidHandler.         *)
(*                                                                         *)
(* The handlers between the two queues are reduced to passing an event on  *)
(* or refusing it (interval, timestamp, activation).  What the two threads *)
(* of the data base queue share without a lock, m_ulEventSizeInQueue, is   *)
(* read and written in steps of its own.                                   *)
(***************************************************************************)
EXTENDS Integers, Sequences, FiniteSets, SequencesExt

CONSTANTS
  N,            \* events, numbered in the order they come
  Size,         \* event -> its bytes
  Ignite,       \* events on the whitelist of Ignite events
  OverflowSize, \* bytes of an EventCacheOverflow record
  MaxIn,        \* MAX_QUEUE_SIZE of CCacheTransport
  MaxSize,      \* m_ulEventQueueMaxSize
  Window,       \* m_ulEventInsertWindowSize
  AvgSize,      \* m_nDbEventStoreRecordAvgSize
  MaxInTxn,     \* m_nMaxEventInsertInOneTxn
  Word,         \* an unsigned long holds 0 .. Word - 1
  MaxFaults     \* bound: failed puts, inserts and commits, and crashes

Event == 1 .. N

ASSUME SizeAssumption == /\ N \in Nat /\ Size \in [Event -> Nat \ {0}]
                         /\ Ignite \subseteq Event
                         /\ OverflowSize \in Nat \ {0}
ASSUME LimitAssumption == /\ MaxIn \in Nat /\ Window \in Nat /\ MaxFaults \in Nat
                          /\ MaxSize \in Nat /\ Window < MaxSize
                          /\ AvgSize \in Nat \ {0} /\ MaxInTxn \in Nat \ {0}
                          /\ Word \in Nat /\ MaxSize < Word /\ OverflowSize < Word
                          /\ \A e \in Event : Size[e] < Word

\* An entry of the data base queue and a row of the event store: an event, or
\* the EventCacheOverflow record (ev = 0) of the events counted in it.
Item == [ev : 0 .. N, of : SUBSET Event]
Record(e) == [ev |-> e, of |-> {}]
Overflow(S) == [ev |-> 0, of |-> S]
NoItem == Overflow({})

VARIABLES
  \* CMessageQueue and the shutdown
  next,        \* the next event of the device
  told,        \* events for which Send returned true
  stage,       \* receivers told by CClientOnOff: 1 queue, 2 cache, 3 data base
  \* CCacheTransport
  inq,         \* m_eventQueue
  recv,        \* position of its Run
  hand,        \* the event in its hands, 0 if none
  \* CDBTransport, the side of HandleEvent
  evq,         \* m_queEvent
  sizeInQueue, \* m_ulEventSizeInQueue
  threshold,   \* m_ulEventInsertThresholdSize
  ignored,     \* the events m_nIgnoredEventCnt stands for
  \* CDBTransport::Run
  writer,      \* position of Run and ProcessQueueData
  runSize,     \* unQueSize, the bytes measured before the transaction
  todo,        \* insertions left in this transaction
  lastSize,    \* bytes of the event inserted last
  hadTxn,      \* bTransactionStarted
  \* the data base
  rows,        \* rows as the connection sees them
  durable,     \* rows on the disk
  open,        \* a transaction is open on the connection
  owner,       \* holder of g_TransactionMutex
  \* CMidHandler, deleting the row of an acknowledged event
  mid,         \* position of delete_events_from_db
  doomed,      \* the row it deletes
  midTxn,      \* its bTransactionStarted
  \* history
  refused,     \* events a handler of the chain filtered out
  lost,        \* events given up by a full queue, a failed call or a crash
  cleared,     \* rows deleted after their upload
  raced,       \* the writer changed sizeInQueue between its two uses
  faults       \* failures so far

source == <<next, told, stage>>
cache == <<inq, recv, hand>>
intake == <<evq, sizeInQueue, threshold, ignored>>
writing == <<writer, runSize, todo, lastSize, hadTxn>>
disk == <<rows, durable, open, owner>>
deleting == <<mid, doomed, midTxn>>
history == <<refused, lost, cleared, raced, faults>>
vars == <<source, cache, intake, writing, disk, deleting, history>>

ItemSize(i) == IF i.ev = 0 THEN OverflowSize ELSE Size[i.ev]

LowThreshold == MaxSize - Window

\* CConcurrentQueue: its elements and m_unSize, the bytes they were put with.
Empty == [items |-> <<>>, size |-> 0]
Queue(S) == [items : Seq(S), size : 0 .. Word - 1]

\* Put gives up after ten failed TryLocks: the next values of a queue q that x
\* of n bytes is put into, each with the number of failures.
Added(q, x, n) == [items |-> Append(q.items, x), size |-> (q.size + n) % Word]
Puts(q, x, n) == {<<Added(q, x, n), 0>>}
                 \cup (IF faults < MaxFaults THEN {<<q, 1>>} ELSE {})
\* Variant: Take leaves the size alone.
TakenUncounted(q, n) == [items |-> Tail(q.items), size |-> q.size]

Taken(q, n) == [items |-> Tail(q.items), size |-> (q.size - n) % Word]

Init == /\ next = 1 /\ told = {} /\ stage = 0
        /\ recv = "none" /\ hand = 0 /\ inq = Empty
        /\ evq = Empty /\ sizeInQueue = 0 /\ threshold = MaxSize /\ ignored = {}
        /\ writer = "look" /\ runSize = 0 /\ todo = 0 /\ lastSize = 0 /\ hadTxn = FALSE
        /\ rows = {} /\ durable = {} /\ open = FALSE /\ owner = "none"
        /\ mid = "idle" /\ doomed = NoItem /\ midTxn = FALSE
        /\ refused = {} /\ lost = {} /\ cleared = {} /\ raced = FALSE /\ faults = 0

-----------------------------------------------------------------------------
(* CMessageQueue's thread *)

\* CCacheTransport::Send up to its return.  The result of Put is not looked at,
\* and the answer is false only for a full queue.
Enqueue ==
  \/ /\ inq.size >= MaxIn
     /\ lost' = lost \cup {next}
     /\ UNCHANGED <<told, inq, recv, faults>>
  \/ /\ inq.size < MaxIn
     /\ told' = told \cup {next}
     /\ \E put \in Puts(inq, next, Size[next]) :
           /\ inq' = put[1] /\ faults' = faults + put[2]
           /\ lost' = IF put[2] = 0 THEN lost ELSE lost \cup {next}
     \* the first event starts the thread, the others wake it if it waits
     /\ recv' = IF recv \in {"none", "wait"} THEN "head" ELSE recv

Send == /\ next <= N /\ stage = 0
        /\ Enqueue
        /\ next' = next + 1
        /\ UNCHANGED <<stage, hand, intake, writing, disk, deleting, refused, cleared, raced>>

\* The order of CClientOnOff: a receiver is told when those before it ended.
Shutdown ==
  /\ \/ stage = 0
     \/ stage = 1
     \/ stage = 2 /\ recv \in {"none", "ended"}
  /\ stage' = stage + 1
  /\ recv' = IF stage = 1 /\ recv = "wait" THEN "head" ELSE recv
  /\ UNCHANGED <<next, told, inq, hand, intake, writing, disk, deleting, history>>

-----------------------------------------------------------------------------
(* CCacheTransport's thread *)

Loop == /\ recv = "head"
        /\ recv' = IF stage >= 2 THEN "ended" ELSE "take"
        /\ UNCHANGED <<source, inq, hand, intake, writing, disk, deleting, history>>

Take == /\ recv = "take"
        /\ IF inq.items # <<>>
           THEN /\ hand' = Head(inq.items) /\ inq' = Taken(inq, Size[hand']) /\ recv' = "handle"
           ELSE /\ recv' = IF stage >= 2 THEN "head" ELSE "park"
                /\ UNCHANGED <<inq, hand>>
        /\ UNCHANGED <<source, intake, writing, disk, deleting, history>>

\* ConditionWait without a predicate: what was sent since Take found the queue
\* empty does not keep the thread from sleeping.
Park == /\ recv = "park"
        /\ recv' = "wait"
        /\ UNCHANGED <<source, inq, hand, intake, writing, disk, deleting, history>>

SpuriousWake == /\ recv = "wait"
                /\ recv' = "head"
                /\ UNCHANGED <<source, inq, hand, intake, writing, disk, deleting, history>>

Done == recv' = "take" /\ hand' = 0 /\ UNCHANGED inq

\* An interval, a timestamp or the missing activation makes a handler drop it.
Refuse == /\ recv = "handle"
          /\ refused' = refused \cup {hand}
          /\ Done
          /\ UNCHANGED <<source, intake, writing, disk, deleting, lost, cleared, raced, faults>>

HandleNonIgniteEvent ==
  /\ recv = "handle" /\ hand \notin Ignite
  /\ \E put \in Puts(evq, Record(hand), Size[hand]) :
        /\ evq' = put[1] /\ faults' = faults + put[2]
        /\ lost' = IF put[2] = 0 THEN lost ELSE lost \cup {hand}
  /\ Done
  /\ UNCHANGED <<source, sizeInQueue, threshold, ignored, writing, disk, deleting,
                 refused, cleared, raced>>

\* HandleEvent, first half: the queue is measured into the shared field.
Measure == /\ recv = "handle" /\ hand \in Ignite
           /\ sizeInQueue' = evq.size
           /\ recv' = "measured"
           /\ raced' = FALSE
           /\ UNCHANGED <<source, inq, hand, evq, threshold, ignored, writing, disk,
                          deleting, refused, lost, cleared, faults>>

\* Variant: the limit is compared with the queue and not with the queue and
\* the event.
FitsQueueOnly == sizeInQueue < threshold

Fits == (sizeInQueue + Size[hand]) % Word < threshold

\* Variant: the record of the ignored events is queued and the counters go on.
NoteIgnoredKept ==
  /\ recv = "measured" /\ Fits /\ ignored # {}
  /\ evq' = Added(evq, Overflow(ignored), OverflowSize)
  /\ sizeInQueue' = 0
  /\ recv' = "admit"
  /\ UNCHANGED <<source, inq, hand, threshold, ignored, writing, disk, deleting, history>>

\* HandleEvent, the event fits: first the record of the ignored events.  The
\* counters are reset whether or not it went into the queue (InitIgnoredEvents).
NoteIgnored ==
  /\ recv = "measured" /\ Fits /\ ignored # {}
  /\ \E put \in Puts(evq, Overflow(ignored), OverflowSize) :
        /\ evq' = put[1] /\ faults' = faults + put[2]
        /\ lost' = IF put[2] = 0 THEN lost ELSE lost \cup ignored
  /\ ignored' = {} /\ sizeInQueue' = 0
  /\ recv' = "admit"
  /\ UNCHANGED <<source, inq, hand, threshold, writing, disk, deleting,
                 refused, cleared, raced>>

\* Then the event.
Admit ==
  /\ recv = "admit" \/ (recv = "measured" /\ Fits /\ ignored = {})
  /\ \E put \in Puts(evq, Record(hand), Size[hand]) :
        /\ evq' = put[1] /\ faults' = faults + put[2]
        /\ lost' = IF put[2] = 0 THEN lost ELSE lost \cup {hand}
  /\ Done
  /\ UNCHANGED <<source, sizeInQueue, threshold, ignored, writing, disk, deleting,
                 refused, cleared, raced>>

Ignore == /\ recv = "measured" /\ ~Fits
          /\ ignored' = ignored \cup {hand}
          /\ threshold' = IF ignored = {} THEN LowThreshold ELSE threshold
          /\ Done
          /\ UNCHANGED <<source, evq, sizeInQueue, writing, disk, deleting, history>>

-----------------------------------------------------------------------------
(* CDBTransport's thread and the data base *)

\* A statement joins the transaction that is open on the connection, whoever
\* opened it; without one it is durable at once.
Statement(newRows) == /\ rows' = newRows
                      /\ durable' = IF open THEN durable ELSE newRows

\* StartTransaction: BEGIN fails inside a transaction, the mutex is released.
Begin(who, started) ==
  /\ owner = "none"
  /\ started = ~open
  /\ open' = TRUE
  /\ owner' = IF started THEN who ELSE "none"
  /\ UNCHANGED <<rows, durable>>

\* Variant: the mutex is not released.
EndLocked == /\ durable' = rows /\ open' = FALSE
             /\ UNCHANGED <<rows, owner, faults>>

\* EndTransaction(true).  A failed END leaves the transaction open, the mutex
\* is released all the same and no caller looks at the result.
End == /\ owner' = "none"
       /\ UNCHANGED rows
       /\ \/ durable' = rows /\ open' = FALSE /\ UNCHANGED faults
          \/ faults < MaxFaults /\ faults' = faults + 1 /\ UNCHANGED <<durable, open>>

\* GetMaxEventToInsertInOneTxn
MaxToInsert(bytes) ==
  LET records == IF bytes \div AvgSize = 0 THEN 1 ELSE bytes \div AvgSize
  IN  IF records <= MaxInTxn THEN records ELSE MaxInTxn

LookAtQueue ==
  /\ writer = "look"
  /\ IF stage = 3 THEN writer' = "ended" /\ UNCHANGED runSize
                  ELSE /\ evq.size # 0
                       /\ runSize' = evq.size /\ writer' = "begin"
  /\ UNCHANGED <<source, cache, intake, todo, lastSize, hadTxn, disk, deleting, history>>

BeginInserts == /\ writer = "begin"
                /\ Begin("writer", hadTxn')
                /\ todo' = MaxToInsert(runSize)
                /\ writer' = "insert"
                /\ UNCHANGED <<source, cache, intake, runSize, lastSize, deleting, history>>

\* Variant: the newest event is inserted first.
InsertNewest ==
  /\ writer = "insert" /\ evq.items # <<>>
  /\ lastSize' = ItemSize(Last(evq.items))
  /\ evq' = [items |-> Front(evq.items), size |-> (evq.size - lastSize') % Word]
  /\ Statement(rows \cup {Last(evq.items)})
  /\ writer' = "set"
  /\ UNCHANGED <<source, cache, sizeInQueue, threshold, ignored, runSize, todo, hadTxn,
                 open, owner, deleting, history>>

\* Take and InsertEvent; a failed INSERT is only logged.
Insert ==
  /\ writer = "insert" /\ evq.items # <<>>
  /\ lastSize' = ItemSize(Head(evq.items))
  /\ evq' = Taken(evq, lastSize')
  /\ \/ Statement(rows \cup {Head(evq.items)}) /\ UNCHANGED <<lost, faults>>
     \/ /\ faults < MaxFaults /\ faults' = faults + 1
        /\ lost' = lost \cup Head(evq.items).of \cup ({Head(evq.items).ev} \ {0})
        /\ UNCHANGED <<rows, durable>>
  /\ writer' = "set"
  /\ UNCHANGED <<source, cache, sizeInQueue, threshold, ignored, runSize, todo, hadTxn,
                 open, owner, deleting, refused, cleared, raced>>

NothingToInsert == /\ writer = "insert" /\ evq.items = <<>>
                   /\ writer' = "end"
                   /\ UNCHANGED <<source, cache, intake, runSize, todo, lastSize, hadTxn,
                                  disk, deleting, history>>

SetSize == /\ writer = "set"
           /\ sizeInQueue' = runSize
           /\ raced' = (raced \/ recv = "measured")
           /\ writer' = "revise"
           /\ UNCHANGED <<source, cache, evq, threshold, ignored, runSize, todo, lastSize,
                          hadTxn, disk, deleting, refused, lost, cleared, faults>>

ReviseSize ==
  /\ writer = "revise"
  /\ sizeInQueue' = (sizeInQueue - lastSize) % Word
  /\ raced' = (raced \/ recv = "measured")
  /\ writer' = "restore"
  /\ UNCHANGED <<source, cache, evq, threshold, ignored, runSize, todo, lastSize, hadTxn,
                 disk, deleting, refused, lost, cleared, faults>>

\* Variant: the threshold is raised by the window, whatever it was.
RestoreThresholdRaised ==
  /\ writer = "restore"
  /\ threshold' = IF sizeInQueue < LowThreshold THEN threshold + Window ELSE threshold
  /\ todo' = todo - 1
  /\ writer' = IF todo' = 0 THEN "end" ELSE "insert"
  /\ UNCHANGED <<source, cache, evq, sizeInQueue, ignored, runSize, lastSize, hadTxn, disk,
                 deleting, history>>

\* Variant: the insertions are not counted.
RestoreThresholdUncounted ==
  /\ writer = "restore"
  /\ threshold' = IF sizeInQueue < LowThreshold THEN MaxSize ELSE threshold
  /\ writer' = "insert"
  /\ UNCHANGED <<source, cache, evq, sizeInQueue, ignored, runSize, todo, lastSize, hadTxn, disk,
                 deleting, history>>

RestoreThreshold ==
  /\ writer = "restore"
  /\ threshold' = IF sizeInQueue < LowThreshold THEN MaxSize ELSE threshold
  /\ todo' = todo - 1
  /\ writer' = IF todo' = 0 THEN "end" ELSE "insert"
  /\ UNCHANGED <<source, cache, evq, sizeInQueue, ignored, runSize, lastSize, hadTxn, disk,
                 deleting, history>>

EndInserts == /\ writer = "end"
              /\ IF hadTxn THEN End ELSE UNCHANGED <<disk, faults>>
              /\ writer' = "look"
              /\ UNCHANGED <<source, cache, intake, runSize, todo, lastSize, hadTxn, deleting,
                             refused, lost, cleared, raced>>

-----------------------------------------------------------------------------
(* CMidHandler's thread: the broker has acknowledged the event of a row *)

BeginDelete == /\ mid = "idle"
               /\ doomed' \in rows
               /\ mid' = "delete"
               /\ \/ Begin("mid", midTxn')
                  \/ midTxn' = FALSE /\ UNCHANGED disk   \* no batch mode
               /\ UNCHANGED <<source, cache, intake, writing, history>>

Delete == /\ mid = "delete"
          /\ Statement(rows \ {doomed})
          /\ cleared' = cleared \cup {doomed}
          /\ mid' = "end"
          /\ UNCHANGED <<source, cache, intake, writing, open, owner, doomed, midTxn,
                         refused, lost, raced, faults>>

EndDelete == /\ mid = "end"
             /\ IF midTxn THEN End ELSE UNCHANGED <<disk, faults>>
             /\ mid' = "idle" /\ doomed' = NoItem /\ midTxn' = FALSE
             /\ UNCHANGED <<source, cache, intake, writing, refused, lost, cleared, raced>>

-----------------------------------------------------------------------------
EventsOf(items) == UNION {i.of \cup ({i.ev} \ {0}) : i \in items}

\* Events that only the memory of the process holds.
Volatile == EventsOf(Range(evq.items) \cup (rows \ durable)) \cup Range(inq.items)
            \cup ignored \cup ({hand} \ {0})

\* The process ends, by a fault or by the exit after a shutdown, and starts anew.
Crash == /\ faults < MaxFaults /\ faults' = faults + 1
         /\ lost' = lost \cup Volatile
         /\ cleared' = cleared \ durable
         /\ rows' = durable /\ stage' = 0 /\ raced' = FALSE
         /\ recv' = "none" /\ hand' = 0 /\ inq' = Empty
         /\ evq' = Empty /\ sizeInQueue' = 0 /\ threshold' = MaxSize /\ ignored' = {}
         /\ writer' = "look" /\ runSize' = 0 /\ todo' = 0 /\ lastSize' = 0 /\ hadTxn' = FALSE
         /\ open' = FALSE /\ owner' = "none"
         /\ mid' = "idle" /\ doomed' = NoItem /\ midTxn' = FALSE
         /\ UNCHANGED <<next, told, durable, refused>>

CacheNext == \/ Loop \/ Take \/ Park \/ Refuse \/ HandleNonIgniteEvent
             \/ Measure \/ NoteIgnored \/ Admit \/ Ignore
WriterNext == \/ LookAtQueue \/ BeginInserts \/ Insert \/ NothingToInsert
              \/ SetSize \/ ReviseSize \/ RestoreThreshold \/ EndInserts
MidNext == Delete \/ EndDelete

Next == \/ Send \/ Shutdown \/ SpuriousWake \/ BeginDelete \/ Crash
        \/ CacheNext \/ WriterNext \/ MidNext

Spec == Init /\ [][Next]_vars

\* The threads of the client are scheduled; nothing obliges the device to send,
\* the broker to acknowledge or a waiting thread to wake up by itself.
FairSpec == Spec /\ WF_vars(CacheNext) /\ WF_vars(WriterNext) /\ WF_vars(MidNext)

-----------------------------------------------------------------------------
(* Properties *)

\* Every variable keeps its type.
TypeOK ==
  /\ next \in 1 .. N + 1 /\ told \subseteq Event /\ stage \in 0 .. 3
  /\ inq \in Queue(Event) /\ hand \in 0 .. N
  /\ recv \in {"none", "head", "take", "handle", "measured", "admit", "park", "wait", "ended"}
  /\ evq \in Queue(Item) /\ sizeInQueue \in 0 .. Word - 1
  /\ threshold \in {MaxSize, LowThreshold} /\ ignored \subseteq Event
  /\ writer \in {"look", "begin", "insert", "set", "revise", "restore", "end", "ended"}
  /\ runSize \in 0 .. Word - 1 /\ todo \in 0 .. MaxInTxn /\ lastSize \in Nat /\ hadTxn \in BOOLEAN
  /\ rows \subseteq Item /\ durable \subseteq Item /\ open \in BOOLEAN
  /\ owner \in {"none", "writer", "mid"}
  /\ mid \in {"idle", "delete", "end"} /\ doomed \in Item /\ midTxn \in BOOLEAN
  /\ refused \subseteq Event /\ lost \subseteq Event /\ cleared \subseteq Item
  /\ raced \in BOOLEAN /\ faults \in 0 .. MaxFaults

\* The places an event can be in: queues, hands, table, counters.
Holding(e) == <<e \in Range(inq.items), e = hand, e \in ignored, e \in EventsOf(Range(evq.items)),
                e \in EventsOf(rows), e \in EventsOf(cleared), e \in refused, e \in lost>>

\* Every event handed to Send is in exactly one place, and there once: neither
\* the counting of ignored events, nor a failed call, nor a crash in the middle
\* of a deletion makes one vanish or appear twice.
Accounted ==
  /\ \A e \in 1 .. next - 1 :
        Cardinality({i \in DOMAIN Holding(e) : Holding(e)[i]}) = 1
  /\ \A e \in Event :
        Cardinality({i \in DOMAIN evq.items : e \in EventsOf({evq.items[i]})}) <= 1

\* The inductive invariant of the transactions: the mutex belongs to the thread
\* whose BEGIN worked, a thread whose BEGIN failed works in a transaction that
\* nobody will end, and the rows at risk and the insertions left never exceed
\* the maximum of a transaction.
Inserting == writer \in {"insert", "set", "revise", "restore", "end"}
Left == IF writer = "insert" THEN todo ELSE IF writer = "end" THEN 0 ELSE todo - 1
TxnInv ==
  /\ owner = "writer" <=> Inserting /\ hadTxn
  /\ owner = "mid" <=> mid # "idle" /\ midTxn
  /\ owner # "none" => open
  /\ ~open => rows = durable
  /\ Inserting /\ ~hadTxn => open /\ owner = "none"
  /\ owner = "mid" => rows \subseteq durable
  /\ IsFiniteSet(rows) /\ IsFiniteSet(durable)
  /\ owner = "writer" => Cardinality(rows \ durable) + Left <= MaxInTxn

\* A crash takes at most the rows of one transaction with it, unless an END
\* failed and left a transaction open that nobody owns.
AtMostOneTxnAtRisk ==
  (open => owner # "none") => Cardinality(rows \ durable) <= MaxInTxn

\* HandleEvent never lets the queue grow past its limit by more than the record
\* of the ignored events, unless CDBTransport::Run wrote the size it goes by
\* between the measuring and the comparison.
AdmitsWithinLimit ==
  [][(recv \in {"measured", "admit"} /\ ~raced /\ Len(evq'.items) > Len(evq.items))
       => evq'.size < MaxSize + OverflowSize]_vars

\* The size that CDBTransport::Run goes by tells whether there is anything to
\* insert: otherwise it would sleep on events, or wake up for none, for good.
SizeTellsEmpty == evq.size = 0 <=> evq.items = <<>>

\* Every event that Send took comes to rest, again and again all of them at
\* once: on the disk, deleted, filtered out, counted or lost by a failure,
\* unless the receiver sleeps on a queue that is not empty (a lost wake-up), a
\* failed END keeps the rows from the disk, or the client shuts down.
AtRest(e) == \/ e \in EventsOf(durable \cup cleared) \cup refused \cup ignored \cup lost
             \/ \E i \in Range(evq.items) \cup rows : e \in i.of
Settles == []<>(\/ \A e \in told : AtRest(e)
                \/ stage > 0
                \/ recv = "wait" /\ inq.items # <<>>
                \/ open /\ owner = "none")

\* The ingest path implements StoreContract.
Fate == [e \in Event |->
  CASE e >= next                          -> "new"
    [] Record(e) \in durable              -> "stored"
    [] Record(e) \in cleared \ durable    -> "cleared"
    [] e \in lost \cup refused            -> "dropped"
    [] e \in ignored \/ (\E i \in Range(evq.items) \cup rows \cup durable \cup cleared : e \in i.of)
                                          -> "counted"
    [] OTHER                              -> "pending"]
Contract == INSTANCE StoreContract WITH fate <- Fate
Stores == Contract!CSpec

-----------------------------------------------------------------------------
(* What comments say and the code does not do *)

\* CDBTransport.h: m_ulEventSizeInQueue is "to hold event size in queue": it is
\* never more than all events and as many records together.
SizeIsReal ==
  sizeInQueue <= FoldSet(LAMBDA e, n : n + Size[e] + OverflowSize, 0, Event)
=============================================================================
