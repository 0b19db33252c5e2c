----------------------- MODULE EventStorePlace_proofs -----------------------
(***************************************************************************)
(* For any number of events, any limits, any failures and crashes: every    *)
(* event is in exactly one place, the ingest path implements StoreContract  *)
(* (the order of the events is its invariant), and the queue of the data    *)
(* base counts its bytes and keeps its limit, as far as memory reaches.     *)
(***************************************************************************)
EXTENDS EventStore_proofs

\* The events an entry of the queue or a row stands for.
Ev(i) == i.of \cup ({i.ev} \ {0})

\* Where event e may be, beside the sets of single events.
Waiting(e) == \E k \in DOMAIN inq.items : inq.items[k] = e
Queued(e) == \E k \in DOMAIN evq.items : e \in Ev(evq.items[k])
In(e, S) == \E i \in S : e \in Ev(i)

ExactlyOne(a, b, c, d, f, g, h, i) ==
  /\ a \/ b \/ c \/ d \/ f \/ g \/ h \/ i
  /\ a => ~ (b \/ c \/ d \/ f \/ g \/ h \/ i)
  /\ b => ~ (c \/ d \/ f \/ g \/ h \/ i)
  /\ c => ~ (d \/ f \/ g \/ h \/ i)
  /\ d => ~ (f \/ g \/ h \/ i)
  /\ f => ~ (g \/ h \/ i)
  /\ g => ~ (h \/ i)
  /\ h => ~ i

InOnePlace(e) ==
  ExactlyOne(Waiting(e), e = hand, e \in ignored, Queued(e), In(e, rows),
             In(e, cleared), e \in refused, e \in lost)

Nowhere(e) ==
  ~ (\/ Waiting(e) \/ e = hand \/ e \in ignored \/ Queued(e) \/ In(e, rows)
     \/ In(e, cleared) \/ e \in refused \/ e \in lost)

\* An event that was sent is in one place, and the others are in none.
Placed(e) == /\ e < next => InOnePlace(e)
             /\ e >= next => Nowhere(e)

\* It is once in its queue, and in one row of the table.
Once(e) ==
  /\ \A k, l \in DOMAIN inq.items : inq.items[k] = e /\ inq.items[l] = e => k = l
  /\ \A k, l \in DOMAIN evq.items :
        e \in Ev(evq.items[k]) /\ e \in Ev(evq.items[l]) => k = l
  /\ \A i, j \in rows \cup durable \cup cleared : e \in Ev(i) /\ e \in Ev(j) => i = j

\* The hand is empty between two events; a row that is being deleted is still
\* there; what an open transaction has taken from the table was deleted.
Carrying == recv \notin {"handle", "measured", "admit"} => hand = 0
Doomed == mid = "delete" => doomed \in rows
Uncommitted == durable \ rows \subseteq cleared

PlaceInv == /\ Carrying /\ Doomed /\ Uncommitted
            /\ \A e \in Event : Placed(e) /\ Once(e)

-----------------------------------------------------------------------------
(* Sequences, entries and queues *)

\* The elements of a sequence with one more.
LEMMA AppendElements ==
  ASSUME NEW S, NEW q \in Seq(S), NEW x \in S
  PROVE  /\ \A k \in DOMAIN Append(q, x) :
              \/ k \in DOMAIN q /\ Append(q, x)[k] = q[k]
              \/ k = Len(q) + 1 /\ Append(q, x)[k] = x
         /\ \A k \in DOMAIN q : k \in DOMAIN Append(q, x) /\ Append(q, x)[k] = q[k]
         /\ Len(q) + 1 \in DOMAIN Append(q, x) /\ Append(q, x)[Len(q) + 1] = x
         /\ Len(q) + 1 \notin DOMAIN q
  OBVIOUS

\* The elements of a sequence without the first.
LEMMA TailElements ==
  ASSUME NEW S, NEW q \in Seq(S), q # <<>>
  PROVE  /\ 1 \in DOMAIN q /\ Head(q) = q[1]
         /\ \A k \in DOMAIN Tail(q) : k + 1 \in DOMAIN q /\ Tail(q)[k] = q[k + 1]
         /\ \A k \in DOMAIN q : k = 1 \/ (k - 1 \in DOMAIN Tail(q) /\ Tail(q)[k - 1] = q[k])
         /\ \A k \in DOMAIN Tail(q) : k \in Nat /\ k + 1 # 1
         /\ \A k, l \in DOMAIN Tail(q) : k + 1 = l + 1 => k = l
  OBVIOUS

\* Put adds an element, or fails and changes nothing.
LEMMA PutsCases ==
  ASSUME NEW q, NEW x, NEW n, NEW put \in Puts(q, x, n)
  PROVE  \/ put[1].items = Append(q.items, x) /\ put[2] = 0
         \/ put[1] = q /\ put[2] = 1
  BY DEF Puts, Added

\* The events of a record of one event and of a record of ignored events.
LEMMA EvRecords ==
  /\ \A e \in Event : Ev(Record(e)) = {e}
  /\ \A S \in SUBSET Event : Ev(Overflow(S)) = S
  BY SizeAssumption DEF Ev, Record, Overflow, Event

\* The queue of CDBTransport with one more entry.
LEMMA QueuedAdded ==
  ASSUME NEW e, NEW x \in Item, evq \in Queue(Item), Once(e),
         evq'.items = Append(evq.items, x), ~ Queued(e) \/ e \notin Ev(x)
  PROVE  /\ Queued(e)' <=> Queued(e) \/ e \in Ev(x)
         /\ \A k, l \in DOMAIN evq'.items :
              e \in Ev(evq'.items[k]) /\ e \in Ev(evq'.items[l]) => k = l
<1> DEFINE q == evq.items
<1>1. q \in Seq(Item)
  BY DEF Queue
<1>2. /\ \A k \in DOMAIN Append(q, x) :
           \/ k \in DOMAIN q /\ Append(q, x)[k] = q[k]
           \/ k = Len(q) + 1 /\ Append(q, x)[k] = x
      /\ \A k \in DOMAIN q : k \in DOMAIN Append(q, x) /\ Append(q, x)[k] = q[k]
      /\ Len(q) + 1 \in DOMAIN Append(q, x) /\ Append(q, x)[Len(q) + 1] = x
  BY <1>1, AppendElements
<1>3. Queued(e)' <=> Queued(e) \/ e \in Ev(x)
  BY <1>2 DEF Queued, Ev
<1>4. \A k, l \in DOMAIN evq'.items :
        e \in Ev(evq'.items[k]) /\ e \in Ev(evq'.items[l]) => k = l
  BY <1>2 DEF Queued, Once
<1> QED
  BY <1>3, <1>4

\* The queue of CDBTransport without its first entry.
LEMMA QueuedTaken ==
  ASSUME NEW e, evq \in Queue(Item), Once(e), evq.items # <<>>,
         evq'.items = Tail(evq.items)
  PROVE  /\ Queued(e) <=> Queued(e)' \/ e \in Ev(Head(evq.items))
         /\ ~ (Queued(e)' /\ e \in Ev(Head(evq.items)))
         /\ \A k, l \in DOMAIN evq'.items :
              e \in Ev(evq'.items[k]) /\ e \in Ev(evq'.items[l]) => k = l
<1> DEFINE q == evq.items
<1>1. q \in Seq(Item)
  BY DEF Queue
<1>2. /\ 1 \in DOMAIN q /\ Head(q) = q[1]
      /\ \A k \in DOMAIN Tail(q) : k + 1 \in DOMAIN q /\ Tail(q)[k] = q[k + 1]
      /\ \A k \in DOMAIN q : k = 1 \/ (k - 1 \in DOMAIN Tail(q) /\ Tail(q)[k - 1] = q[k])
      /\ \A k \in DOMAIN Tail(q) : k \in Nat /\ k + 1 # 1
      /\ \A k, l \in DOMAIN Tail(q) : k + 1 = l + 1 => k = l
  BY <1>1, TailElements
<1>3. Queued(e) <=> Queued(e)' \/ e \in Ev(Head(q))
  BY <1>2 DEF Queued, Ev
<1>4. ~ (Queued(e)' /\ e \in Ev(Head(q)))
  BY <1>2 DEF Queued, Ev, Once
<1>5. \A k, l \in DOMAIN evq'.items :
        e \in Ev(evq'.items[k]) /\ e \in Ev(evq'.items[l]) => k = l
  BY <1>2 DEF Once
<1> QED
  BY <1>3, <1>4, <1>5

\* The queue of CCacheTransport with one more event, new to it.
LEMMA WaitingAdded ==
  ASSUME NEW e, NEW x \in Event, inq \in Queue(Event), Once(e),
         inq'.items = Append(inq.items, x), ~ Waiting(e) \/ e # x
  PROVE  /\ Waiting(e)' <=> Waiting(e) \/ e = x
         /\ \A k, l \in DOMAIN inq'.items :
              inq'.items[k] = e /\ inq'.items[l] = e => k = l
<1> DEFINE q == inq.items
<1>1. q \in Seq(Event)
  BY DEF Queue
<1>2. /\ \A k \in DOMAIN Append(q, x) :
           \/ k \in DOMAIN q /\ Append(q, x)[k] = q[k]
           \/ k = Len(q) + 1 /\ Append(q, x)[k] = x
      /\ \A k \in DOMAIN q : k \in DOMAIN Append(q, x) /\ Append(q, x)[k] = q[k]
      /\ Len(q) + 1 \in DOMAIN Append(q, x) /\ Append(q, x)[Len(q) + 1] = x
  BY <1>1, AppendElements
<1>3. Waiting(e)' <=> Waiting(e) \/ e = x
  BY <1>2 DEF Waiting
<1>4. \A k, l \in DOMAIN inq'.items : inq'.items[k] = e /\ inq'.items[l] = e => k = l
  BY <1>2 DEF Waiting, Once
<1> QED
  BY <1>3, <1>4

\* The queue of CCacheTransport without its first event.
LEMMA WaitingTaken ==
  ASSUME NEW e, inq \in Queue(Event), Once(e), inq.items # <<>>,
         inq'.items = Tail(inq.items)
  PROVE  /\ Waiting(e) <=> Waiting(e)' \/ e = Head(inq.items)
         /\ ~ (Waiting(e)' /\ e = Head(inq.items))
         /\ \A k, l \in DOMAIN inq'.items :
              inq'.items[k] = e /\ inq'.items[l] = e => k = l
<1> DEFINE q == inq.items
<1>1. q \in Seq(Event)
  BY DEF Queue
<1>2. /\ 1 \in DOMAIN q /\ Head(q) = q[1]
      /\ \A k \in DOMAIN Tail(q) : k + 1 \in DOMAIN q /\ Tail(q)[k] = q[k + 1]
      /\ \A k \in DOMAIN q : k = 1 \/ (k - 1 \in DOMAIN Tail(q) /\ Tail(q)[k - 1] = q[k])
      /\ \A k \in DOMAIN Tail(q) : k \in Nat /\ k + 1 # 1
      /\ \A k, l \in DOMAIN Tail(q) : k + 1 = l + 1 => k = l
  BY <1>1, TailElements
<1>3. Waiting(e) <=> Waiting(e)' \/ e = Head(q)
  BY <1>2 DEF Waiting
<1>4. ~ (Waiting(e)' /\ e = Head(q))
  BY <1>2 DEF Waiting, Once
<1>5. \A k, l \in DOMAIN inq'.items : inq'.items[k] = e /\ inq'.items[l] = e => k = l
  BY <1>2 DEF Once
<1> QED
  BY <1>3, <1>4, <1>5

-----------------------------------------------------------------------------
(* The steps *)

\* The table as a step leaves it untouched.
LEMMA TableKept ==
  ASSUME NEW e, Once(e), UNCHANGED <<rows, durable, cleared>>
  PROVE  /\ In(e, rows)' <=> In(e, rows)
         /\ In(e, cleared)' <=> In(e, cleared)
         /\ \A i, j \in (rows \cup durable \cup cleared)' :
              e \in Ev(i) /\ e \in Ev(j) => i = j
  BY DEF In, Once

\* A step that moves no event; what it commits was in the table.
LEMMA Unmoved ==
  ASSUME NEW e, Placed(e), Once(e),
         UNCHANGED <<next, inq, hand, ignored, evq, rows, cleared, refused, lost>>,
         durable' \in {durable, rows}
  PROVE  Placed(e)' /\ Once(e)'
<1>1. /\ Waiting(e)' <=> Waiting(e)
      /\ Queued(e)' <=> Queued(e)
      /\ In(e, rows)' <=> In(e, rows)
      /\ In(e, cleared)' <=> In(e, cleared)
  BY DEF Waiting, Queued, In
<1>2. Placed(e)'
  BY <1>1 DEF Placed, InOnePlace, Nowhere, ExactlyOne
<1>3. Once(e)'
  BY DEF Once
<1> QED
  BY <1>2, <1>3

\* CMessageQueue hands over the next event.
LEMMA SendStep ==
  ASSUME TypeInv, NEW e \in Event, Placed(e), Once(e), Send
  PROVE  Placed(e)' /\ Once(e)'
<1>1. /\ next \in Event /\ next' = next + 1
      /\ UNCHANGED <<hand, ignored, evq, rows, durable, cleared, refused>>
  BY SizeAssumption DEF Send, Event, TypeInv, TypeOK, intake, disk
<1>2. /\ Queued(e)' <=> Queued(e)
      /\ In(e, rows)' <=> In(e, rows)
      /\ In(e, cleared)' <=> In(e, cleared)
  BY <1>1 DEF Queued, In
<1>3. e < next' <=> e < next \/ e = next
  BY <1>1, SizeAssumption DEF Event
<1>3a. e >= next' <=> ~ (e < next')
  BY <1>1, SizeAssumption DEF Event
<1>4. e = next => e >= next
  BY <1>1, SizeAssumption DEF Event
<1>4a. e < next => e # next
  BY <1>1, SizeAssumption DEF Event
<1>4b. e >= next <=> ~ (e < next)
  BY <1>1, SizeAssumption DEF Event
<1>5. e = next => ~ Waiting(e)
  BY <1>4 DEF Placed, Nowhere
<1>6. CASE lost' = lost \cup {next} /\ inq' = inq
  <2>1. Waiting(e)' <=> Waiting(e)
    BY <1>6 DEF Waiting
  <2>2. Placed(e)'
    BY <1>1, <1>2, <1>3, <1>3a, <1>4, <1>4a, <1>4b, <1>6, <2>1
    DEF Placed, InOnePlace, Nowhere, ExactlyOne
  <2>3. Once(e)'
    BY <1>1, <1>6 DEF Once
  <2> QED
    BY <2>2, <2>3
<1>7. CASE lost' = lost /\ inq'.items = Append(inq.items, next)
  <2>1. /\ Waiting(e)' <=> Waiting(e) \/ e = next
        /\ \A k, l \in DOMAIN inq'.items :
             inq'.items[k] = e /\ inq'.items[l] = e => k = l
    BY <1>1, <1>5, <1>7, WaitingAdded DEF TypeInv, TypeOK
  <2>2. Placed(e)'
    BY <1>1, <1>2, <1>3, <1>3a, <1>4, <1>4a, <1>4b, <1>7, <2>1
    DEF Placed, InOnePlace, Nowhere, ExactlyOne
  <2>3. Once(e)'
    BY <1>1, <2>1 DEF Once
  <2> QED
    BY <2>2, <2>3
<1>8. CASE inq.size >= MaxIn /\ lost' = lost \cup {next} /\ UNCHANGED <<told, inq, recv, faults>>
  BY <1>6, <1>8
<1>9. ASSUME NEW put \in Puts(inq, next, Size[next]), inq' = put[1],
             lost' = IF put[2] = 0 THEN lost ELSE lost \cup {next}
      PROVE  Placed(e)' /\ Once(e)'
  <2>1. \/ put[1].items = Append(inq.items, next) /\ put[2] = 0
        \/ put[1] = inq /\ put[2] = 1
    BY PutsCases
  <2> QED
    BY <1>6, <1>7, <1>9, <2>1
<1> QED
  BY <1>8, <1>9 DEF Send, Enqueue

\* CCacheTransport takes an event into its empty hand.
LEMMA TakeStep ==
  ASSUME TypeInv, Carrying, NEW e \in Event, Placed(e), Once(e), Take,
         inq.items # <<>>
  PROVE  Placed(e)' /\ Once(e)'
<1>1. /\ hand = 0 /\ hand' = Head(inq.items) /\ inq'.items = Tail(inq.items)
      /\ UNCHANGED <<next, ignored, evq, rows, durable, cleared, refused, lost>>
  BY DEF Take, Taken, Carrying, source, intake, disk, history
<1>2. e # 0
  BY DEF Event
<1>3. /\ Waiting(e) <=> Waiting(e)' \/ e = Head(inq.items)
      /\ ~ (Waiting(e)' /\ e = Head(inq.items))
      /\ \A k, l \in DOMAIN inq'.items :
           inq'.items[k] = e /\ inq'.items[l] = e => k = l
  BY <1>1, WaitingTaken DEF TypeInv, TypeOK
<1>4. Queued(e)' <=> Queued(e)
  BY <1>1 DEF Queued
<1>5. /\ In(e, rows)' <=> In(e, rows)
      /\ In(e, cleared)' <=> In(e, cleared)
  BY <1>1 DEF In
<1>6. Placed(e)'
  BY <1>1, <1>2, <1>3, <1>4, <1>5 DEF Placed, InOnePlace, Nowhere, ExactlyOne
<1>7. Once(e)'
  BY <1>1, <1>3 DEF Once
<1> QED
  BY <1>6, <1>7

\* A handler puts entry x, which stands for the events in S, into the queue of
\* the data base, or loses them because Put failed; they leave the hand
\* or the counters.
LEMMA PutStep ==
  ASSUME TypeInv, NEW e \in Event, Placed(e), Once(e),
         NEW x \in Item, NEW put \in Puts(evq, x, ItemSize(x)), evq' = put[1],
         lost' = IF put[2] = 0 THEN lost ELSE lost \cup Ev(x),
         UNCHANGED <<next, inq, rows, durable, cleared, refused>>,
         \/ /\ Ev(x) = {hand} /\ hand' = 0 /\ ignored' = ignored
         \/ /\ Ev(x) = ignored /\ hand' = hand /\ ignored' = {}
  PROVE  Placed(e)' /\ Once(e)'
<1>1. e # 0
  BY DEF Event
<1>2. e \in Ev(x) => ~ Queued(e)
  <2>1. e \in Ev(x) => e = hand \/ e \in ignored
    OBVIOUS
  <2>2. e < next \/ e >= next
    BY SizeAssumption DEF TypeInv, TypeOK, Event
  <2> QED
    BY <2>1, <2>2 DEF Placed, InOnePlace, Nowhere, ExactlyOne
<1>3. /\ Waiting(e)' <=> Waiting(e)
      /\ In(e, rows)' <=> In(e, rows)
      /\ In(e, cleared)' <=> In(e, cleared)
  BY DEF Waiting, In
<1>4. CASE put[1].items = Append(evq.items, x) /\ put[2] = 0
  <2>1. /\ Queued(e)' <=> Queued(e) \/ e \in Ev(x)
        /\ \A k, l \in DOMAIN evq'.items :
             e \in Ev(evq'.items[k]) /\ e \in Ev(evq'.items[l]) => k = l
    BY <1>2, <1>4, QueuedAdded DEF TypeInv, TypeOK
  <2>2. Placed(e)'
    BY <1>1, <1>3, <1>4, <2>1 DEF Placed, InOnePlace, Nowhere, ExactlyOne
  <2>3. Once(e)'
    BY <2>1 DEF Once
  <2> QED
    BY <2>2, <2>3
<1>5. CASE put[1] = evq /\ put[2] = 1
  <2>1. (Queued(e)' <=> Queued(e)) /\ evq' = evq /\ lost' = lost \cup Ev(x)
    BY <1>5 DEF Queued
  <2>2. Placed(e)'
    BY <1>1, <1>3, <2>1 DEF Placed, InOnePlace, Nowhere, ExactlyOne
  <2>3. Once(e)'
    BY <2>1 DEF Once
  <2> QED
    BY <2>2, <2>3
<1> QED
  BY <1>4, <1>5, PutsCases

\* A handler drops the event in hand, or counts it.
LEMMA DropStep ==
  ASSUME NEW e \in Event, Placed(e), Once(e), hand' = 0,
         UNCHANGED <<next, inq, evq, rows, durable, cleared, lost>>,
         \/ refused' = refused \cup {hand} /\ ignored' = ignored
         \/ ignored' = ignored \cup {hand} /\ refused' = refused
  PROVE  Placed(e)' /\ Once(e)'
<1>1. e # 0
  BY DEF Event
<1>2. /\ Waiting(e)' <=> Waiting(e)
      /\ Queued(e)' <=> Queued(e)
      /\ In(e, rows)' <=> In(e, rows)
      /\ In(e, cleared)' <=> In(e, cleared)
  BY DEF Waiting, Queued, In
<1>3. Placed(e)'
  BY <1>1, <1>2 DEF Placed, InOnePlace, Nowhere, ExactlyOne
<1>4. Once(e)'
  BY DEF Once
<1> QED
  BY <1>3, <1>4

\* CDBTransport inserts the first entry of its queue, or fails to.
LEMMA InsertStep ==
  ASSUME TypeInv, TxnInv, Uncommitted, NEW e \in Event, Placed(e), Once(e), Insert
  PROVE  Placed(e)' /\ Once(e)'
<1> DEFINE x == Head(evq.items)
<1>1. /\ evq.items # <<>> /\ evq'.items = Tail(evq.items)
      /\ UNCHANGED <<next, inq, hand, ignored, cleared, refused>>
      /\ \/ rows' = rows \cup {x} /\ lost' = lost
         \/ rows' = rows /\ lost' = lost \cup Ev(x)
  BY DEF Insert, Taken, Statement, source, cache, Ev
<1>2. durable' = durable
  BY DEF Insert, Statement, TxnInv, Inserting
<1>3. /\ Queued(e) <=> Queued(e)' \/ e \in Ev(x)
      /\ ~ (Queued(e)' /\ e \in Ev(x))
      /\ \A k, l \in DOMAIN evq'.items :
           e \in Ev(evq'.items[k]) /\ e \in Ev(evq'.items[l]) => k = l
  BY <1>1, QueuedTaken DEF TypeInv, TypeOK
<1>4. /\ Waiting(e)' <=> Waiting(e)
      /\ In(e, cleared)' <=> In(e, cleared)
  BY <1>1 DEF Waiting, In
<1>5. e \in Ev(x) => ~ In(e, rows) /\ ~ In(e, cleared)
  <2>1. e < next \/ e >= next
    BY SizeAssumption DEF TypeInv, TypeOK, Event
  <2> QED
    BY <1>3, <2>1 DEF Placed, InOnePlace, Nowhere, ExactlyOne
<1>6. CASE rows' = rows \cup {x} /\ lost' = lost
  <2>1. In(e, rows)' <=> In(e, rows) \/ e \in Ev(x)
    BY <1>6 DEF In, Ev
  <2>2. Placed(e)'
    BY <1>1, <1>3, <1>4, <1>6, <2>1 DEF Placed, InOnePlace, Nowhere, ExactlyOne
  <2>3. \A i, j \in rows' \cup durable \cup cleared : e \in Ev(i) /\ e \in Ev(j) => i = j
    <3>1. \A i \in rows \cup durable \cup cleared :
            e \in Ev(i) => In(e, rows) \/ In(e, cleared)
      BY DEF Uncommitted, In
    <3> QED
      BY <1>5, <1>6, <3>1 DEF Once
  <2>4. Once(e)'
    BY <1>1, <1>2, <1>3, <2>3 DEF Once
  <2> QED
    BY <2>2, <2>4
<1>7. CASE rows' = rows /\ lost' = lost \cup Ev(x)
  <2>1. In(e, rows)' <=> In(e, rows)
    BY <1>7 DEF In
  <2>2. Placed(e)'
    BY <1>1, <1>3, <1>4, <1>7, <2>1 DEF Placed, InOnePlace, Nowhere, ExactlyOne
  <2>3. Once(e)'
    BY <1>1, <1>2, <1>3, <1>7 DEF Once
  <2> QED
    BY <2>2, <2>3
<1> QED
  BY <1>1, <1>6, <1>7

\* CMidHandler deletes the row of an acknowledged event.
LEMMA DeleteStep ==
  ASSUME Doomed, NEW e \in Event, Placed(e), Once(e), Delete
  PROVE  Placed(e)' /\ Once(e)'
<1>1. /\ doomed \in rows /\ rows' = rows \ {doomed}
      /\ cleared' = cleared \cup {doomed} /\ durable' \in {durable, rows'}
      /\ UNCHANGED <<next, inq, hand, ignored, evq, refused, lost>>
  BY DEF Doomed, Delete, Statement, source, cache, intake
<1>2. /\ Waiting(e)' <=> Waiting(e)
      /\ Queued(e)' <=> Queued(e)
  BY <1>1 DEF Waiting, Queued
<1>3. /\ In(e, rows) <=> In(e, rows)' \/ e \in Ev(doomed)
      /\ ~ (In(e, rows)' /\ e \in Ev(doomed))
      /\ In(e, cleared)' <=> In(e, cleared) \/ e \in Ev(doomed)
  BY <1>1 DEF In, Once, Ev
<1>4. Placed(e)'
  BY <1>1, <1>2, <1>3 DEF Placed, InOnePlace, Nowhere, ExactlyOne
<1>5. (rows \cup durable \cup cleared)' \subseteq rows \cup durable \cup cleared
  BY <1>1
<1>6. Once(e)'
  BY <1>1, <1>5 DEF Once
<1> QED
  BY <1>4, <1>6

\* The process dies: what only its memory holds is lost, and what was deleted
\* in a transaction not committed is in the table again.
LEMMA CrashStep ==
  ASSUME TypeInv, Uncommitted, NEW e \in Event, Placed(e), Once(e), Crash
  PROVE  Placed(e)' /\ Once(e)'
<1>1. /\ lost' = lost \cup Volatile /\ cleared' = cleared \ durable
      /\ rows' = durable /\ durable' = durable /\ hand' = 0 /\ ignored' = {}
      /\ inq'.items = <<>> /\ evq'.items = <<>>
      /\ UNCHANGED <<next, refused>>
  BY DEF Crash, Empty
<1>2. e # 0 /\ (e < next \/ e >= next)
  BY SizeAssumption DEF Event, TypeInv, TypeOK
<1>3. ~ Waiting(e)' /\ ~ Queued(e)' /\ e # hand' /\ e \notin ignored'
  BY <1>1, <1>2 DEF Waiting, Queued
<1>4. e \in Volatile <=> \/ Queued(e) \/ In(e, rows \ durable) \/ Waiting(e)
                         \/ e \in ignored \/ e = hand
  <2>1. e \in Range(inq.items) <=> Waiting(e)
    BY DEF Range, Waiting
  <2>2. e \in EventsOf(Range(evq.items) \cup (rows \ durable))
          <=> Queued(e) \/ In(e, rows \ durable)
    BY DEF EventsOf, Range, Queued, In, Ev
  <2> QED
    BY <1>2, <2>1, <2>2 DEF Volatile
<1>5. /\ In(e, rows)' <=> In(e, durable)
      /\ In(e, cleared)' <=> In(e, cleared \ durable)
  BY <1>1 DEF In
<1>6. /\ In(e, rows) <=> In(e, rows \ durable) \/ In(e, rows \cap durable)
      /\ In(e, cleared) <=> In(e, cleared \ durable) \/ In(e, cleared \cap durable)
      /\ In(e, durable) <=> In(e, rows \cap durable) \/ In(e, cleared \cap durable)
      /\ ~ (In(e, durable) /\ In(e, rows \ durable))
      /\ ~ (In(e, durable) /\ In(e, cleared \ durable))
  <2>1. In(e, rows) <=> In(e, rows \ durable) \/ In(e, rows \cap durable)
    BY DEF In
  <2>2. In(e, cleared) <=> In(e, cleared \ durable) \/ In(e, cleared \cap durable)
    BY DEF In
  <2>3. In(e, durable) <=> In(e, rows \cap durable) \/ In(e, cleared \cap durable)
    BY DEF In, Uncommitted
  <2>4. ~ (In(e, durable) /\ In(e, rows \ durable))
    BY DEF In, Once
  <2>5. ~ (In(e, durable) /\ In(e, cleared \ durable))
    BY DEF In, Once
  <2> QED
    BY <2>1, <2>2, <2>3, <2>4, <2>5
<1>7. Placed(e)'
  BY <1>1, <1>2, <1>3, <1>4, <1>5, <1>6 DEF Placed, InOnePlace, Nowhere, ExactlyOne
<1>8. (rows \cup durable \cup cleared)' \subseteq rows \cup durable \cup cleared
  BY <1>1
<1>9. Once(e)'
  BY <1>1, <1>8 DEF Once
<1> QED
  BY <1>7, <1>9

-----------------------------------------------------------------------------
(* The invariant *)

\* No event was sent, and every place is empty.
LEMMA PlaceInit == Init => PlaceInv
<1> SUFFICES ASSUME Init
             PROVE  PlaceInv
  OBVIOUS
<1>1. Carrying /\ Doomed /\ Uncommitted
  BY DEF Init, Carrying, Doomed, Uncommitted
<1>2. ASSUME NEW e \in Event
      PROVE  Placed(e) /\ Once(e)
  <2>1. ~ (e < next) /\ e # 0
    BY SizeAssumption DEF Init, Event
  <2>2. ~ Waiting(e) /\ ~ Queued(e) /\ ~ In(e, rows) /\ ~ In(e, cleared)
    BY DEF Init, Empty, Waiting, Queued, In
  <2>3. Placed(e)
    BY <2>1, <2>2 DEF Init, Placed, Nowhere
  <2>4. Once(e)
    BY DEF Init, Empty, Once
  <2> QED
    BY <2>3, <2>4
<1> QED
  BY <1>1, <1>2 DEF PlaceInv

\* No step takes a full hand from the handler that holds it, removes a row
\* under deletion or takes a row from the table that was not deleted.
LEMMA CommonStep ==
  ASSUME TypeInv, TxnInv, PlaceInv, [Next]_vars
  PROVE  Carrying' /\ Doomed' /\ Uncommitted'
<1> USE DEF PlaceInv, source, cache, intake, writing, disk, deleting, history
<1>1. CASE UNCHANGED vars \/ Send \/ Shutdown \/ SpuriousWake
  BY <1>1 DEF vars, Send, Enqueue, Shutdown, SpuriousWake, Carrying, Doomed, Uncommitted
<1>2. CASE CacheNext
  BY <1>2
  DEF CacheNext, Loop, Take, Park, Refuse, HandleNonIgniteEvent, Measure, NoteIgnored,
      Admit, Ignore, Done, Carrying, Doomed, Uncommitted
<1>3. CASE Insert
  <2>1. rows \subseteq rows' /\ durable' = durable
    BY <1>3 DEF Insert, Statement, TxnInv, Inserting
  <2> QED
    BY <1>3, <2>1 DEF Insert, Carrying, Doomed, Uncommitted
<1>4. CASE \/ LookAtQueue \/ BeginInserts \/ NothingToInsert \/ SetSize \/ ReviseSize
           \/ RestoreThreshold
  BY <1>4 DEF LookAtQueue, BeginInserts, Begin, NothingToInsert, SetSize, ReviseSize,
              RestoreThreshold, Carrying, Doomed, Uncommitted
<1>5. CASE EndInserts \/ EndDelete
  BY <1>5 DEF EndInserts, EndDelete, End, Carrying, Doomed, Uncommitted
<1>6. CASE BeginDelete
  BY <1>6 DEF BeginDelete, Begin, Carrying, Doomed, Uncommitted
<1>7. CASE Delete
  BY <1>7 DEF Delete, Statement, Carrying, Doomed, Uncommitted
<1>8. CASE Crash
  BY <1>8 DEF Crash, Carrying, Doomed, Uncommitted
<1> QED
  BY <1>1, <1>2, <1>3, <1>4, <1>5, <1>6, <1>7, <1>8 DEF Next, WriterNext, MidNext

\* Every step leaves each event in one place.
LEMMA PlaceStep == TypeInv /\ TxnInv /\ PlaceInv /\ [Next]_vars => PlaceInv'
<1> SUFFICES ASSUME TypeInv, TxnInv, PlaceInv, [Next]_vars
             PROVE  PlaceInv'
  OBVIOUS
<1>1. ASSUME NEW e \in Event
      PROVE  Placed(e)' /\ Once(e)'
  <2>0. Placed(e) /\ Once(e) /\ Carrying /\ Doomed /\ Uncommitted
    BY DEF PlaceInv
  <2> USE DEF source, cache, intake, writing, disk, deleting, history
  <2>1. CASE UNCHANGED vars \/ Shutdown \/ SpuriousWake \/ Loop \/ Park \/ Measure
    BY <2>0, <2>1, Unmoved DEF vars, Shutdown, SpuriousWake, Loop, Park, Measure
  <2>2. CASE \/ LookAtQueue \/ BeginInserts \/ NothingToInsert \/ SetSize \/ ReviseSize
             \/ RestoreThreshold \/ BeginDelete
    BY <2>0, <2>2, Unmoved
    DEF LookAtQueue, BeginInserts, Begin, NothingToInsert, SetSize, ReviseSize,
        RestoreThreshold, BeginDelete
  <2>3. CASE EndInserts \/ EndDelete
    BY <2>0, <2>3, Unmoved DEF EndInserts, EndDelete, End
  <2>4. CASE Send
    BY <2>0, <2>4, SendStep
  <2>5. CASE Take
    <3>1. CASE inq.items # <<>>
      BY <2>0, <2>5, <3>1, TakeStep
    <3>2. CASE inq.items = <<>>
      BY <2>0, <2>5, <3>2, Unmoved DEF Take
    <3> QED
      BY <3>1, <3>2
  <2>6. CASE Refuse \/ Ignore
    BY <2>0, <2>6, DropStep DEF Refuse, Ignore, Done
  <2>7. CASE HandleNonIgniteEvent \/ Admit
    <3>1. hand \in Event
      BY <2>7 DEF HandleNonIgniteEvent, Admit, TypeInv
    <3>2. /\ Record(hand) \in Item /\ Ev(Record(hand)) = {hand}
          /\ ItemSize(Record(hand)) = Size[hand]
      BY <3>1, Records, EvRecords DEF ItemSize, Record, Event
    <3>3. /\ UNCHANGED <<next, inq, rows, durable, cleared, refused, ignored>>
          /\ hand' = 0
          /\ \E put \in Puts(evq, Record(hand), Size[hand]) :
               /\ evq' = put[1]
               /\ lost' = IF put[2] = 0 THEN lost ELSE lost \cup {hand}
      BY <2>7 DEF HandleNonIgniteEvent, Admit, Done
    <3> QED
      BY <2>0, <3>2, <3>3, PutStep
  <2>8. CASE NoteIgnored
    <3>1. /\ Overflow(ignored) \in Item /\ Ev(Overflow(ignored)) = ignored
          /\ ItemSize(Overflow(ignored)) = OverflowSize
      BY Records, EvRecords DEF ItemSize, Overflow, TypeInv, TypeOK
    <3>2. /\ UNCHANGED <<next, inq, hand, rows, durable, cleared, refused>>
          /\ ignored' = {}
          /\ \E put \in Puts(evq, Overflow(ignored), OverflowSize) :
               /\ evq' = put[1]
               /\ lost' = IF put[2] = 0 THEN lost ELSE lost \cup ignored
      BY <2>8 DEF NoteIgnored
    <3> QED
      BY <2>0, <3>1, <3>2, PutStep
  <2>9. CASE Insert
    BY <2>0, <2>9, InsertStep
  <2>10. CASE Delete
    BY <2>0, <2>10, DeleteStep
  <2>11. CASE Crash
    BY <2>0, <2>11, CrashStep
  <2> QED
    BY <2>1, <2>2, <2>3, <2>4, <2>5, <2>6, <2>7, <2>8, <2>9, <2>10, <2>11
    DEF Next, CacheNext, WriterNext, MidNext
<1> QED
  BY <1>1, CommonStep DEF PlaceInv

\* A set whose elements are all the same has at most one.
LEMMA AtMostOne ==
  ASSUME NEW S, \A x, y \in S : x = y
  PROVE  Cardinality(S) <= 1
<1>1. CASE S = {}
  BY <1>1, FS_EmptySet
<1>2. ASSUME NEW x \in S
      PROVE  Cardinality(S) <= 1
  <2>1. S = {x}
    BY <1>2
  <2> QED
    BY <2>1, FS_Singleton
<1> QED
  BY <1>1, <1>2

\* InOnePlace says what Accounted counts.
LEMMA OneHolder ==
  ASSUME NEW e \in Event, InOnePlace(e)
  PROVE  Cardinality({i \in DOMAIN Holding(e) : Holding(e)[i]}) = 1
<1> DEFINE H == Holding(e)
           S == {i \in DOMAIN H : H[i]}
<1>1. /\ e \in Range(inq.items) <=> Waiting(e)
      /\ e \in EventsOf(Range(evq.items)) <=> Queued(e)
      /\ e \in EventsOf(rows) <=> In(e, rows)
      /\ e \in EventsOf(cleared) <=> In(e, cleared)
  BY DEF Range, EventsOf, Waiting, Queued, In, Ev
<1>2. /\ DOMAIN H = 1 .. 8
      /\ H[1] <=> Waiting(e)
      /\ H[2] <=> e = hand
      /\ H[3] <=> e \in ignored
      /\ H[4] <=> Queued(e)
      /\ H[5] <=> In(e, rows)
      /\ H[6] <=> In(e, cleared)
      /\ H[7] <=> e \in refused
      /\ H[8] <=> e \in lost
  <2>1. /\ DOMAIN H = 1 .. 8
        /\ H[1] = (e \in Range(inq.items)) /\ H[2] = (e = hand)
        /\ H[3] = (e \in ignored) /\ H[4] = (e \in EventsOf(Range(evq.items)))
        /\ H[5] = (e \in EventsOf(rows)) /\ H[6] = (e \in EventsOf(cleared))
        /\ H[7] = (e \in refused) /\ H[8] = (e \in lost)
    BY DEF Holding
  <2> QED
    BY <1>1, <2>1
<1>3. /\ H[1] \/ H[2] \/ H[3] \/ H[4] \/ H[5] \/ H[6] \/ H[7] \/ H[8]
      /\ H[1] => ~ (H[2] \/ H[3] \/ H[4] \/ H[5] \/ H[6] \/ H[7] \/ H[8])
      /\ H[2] => ~ (H[3] \/ H[4] \/ H[5] \/ H[6] \/ H[7] \/ H[8])
      /\ H[3] => ~ (H[4] \/ H[5] \/ H[6] \/ H[7] \/ H[8])
      /\ H[4] => ~ (H[5] \/ H[6] \/ H[7] \/ H[8])
      /\ H[5] => ~ (H[6] \/ H[7] \/ H[8])
      /\ H[6] => ~ (H[7] \/ H[8])
      /\ H[7] => ~ H[8]
  BY <1>2 DEF InOnePlace, ExactlyOne
<1> HIDE DEF H
<1>4. PICK k \in 1 .. 8 : H[k]
  BY <1>3
<1>5. \A i \in 1 .. 8 : H[i] => i = k
  BY <1>3, <1>4
<1>6. S = {k}
  BY <1>2, <1>4, <1>5
<1> QED
  BY <1>6, FS_Singleton DEF H

\* Every event handed to Send is in exactly one queue, hand, row, count or list
\* of losses, and once there, whatever fails and whenever the process dies.
THEOREM NothingTwiceOrGone == Spec => []Accounted
<1>1. TypeInv /\ PlaceInv => Accounted
  <2> SUFFICES ASSUME TypeInv, PlaceInv
               PROVE  Accounted
    OBVIOUS
  <2>1. ASSUME NEW e \in 1 .. next - 1
        PROVE  Cardinality({i \in DOMAIN Holding(e) : Holding(e)[i]}) = 1
    <3>1. e \in Event /\ e < next
      BY SizeAssumption DEF Event, TypeInv, TypeOK
    <3> QED
      BY <3>1, OneHolder DEF PlaceInv, Placed
  <2>2. ASSUME NEW e \in Event
        PROVE  Cardinality({i \in DOMAIN evq.items : e \in EventsOf({evq.items[i]})}) <= 1
    <3>1. \A i \in DOMAIN evq.items :
            e \in EventsOf({evq.items[i]}) => e \in Ev(evq.items[i])
      BY DEF EventsOf, Ev
    <3>2. \A k, l \in DOMAIN evq.items :
            e \in Ev(evq.items[k]) /\ e \in Ev(evq.items[l]) => k = l
      BY DEF PlaceInv, Once
    <3> QED
      BY <3>1, <3>2, AtMostOne
  <2> QED
    BY <2>1, <2>2 DEF Accounted
<1> QED
  BY <1>1, PlaceInit, PlaceStep, TypeInvariant, TxnCorrect, PTL DEF Spec
-----------------------------------------------------------------------------
(* The order of the events *)

\* An entry stands for one event or for ignored ones, never for both or none.
OneKind(i) == i.ev = 0 <=> i.of # {}
Kinds == /\ \A k \in DOMAIN evq.items : OneKind(evq.items[k])
         /\ \A i \in rows \cup durable \cup cleared : OneKind(i)

\* What CCacheTransport holds, in its queue or its hand, came after event m.
Before(m) == /\ \A k \in DOMAIN inq.items : m < inq.items[k]
             /\ hand # 0 => m < hand

\* What is queued for the data base came after event m.
Ahead(m) == \A k \in DOMAIN evq.items : evq.items[k].ev # 0 => m < evq.items[k].ev

\* Nothing was handed over that is not yet sent; both queues are in the order
\* of the events; and the farther an event is on the way from the device to the
\* table, the earlier it came.
OrderInv ==
  /\ hand < next
  /\ \A k \in DOMAIN inq.items : inq.items[k] < next /\ hand < inq.items[k]
  /\ \A k, l \in DOMAIN inq.items : k < l => inq.items[k] < inq.items[l]
  /\ \A k \in DOMAIN evq.items : evq.items[k].ev < next /\ Before(evq.items[k].ev)
  /\ \A k, l \in DOMAIN evq.items :
        k < l /\ evq.items[l].ev # 0 => evq.items[k].ev < evq.items[l].ev
  /\ \A i \in rows : Before(i.ev) /\ Ahead(i.ev)
  /\ \A i \in rows \cup durable : i.ev < next

\* The numbers the order is about.
LEMMA OrderTypes ==
  ASSUME TypeOK
  PROVE  /\ next \in Nat \ {0} /\ hand \in Nat
         /\ inq.items \in Seq(Event) /\ evq.items \in Seq(Item)
         /\ \A k \in DOMAIN inq.items : inq.items[k] \in Nat \ {0} /\ k \in Nat
         /\ \A k \in DOMAIN evq.items : evq.items[k] \in Item /\ evq.items[k].ev \in Nat /\ k \in Nat
         /\ \A i \in rows \cup durable \cup cleared : i \in Item /\ i.ev \in Nat
<1>1. inq.items \in Seq(Event) /\ evq.items \in Seq(Item)
  BY DEF TypeOK, Queue
<1>2. /\ \A k \in DOMAIN inq.items : inq.items[k] \in Event /\ k \in Nat
      /\ \A k \in DOMAIN evq.items : evq.items[k] \in Item /\ k \in Nat
  BY <1>1
<1>3. \A i \in Item : i.ev \in Nat
  BY SizeAssumption DEF Item
<1>4. next \in Nat \ {0} /\ hand \in Nat
  BY SizeAssumption DEF TypeOK
<1> QED
  BY <1>1, <1>2, <1>3, <1>4 DEF TypeOK, Event

\* A step that puts nothing into the queues keeps the order, as long as the
\* queues, the hand and the table only lose.
LEMMA OrderKept ==
  ASSUME TypeOK, OrderInv, next' = next, evq'.items = evq.items, inq'.items = inq.items,
         hand' \in {hand, 0}, rows' \subseteq rows, durable' \in {durable, rows, rows'}
  PROVE  OrderInv'
<1>1. /\ next \in Nat \ {0} /\ hand \in Nat
      /\ \A k \in DOMAIN inq.items : inq.items[k] \in Nat \ {0}
  BY OrderTypes
<1> QED
  BY <1>1 DEF OrderInv, Before, Ahead

\* CMessageQueue hands over an event later than all others.
LEMMA OrderSend ==
  ASSUME TypeOK, OrderInv, Send
  PROVE  OrderInv'
<1> USE DEF intake, disk
<1>1. /\ next \in Event /\ next' = next + 1
      /\ UNCHANGED <<hand, evq, rows, durable>>
      /\ inq' = inq \/ inq'.items = Append(inq.items, next)
  <2>1. inq' = inq \/ inq'.items = Append(inq.items, next)
    <3>1. \A put \in Puts(inq, next, Size[next]) :
            put[1] = inq \/ put[1].items = Append(inq.items, next)
      BY PutsCases
    <3> QED
      BY <3>1 DEF Send, Enqueue
  <2> QED
    BY <2>1, SizeAssumption DEF Send, Event, TypeOK
<1>2. /\ next \in Nat \ {0} /\ hand \in Nat
      /\ inq.items \in Seq(Event)
      /\ \A k \in DOMAIN inq.items : inq.items[k] \in Nat \ {0} /\ k \in Nat
      /\ \A k \in DOMAIN evq.items : evq.items[k].ev \in Nat
      /\ \A i \in rows \cup durable : i.ev \in Nat
  BY OrderTypes
<1>3. CASE inq' = inq
  BY <1>1, <1>2, <1>3 DEF OrderInv, Before, Ahead
<1>4. CASE inq'.items = Append(inq.items, next)
  <2> DEFINE q == inq.items
  <2>1. /\ \A k \in DOMAIN inq'.items :
             \/ k \in DOMAIN q /\ inq'.items[k] = q[k]
             \/ k = Len(q) + 1 /\ inq'.items[k] = next
        /\ \A k \in DOMAIN q : k < Len(q) + 1
        /\ Len(q) \in Nat
    BY <1>1, <1>2, <1>4
  <2> HIDE DEF q
  <2>2. hand' < next'
    BY <1>1, <1>2 DEF OrderInv
  <2>3. \A k \in DOMAIN inq'.items : inq'.items[k] < next' /\ hand' < inq'.items[k]
    BY <1>1, <1>2, <2>1 DEF OrderInv, q
  <2>4. \A k, l \in DOMAIN inq'.items : k < l => inq'.items[k] < inq'.items[l]
    BY <1>1, <1>2, <2>1 DEF OrderInv, q
  <2>5. \A m \in Nat : m < next /\ Before(m) => Before(m)'
    BY <1>1, <2>1 DEF Before, q
  <2>6. \A m : Ahead(m)' <=> Ahead(m)
    BY <1>1 DEF Ahead
  <2>7. (\A k \in DOMAIN evq.items : evq.items[k].ev < next /\ Before(evq.items[k].ev))'
    BY <1>1, <1>2, <2>5 DEF OrderInv
  <2>8. \A i \in rows' : Before(i.ev)' /\ Ahead(i.ev)'
    BY <1>1, <1>2, <2>5, <2>6 DEF OrderInv
  <2> QED
    BY <1>1, <1>2, <2>2, <2>3, <2>4, <2>7, <2>8 DEF OrderInv
<1> QED
  BY <1>1, <1>3, <1>4

\* CCacheTransport takes the earliest event of its queue.
LEMMA OrderTake ==
  ASSUME TypeOK, OrderInv, inq.items # <<>>, inq'.items = Tail(inq.items),
         hand' = Head(inq.items), UNCHANGED <<next, evq, rows, durable>>
  PROVE  OrderInv'
<1> DEFINE q == inq.items
<1>1. /\ next \in Nat \ {0} /\ hand \in Nat /\ q \in Seq(Event)
      /\ \A k \in DOMAIN q : q[k] \in Nat \ {0} /\ k \in Nat
      /\ \A k \in DOMAIN evq.items : evq.items[k].ev \in Nat
      /\ \A i \in rows \cup durable : i.ev \in Nat
  BY OrderTypes
<1>2. /\ 1 \in DOMAIN q /\ hand' = q[1]
      /\ \A k \in DOMAIN inq'.items : k + 1 \in DOMAIN q /\ inq'.items[k] = q[k + 1] /\ k \in Nat \ {0}
  BY <1>1
<1> HIDE DEF q
<1>3. hand' < next'
  BY <1>2 DEF OrderInv, q
<1>4. \A k \in DOMAIN inq'.items : inq'.items[k] < next' /\ hand' < inq'.items[k]
  BY <1>1, <1>2 DEF OrderInv, q
<1>5. ASSUME NEW k \in DOMAIN inq'.items, NEW l \in DOMAIN inq'.items, k < l
      PROVE  inq'.items[k] < inq'.items[l]
  <2>1. k + 1 < l + 1
    BY <1>2, <1>5
  <2> QED
    BY <1>2, <2>1 DEF OrderInv, q
<1>6. \A m \in Nat : Before(m) => Before(m)'
  BY <1>1, <1>2 DEF Before, q
<1>7. \A m : Ahead(m)' <=> Ahead(m)
  BY DEF Ahead
<1>8. (\A k \in DOMAIN evq.items : evq.items[k].ev < next /\ Before(evq.items[k].ev))'
  BY <1>1, <1>6 DEF OrderInv
<1>9. \A i \in rows' : Before(i.ev)' /\ Ahead(i.ev)'
  BY <1>1, <1>6, <1>7 DEF OrderInv
<1> QED
  BY <1>3, <1>4, <1>5, <1>8, <1>9 DEF OrderInv

\* A handler queues the event in hand, which leaves the hand, or a record of
\* ignored events, which has no place in the order.
LEMMA OrderPut ==
  ASSUME TypeOK, OrderInv, NEW x \in Item, evq'.items = Append(evq.items, x),
         \/ x.ev = hand /\ hand # 0 /\ hand' = 0
         \/ x.ev = 0 /\ hand' = hand,
         UNCHANGED <<next, inq, rows, durable>>
  PROVE  OrderInv'
<1> DEFINE q == evq.items
<1>1. /\ next \in Nat \ {0} /\ hand \in Nat /\ q \in Seq(Item)
      /\ \A k \in DOMAIN inq.items : inq.items[k] \in Nat \ {0}
      /\ \A k \in DOMAIN q : q[k].ev \in Nat /\ k \in Nat
      /\ \A i \in rows \cup durable : i.ev \in Nat
      /\ x.ev \in Nat
  BY OrderTypes, SizeAssumption DEF Item
<1>2. /\ \A k \in DOMAIN evq'.items :
           \/ k \in DOMAIN q /\ evq'.items[k] = q[k]
           \/ k = Len(q) + 1 /\ evq'.items[k] = x
      /\ \A k \in DOMAIN q : k < Len(q) + 1
      /\ Len(q) \in Nat
  BY <1>1
<1> HIDE DEF q
<1>3. hand' < next' /\ \A k \in DOMAIN inq'.items : inq'.items[k] < next' /\ hand' < inq'.items[k]
  BY <1>1 DEF OrderInv
<1>4. \A m \in Nat : Before(m) => Before(m)'
  BY DEF Before
<1>5. Before(x.ev)' /\ x.ev < next
  BY <1>1 DEF Before, OrderInv
<1>6. (\A k \in DOMAIN evq.items : evq.items[k].ev < next /\ Before(evq.items[k].ev))'
  BY <1>1, <1>2, <1>4, <1>5 DEF OrderInv, q
<1>7. \A k, l \in DOMAIN evq'.items :
        k < l /\ evq'.items[l].ev # 0 => evq'.items[k].ev < evq'.items[l].ev
  <2>1. x.ev # 0 => \A k \in DOMAIN q : q[k].ev < x.ev
    BY DEF OrderInv, Before, q
  <2> QED
    BY <1>1, <1>2, <2>1 DEF OrderInv, q
<1>8. \A i \in rows' : Before(i.ev)' /\ Ahead(i.ev)'
  <2>1. \A i \in rows : x.ev # 0 => i.ev < x.ev
    BY DEF OrderInv, Before
  <2>2. \A i \in rows : Ahead(i.ev)'
    BY <1>2, <2>1 DEF OrderInv, Ahead, q
  <2> QED
    BY <1>1, <1>4, <2>2 DEF OrderInv
<1> QED
  BY <1>3, <1>6, <1>7, <1>8 DEF OrderInv

\* CDBTransport inserts the first entry of its queue, or fails to.
LEMMA OrderInsert ==
  ASSUME TypeOK, OrderInv, evq.items # <<>>, evq'.items = Tail(evq.items),
         rows' \in {rows, rows \cup {Head(evq.items)}}, durable' \in {durable, rows'},
         UNCHANGED <<next, inq, hand>>
  PROVE  OrderInv'
<1> DEFINE q == evq.items
<1>1. /\ next \in Nat \ {0} /\ q \in Seq(Item)
      /\ \A k \in DOMAIN q : q[k].ev \in Nat /\ k \in Nat
      /\ \A i \in rows \cup durable : i.ev \in Nat
  BY OrderTypes
<1>2. /\ 1 \in DOMAIN q /\ Head(evq.items) = q[1]
      /\ \A k \in DOMAIN evq'.items : k + 1 \in DOMAIN q /\ evq'.items[k] = q[k + 1] /\ k \in Nat \ {0}
  BY <1>1
<1> HIDE DEF q
<1>3. \A m : Before(m)' <=> Before(m)
  BY DEF Before
<1>4. (\A k \in DOMAIN evq.items : evq.items[k].ev < next /\ Before(evq.items[k].ev))'
  BY <1>2, <1>3 DEF OrderInv, q
<1>5. ASSUME NEW k \in DOMAIN evq'.items, NEW l \in DOMAIN evq'.items,
             k < l, evq'.items[l].ev # 0
      PROVE  evq'.items[k].ev < evq'.items[l].ev
  <2>1. k + 1 < l + 1
    BY <1>2, <1>5
  <2> QED
    BY <1>2, <1>5, <2>1 DEF OrderInv, q
<1>6. \A i \in rows : Before(i.ev)' /\ Ahead(i.ev)'
  BY <1>2, <1>3 DEF OrderInv, Ahead, q
<1>7. /\ q[1].ev < next /\ Before(q[1].ev)
      /\ \A m : m = q[1].ev => Ahead(m)'
  <2>1. \A k \in DOMAIN evq'.items : 1 < k + 1
    BY <1>2
  <2>2. \A m : m = q[1].ev => Ahead(m)'
    BY <1>1, <1>2, <2>1 DEF OrderInv, Ahead, q
  <2> QED
    BY <1>2, <2>2 DEF OrderInv, q
<1>8. \A i \in rows' : Before(i.ev)' /\ Ahead(i.ev)'
  BY <1>2, <1>3, <1>6, <1>7
<1>9. \A i \in rows' \cup durable' : i.ev < next'
  BY <1>2, <1>7 DEF OrderInv
<1> QED
  BY <1>4, <1>5, <1>8, <1>9 DEF OrderInv

\* Every step keeps the order.
LEMMA OrderStep == TypeInv /\ OrderInv /\ [Next]_vars => OrderInv'
<1> SUFFICES ASSUME TypeInv, OrderInv, [Next]_vars
             PROVE  OrderInv'
  OBVIOUS
<1>0. TypeOK
  BY DEF TypeInv
<1> USE DEF source, cache, intake, writing, disk, deleting, history
<1>1. CASE \/ UNCHANGED vars \/ Shutdown \/ SpuriousWake \/ Loop \/ Park \/ Measure
           \/ Refuse \/ Ignore
  BY <1>0, <1>1, OrderKept
  DEF vars, Shutdown, SpuriousWake, Loop, Park, Measure, Refuse, Ignore, Done
<1>2. CASE \/ LookAtQueue \/ BeginInserts \/ NothingToInsert \/ SetSize \/ ReviseSize
           \/ RestoreThreshold \/ BeginDelete
  BY <1>0, <1>2, OrderKept
  DEF LookAtQueue, BeginInserts, Begin, NothingToInsert, SetSize, ReviseSize,
      RestoreThreshold, BeginDelete
<1>3. CASE EndInserts \/ EndDelete \/ Delete
  BY <1>0, <1>3, OrderKept DEF EndInserts, EndDelete, End, Delete, Statement
<1>4. CASE Send
  BY <1>0, <1>4, OrderSend
<1>5. CASE Take
  <2>1. CASE inq.items # <<>>
    BY <1>0, <1>5, <2>1, OrderTake DEF Take, Taken
  <2>2. CASE inq.items = <<>>
    BY <1>0, <1>5, <2>2, OrderKept DEF Take
  <2> QED
    BY <2>1, <2>2
<1>6. CASE HandleNonIgniteEvent \/ Admit
  <2>1. /\ hand \in Event /\ hand # 0 /\ Record(hand) \in Item /\ Record(hand).ev = hand
    BY <1>6, Records DEF HandleNonIgniteEvent, Admit, TypeInv, Record, Event
  <2>2. PICK put \in Puts(evq, Record(hand), Size[hand]) : evq' = put[1]
    BY <1>6 DEF HandleNonIgniteEvent, Admit
  <2>3. UNCHANGED <<next, inq, rows, durable>> /\ hand' = 0
    BY <1>6 DEF HandleNonIgniteEvent, Admit, Done
  <2>4. CASE evq' = evq
    BY <1>0, <2>3, <2>4, OrderKept
  <2>5. CASE evq'.items = Append(evq.items, Record(hand))
    BY <1>0, <2>1, <2>3, <2>5, OrderPut
  <2> QED
    BY <2>2, <2>4, <2>5, PutsCases
<1>7. CASE NoteIgnored
  <2>1. Overflow(ignored) \in Item /\ Overflow(ignored).ev = 0
    BY Records DEF Overflow, TypeInv, TypeOK
  <2>2. PICK put \in Puts(evq, Overflow(ignored), OverflowSize) : evq' = put[1]
    BY <1>7 DEF NoteIgnored
  <2>3. UNCHANGED <<next, inq, hand, rows, durable>>
    BY <1>7 DEF NoteIgnored
  <2>4. CASE evq' = evq
    BY <1>0, <2>3, <2>4, OrderKept
  <2>5. CASE evq'.items = Append(evq.items, Overflow(ignored))
    BY <1>0, <2>1, <2>3, <2>5, OrderPut
  <2> QED
    BY <2>2, <2>4, <2>5, PutsCases
<1>8. CASE Insert
  BY <1>0, <1>8, OrderInsert DEF Insert, Taken, Statement
<1>9. CASE Crash
  <2>1. /\ inq'.items = <<>> /\ evq'.items = <<>> /\ hand' = 0 /\ next' = next
        /\ rows' = durable /\ durable' = durable
    BY <1>9 DEF Crash, Empty
  <2>2. next \in Nat \ {0}
    BY <1>0, OrderTypes
  <2> QED
    BY <2>1, <2>2 DEF OrderInv, Before, Ahead
<1> QED
  BY <1>1, <1>2, <1>3, <1>4, <1>5, <1>6, <1>7, <1>8, <1>9
  DEF Next, CacheNext, WriterNext, MidNext

\* No step mixes an event with ignored ones in an entry, or makes an empty one.
LEMMA KindsStep == TypeInv /\ Doomed /\ Kinds /\ [Next]_vars => Kinds'
<1> SUFFICES ASSUME TypeInv, Doomed, Kinds, [Next]_vars
             PROVE  Kinds'
  OBVIOUS
<1>0. evq.items \in Seq(Item)
  BY OrderTypes DEF TypeInv
<1> USE DEF source, cache, intake, writing, disk, deleting, history
<1>1. ASSUME evq'.items = evq.items,
             rows' \cup durable' \cup cleared' \subseteq rows \cup durable \cup cleared
      PROVE  Kinds'
  BY <1>1 DEF Kinds, OneKind
<1>2. CASE \/ UNCHANGED vars \/ Send \/ Shutdown \/ SpuriousWake \/ Loop \/ Take \/ Park
           \/ Measure \/ Refuse \/ Ignore
  BY <1>1, <1>2
  DEF vars, Send, Shutdown, SpuriousWake, Loop, Take, Park, Measure, Refuse, Ignore, Done
<1>3. CASE \/ LookAtQueue \/ BeginInserts \/ NothingToInsert \/ SetSize \/ ReviseSize
           \/ RestoreThreshold \/ BeginDelete
  BY <1>1, <1>3
  DEF LookAtQueue, BeginInserts, Begin, NothingToInsert, SetSize, ReviseSize,
      RestoreThreshold, BeginDelete
<1>4. CASE EndInserts \/ EndDelete \/ Delete
  BY <1>1, <1>4 DEF EndInserts, EndDelete, End, Delete, Statement, Doomed
<1>5. ASSUME NEW x \in Item, OneKind(x), evq'.items = Append(evq.items, x),
             UNCHANGED <<rows, durable, cleared>>
      PROVE  Kinds'
  BY <1>0, <1>5, AppendElements DEF Kinds, OneKind
<1>6. CASE HandleNonIgniteEvent \/ Admit
  <2>1. hand \in Event /\ Record(hand) \in Item /\ OneKind(Record(hand))
    BY <1>6, Records DEF HandleNonIgniteEvent, Admit, TypeInv, Record, OneKind, Event
  <2>2. PICK put \in Puts(evq, Record(hand), Size[hand]) : evq' = put[1]
    BY <1>6 DEF HandleNonIgniteEvent, Admit
  <2>3. UNCHANGED <<rows, durable, cleared>>
    BY <1>6 DEF HandleNonIgniteEvent, Admit
  <2> QED
    BY <1>1, <1>5, <2>1, <2>2, <2>3, PutsCases
<1>7. CASE NoteIgnored
  <2>1. Overflow(ignored) \in Item /\ OneKind(Overflow(ignored))
    BY <1>7, Records DEF NoteIgnored, Overflow, TypeInv, TypeOK, OneKind
  <2>2. PICK put \in Puts(evq, Overflow(ignored), OverflowSize) : evq' = put[1]
    BY <1>7 DEF NoteIgnored
  <2>3. UNCHANGED <<rows, durable, cleared>>
    BY <1>7 DEF NoteIgnored
  <2> QED
    BY <1>1, <1>5, <2>1, <2>2, <2>3, PutsCases
<1>8. CASE Insert
  <2>1. /\ evq.items # <<>> /\ evq'.items = Tail(evq.items) /\ cleared' = cleared
        /\ rows' \in {rows, rows \cup {Head(evq.items)}} /\ durable' \in {durable, rows'}
    BY <1>8 DEF Insert, Taken, Statement
  <2>2. OneKind(Head(evq.items))
    BY <1>0, <2>1, TailElements DEF Kinds, OneKind
  <2>3. \A k \in DOMAIN evq'.items : OneKind(evq'.items[k])
    BY <1>0, <2>1, TailElements DEF Kinds, OneKind
  <2> QED
    BY <2>1, <2>2, <2>3 DEF Kinds, OneKind
<1>9. CASE Crash
  BY <1>9 DEF Crash, Empty, Kinds, OneKind
<1> QED
  BY <1>2, <1>3, <1>4, <1>6, <1>7, <1>8, <1>9 DEF Next, CacheNext, WriterNext, MidNext

-----------------------------------------------------------------------------
(* What has become of an event *)

\* An event is pending while it is on its way to the disk, and counted while an
\* overflow record or the counters stand for it.
RecordQueued(e) == \E k \in DOMAIN evq.items : evq.items[k] = Record(e)
Pending(e) == \/ Waiting(e) \/ e = hand
              \/ RecordQueued(e) \/ Record(e) \in rows \ durable
CountedIn(e) == \/ \E k \in DOMAIN evq.items : e \in evq.items[k].of
                \/ \E i \in rows \cup durable \cup cleared : e \in i.of
Counted(e) == e \in ignored \/ CountedIn(e)

\* One of the six fates, and what each of them means.
Fates(e) == /\ Fate[e] = "new" <=> e >= next
            /\ Fate[e] = "stored" <=> Record(e) \in durable
            /\ Fate[e] = "cleared" <=> Record(e) \in cleared \ durable
            /\ Fate[e] = "dropped" <=> e \in lost \cup refused
            /\ Fate[e] = "counted" <=> Counted(e)
            /\ Fate[e] = "pending" <=> Pending(e)
            /\ Fate[e] \in {"new", "stored", "cleared", "dropped", "counted", "pending"}
AllFates == \A e \in Event : Fates(e)

\* Where the record of an event is and where an entry that counts it.
LEMMA Entries ==
  ASSUME TypeOK, Kinds, NEW e \in Event, Once(e), Uncommitted
  PROVE  /\ Queued(e) <=> RecordQueued(e) \/ \E k \in DOMAIN evq.items : e \in evq.items[k].of
         /\ RecordQueued(e) => ~ \E k \in DOMAIN evq.items : e \in evq.items[k].of
         /\ In(e, rows) <=> Record(e) \in rows \/ \E i \in rows : e \in i.of
         /\ In(e, cleared) <=> Record(e) \in cleared \/ \E i \in cleared : e \in i.of
         /\ \A i \in durable : i \in rows \/ i \in cleared
         /\ Record(e) \in rows \cup durable \cup cleared =>
              ~ \E i \in rows \cup durable \cup cleared : e \in i.of
<1>1. e # 0 /\ Record(e) = [ev |-> e, of |-> {}]
  BY DEF Event, Record
<1>2. \A i \in Item : OneKind(i) => (e \in Ev(i) <=> i = Record(e) \/ e \in i.of)
  BY <1>1 DEF Item, OneKind, Ev
<1>3. \A i \in Item : i = Record(e) => ~ (e \in i.of)
  BY <1>1
<1>4. /\ \A k \in DOMAIN evq.items : evq.items[k] \in Item /\ OneKind(evq.items[k])
      /\ \A i \in rows \cup durable \cup cleared : i \in Item /\ OneKind(i)
  BY OrderTypes DEF Kinds
<1>5. Queued(e) <=> RecordQueued(e) \/ \E k \in DOMAIN evq.items : e \in evq.items[k].of
  BY <1>2, <1>4 DEF Queued, RecordQueued
<1>6. RecordQueued(e) => ~ \E k \in DOMAIN evq.items : e \in evq.items[k].of
  BY <1>2, <1>3, <1>4 DEF RecordQueued, Once
<1>7. /\ In(e, rows) <=> Record(e) \in rows \/ \E i \in rows : e \in i.of
      /\ In(e, cleared) <=> Record(e) \in cleared \/ \E i \in cleared : e \in i.of
  BY <1>2, <1>4 DEF In
<1>8. \A i \in durable : i \in rows \/ i \in cleared
  BY DEF Uncommitted
<1>9. Record(e) \in rows \cup durable \cup cleared =>
        ~ \E i \in rows \cup durable \cup cleared : e \in i.of
  BY <1>2, <1>3, <1>4 DEF Once
<1> QED
  BY <1>5, <1>6, <1>7, <1>8, <1>9

\* The cases of Fate exclude each other and leave only the pending events.
LEMMA FateCases == TypeInv /\ PlaceInv /\ Kinds => AllFates
<1> SUFFICES ASSUME TypeInv, PlaceInv, Kinds, NEW e \in Event
             PROVE  Fates(e)
  BY DEF AllFates
<1>1. /\ TypeOK /\ Uncommitted /\ Placed(e) /\ Once(e)
      /\ e < next \/ e >= next
      /\ ~ (e < next /\ e >= next)
  BY SizeAssumption DEF PlaceInv, TypeInv, TypeOK, Event
<1> DEFINE inQueue == \E k \in DOMAIN evq.items : e \in evq.items[k].of
           inTable == \E i \in rows \cup durable \cup cleared : e \in i.of
           r == Record(e)
<1>2. /\ Queued(e) <=> RecordQueued(e) \/ inQueue
      /\ RecordQueued(e) => ~ inQueue
      /\ In(e, rows) \/ In(e, cleared) <=> r \in rows \/ r \in cleared \/ inTable
      /\ r \in rows => In(e, rows)
      /\ r \in cleared => In(e, cleared)
      /\ r \in durable => r \in rows \/ r \in cleared
      /\ r \in rows \cup durable \cup cleared => ~ inTable
  BY <1>1, Entries
<1>3. Counted(e) <=> e \in ignored \/ inQueue \/ inTable
  BY DEF Counted, CountedIn
<1>4. Pending(e) <=> \/ Waiting(e) \/ e = hand \/ RecordQueued(e)
                     \/ r \in rows /\ r \notin durable
  BY DEF Pending
<1> HIDE DEF inQueue, inTable, r
<1>5. /\ e >= next => Nowhere(e)
      /\ e < next => InOnePlace(e)
  BY <1>1 DEF Placed
<1> DEFINE a == e >= next
           b == r \in durable
           c == r \in cleared /\ r \notin durable
           d == e \in lost \/ e \in refused
           f == Counted(e)
           g == Pending(e)
<1>6. /\ a \/ b \/ c \/ d \/ f \/ g
      /\ a => ~ (b \/ c \/ d \/ f \/ g)
      /\ b => ~ (c \/ d \/ f \/ g)
      /\ c => ~ (d \/ f \/ g)
      /\ d => ~ (f \/ g)
      /\ f => ~ g
  BY <1>1, <1>2, <1>3, <1>4, <1>5 DEF Nowhere, InOnePlace, ExactlyOne
<1>7. Fate[e] = CASE a -> "new" [] b -> "stored" [] c -> "cleared" [] d -> "dropped"
                  [] f -> "counted" [] OTHER -> "pending"
  <2>1. \A S : (\E i \in Range(evq.items) \cup S : e \in i.of)
                 <=> inQueue \/ \E i \in S : e \in i.of
    BY DEF Range, inQueue
  <2>2. (\E i \in Range(evq.items) \cup rows \cup durable \cup cleared : e \in i.of)
          <=> inQueue \/ inTable
    BY <2>1 DEF inTable
  <2>3. f <=> e \in ignored \/ (\E i \in Range(evq.items) \cup rows \cup durable \cup cleared : e \in i.of)
    BY <1>3, <2>2
  <2>4. /\ b <=> Record(e) \in durable
        /\ c <=> Record(e) \in cleared \ durable
        /\ d <=> e \in lost \cup refused
    BY DEF r
  <2> QED
    BY <2>3, <2>4 DEF Fate
<1> HIDE DEF a, b, c, d, f, g
<1>8. /\ Fate[e] = "new" <=> a
      /\ Fate[e] = "stored" <=> b
      /\ Fate[e] = "cleared" <=> c
      /\ Fate[e] = "dropped" <=> d
      /\ Fate[e] = "counted" <=> f
      /\ Fate[e] = "pending" <=> g
      /\ Fate[e] \in {"new", "stored", "cleared", "dropped", "counted", "pending"}
  BY <1>6, <1>7
<1> QED
  BY <1>8 DEF Fates, a, b, c, d, f, g, r

\* Fate is a function, before and after a step.
LEMMA FateFunction ==
  /\ Fate = [e \in Event |-> Fate[e]]
  /\ Fate' = [e \in Event |-> Fate'[e]]
  BY DEF Fate

-----------------------------------------------------------------------------
(* The steps of the contract *)

\* An event keeps its fate when neither the disk, the deletions, the losses nor
\* the counts say otherwise.
LEMMA FateKept ==
  ASSUME NEW e \in Event, Fates(e), Fates(e)',
         (e >= next)' <=> e >= next,
         (Record(e) \in durable)' <=> Record(e) \in durable,
         (Record(e) \in cleared \ durable)' <=> Record(e) \in cleared \ durable,
         (e \in lost \cup refused)' <=> e \in lost \cup refused,
         Counted(e)' <=> Counted(e)
  PROVE  Fate'[e] = Fate[e]
  BY DEF Fates

\* When every event keeps its fate the contract does not move.
LEMMA AllKept ==
  ASSUME \A e \in Event : Fate'[e] = Fate[e]
  PROVE  Fate' = Fate
<1>1. [e \in Event |-> Fate'[e]] = [e \in Event |-> Fate[e]]
  OBVIOUS
<1> QED
  BY <1>1, FateFunction

\* A step that gives up pending and counted events and touches no other drops
\* them in the contract.
LEMMA Dropped ==
  ASSUME AllFates, AllFates', NEW S \in SUBSET Event,
         \A e \in S : (Pending(e) \/ Counted(e)) /\ e \in (lost \cup refused)',
         \A e \in Event \ S : Fate'[e] = Fate[e]
  PROVE  Contract!Drop
<1>1. \A e \in S : Fate[e] \in {"pending", "counted"} /\ Fate'[e] = "dropped"
  BY DEF AllFates, Fates
<1>2. S \subseteq Contract!With("pending") \cup Contract!With("counted")
  BY <1>1 DEF Contract!With, Contract!Event, Event
<1>3. [e \in Event |-> Fate'[e]] = [e \in Event |-> IF e \in S THEN "dropped" ELSE Fate[e]]
  BY <1>1
<1>4. Fate' = Contract!Become(S, "dropped")
  BY <1>3, FateFunction DEF Contract!Become, Contract!Event, Event
<1> QED
  BY <1>2, <1>4 DEF Contract!Drop

\* A step that changes nothing the fates depend on.
LEMMA Untouched ==
  ASSUME UNCHANGED <<next, ignored, rows, durable, cleared, lost, refused>>,
         evq'.items = evq.items
  PROVE  Fate' = Fate
  BY DEF Fate, Range

\* CMessageQueue hands over the next event: it is pending, or dropped at once.
LEMMA EnterStep ==
  ASSUME TypeInv, AllFates, AllFates', Send
  PROVE  Contract!Enter
<1>1. /\ next \in Event /\ next' = next + 1
      /\ UNCHANGED <<hand, ignored, evq, rows, durable, cleared, refused>>
  BY SizeAssumption DEF Send, Event, TypeInv, TypeOK, intake, disk
<1>2. \/ inq' = inq /\ lost' = lost \cup {next}
      \/ inq'.items = Append(inq.items, next) /\ lost' = lost
  <2>1. \A put \in Puts(inq, next, Size[next]) :
          \/ put[1] = inq /\ put[2] = 1
          \/ put[1].items = Append(inq.items, next) /\ put[2] = 0
    BY PutsCases
  <2> QED
    BY <2>1 DEF Send, Enqueue
<1>3. Fate[next] = "new" /\ \A e \in Event : Fate[e] = "new" => next <= e
  BY <1>1, SizeAssumption DEF AllFates, Fates, Event
<1>4. Fate'[next] \in {"pending", "dropped"}
  <2>1. CASE lost' = lost \cup {next}
    BY <1>1, <2>1 DEF AllFates, Fates
  <2>2. CASE inq'.items = Append(inq.items, next)
    <3>1. inq.items \in Seq(Event)
      BY OrderTypes DEF TypeInv
    <3>2. \E k \in DOMAIN inq'.items : inq'.items[k] = next
      BY <1>1, <2>2, <3>1, AppendElements
    <3>3. \A e : (\E k \in DOMAIN inq'.items : inq'.items[k] = e) => Waiting(e)'
      BY DEF Waiting
    <3> QED
      BY <1>1, <3>2, <3>3 DEF AllFates, Fates, Pending
  <2> QED
    BY <1>2, <2>1, <2>2
<1>5. ASSUME NEW e \in Event, e # next
      PROVE  Fate'[e] = Fate[e]
  <2>1. (e >= next)' <=> e >= next
    BY <1>1, <1>5, SizeAssumption DEF Event
  <2>2. e \in (lost \cup refused)' <=> e \in lost \cup refused
    BY <1>1, <1>2, <1>5
  <2>3. Counted(e)' <=> Counted(e)
    BY <1>1 DEF Counted, CountedIn
  <2> QED
    BY <1>1, <2>1, <2>2, <2>3, FateKept DEF AllFates
<1>6. [e \in Event |-> Fate'[e]] = [e \in Event |-> IF e \in {next} THEN Fate'[next] ELSE Fate[e]]
  BY <1>5
<1>7. Fate' = Contract!Become({next}, Fate'[next])
  BY <1>6, FateFunction DEF Contract!Become, Contract!Event, Event
<1>8. next \in Contract!With("new") /\ \A d \in Contract!With("new") : next <= d
  BY <1>1, <1>3 DEF Contract!With, Contract!Event, Event
<1> QED
  BY <1>4, <1>7, <1>8 DEF Contract!Enter

\* A handler refuses the event in hand.
LEMMA RefuseStep ==
  ASSUME TypeInv, AllFates, AllFates', Refuse
  PROVE  Contract!Drop
<1>1. /\ hand \in Event /\ refused' = refused \cup {hand}
      /\ UNCHANGED <<next, ignored, evq, rows, durable, cleared, lost>>
  BY DEF Refuse, Done, TypeInv, source, intake, disk
<1>2. ASSUME NEW e \in Event \ {hand}
      PROVE  Fate'[e] = Fate[e]
  <2>1. Counted(e)' <=> Counted(e)
    BY <1>1 DEF Counted, CountedIn
  <2> QED
    BY <1>1, <2>1, FateKept DEF AllFates
<1>3. Pending(hand)
  BY DEF Pending
<1> QED
  BY <1>1, <1>2, <1>3, Dropped

\* HandleEvent only counts the event in hand.
LEMMA IgnoreStep ==
  ASSUME TypeInv, AllFates, AllFates', Ignore
  PROVE  Contract!Ignore
<1>1. /\ hand \in Event /\ ignored' = ignored \cup {hand}
      /\ UNCHANGED <<next, evq, rows, durable, cleared, lost, refused>>
  BY DEF Ignore, Done, TypeInv, source, disk, history
<1>2. Fate[hand] = "pending" /\ Fate'[hand] = "counted"
  BY <1>1 DEF AllFates, Fates, Pending, Counted
<1>3. ASSUME NEW e \in Event, e # hand
      PROVE  Fate'[e] = Fate[e]
  <2>1. Counted(e)' <=> Counted(e)
    BY <1>1, <1>3 DEF Counted, CountedIn
  <2> QED
    BY <1>1, <2>1, FateKept DEF AllFates
<1>4. [e \in Event |-> Fate'[e]] = [e \in Event |-> IF e \in {hand} THEN "counted" ELSE Fate[e]]
  BY <1>2, <1>3
<1>5. Fate' = Contract!Become({hand}, "counted")
  BY <1>4, FateFunction DEF Contract!Become, Contract!Event, Event
<1> QED
  BY <1>1, <1>2, <1>5 DEF Contract!Ignore, Contract!With, Contract!Event, Event

\* A handler queues entry x, which changes no fate, or loses its events.
LEMMA QueueStep ==
  ASSUME TypeInv, AllFates, AllFates', NEW x \in Item, NEW put \in Puts(evq, x, ItemSize(x)),
         evq' = put[1], lost' = IF put[2] = 0 THEN lost ELSE lost \cup Ev(x),
         UNCHANGED <<next, rows, durable, cleared, refused>>,
         \/ x = Record(hand) /\ hand \in Event /\ ignored' = ignored
         \/ x = Overflow(ignored) /\ ignored' = {}
  PROVE  Contract!Drop \/ Fate' = Fate
<1>1. Ev(x) \subseteq Event /\ evq.items \in Seq(Item)
      /\ \A e \in Ev(x) : Pending(e) \/ Counted(e)
  BY EvRecords, OrderTypes DEF TypeInv, TypeOK, Pending, Counted
<1>2. \/ x.of = {} /\ ignored' = ignored
      \/ x.of = ignored /\ ignored' = {}
  BY DEF Record, Overflow
<1>3. CASE put[1].items = Append(evq.items, x) /\ put[2] = 0
  <2>1. \A e : (\E k \in DOMAIN evq'.items : e \in evq'.items[k].of)
                 <=> e \in x.of \/ \E k \in DOMAIN evq.items : e \in evq.items[k].of
    BY <1>1, <1>3, AppendElements
  <2>2. \A e : Counted(e)' <=> Counted(e)
    BY <1>2, <2>1 DEF Counted, CountedIn
  <2>3. \A e \in Event : Fate'[e] = Fate[e]
    BY <1>3, <2>2, FateKept DEF AllFates
  <2> QED
    BY <2>3, AllKept
<1>4. CASE put[1] = evq /\ put[2] = 1
  <2>1. ASSUME NEW e \in Event \ Ev(x)
        PROVE  Fate'[e] = Fate[e]
    <3>1. e \notin ignored' <=> e \notin ignored
      BY <2>1, EvRecords DEF TypeInv, TypeOK
    <3>2. Counted(e)' <=> Counted(e)
      BY <1>4, <3>1 DEF Counted, CountedIn
    <3> QED
      BY <1>4, <2>1, <3>2, FateKept DEF AllFates
  <2>2. \A e \in Ev(x) : e \in (lost \cup refused)'
    BY <1>4
  <2> QED
    BY <1>1, <2>1, <2>2, Dropped
<1> QED
  BY <1>3, <1>4, PutsCases

\* CDBTransport inserts an entry: it is in the table instead of the queue, or
\* its events are lost.
LEMMA InsertMoves ==
  ASSUME TypeInv, TxnInv, PlaceInv, Kinds, AllFates, AllFates', Insert
  PROVE  Contract!Drop \/ Fate' = Fate
<1> DEFINE x == Head(evq.items)
<1>1. /\ evq.items # <<>> /\ evq'.items = Tail(evq.items) /\ evq.items \in Seq(Item)
      /\ UNCHANGED <<next, ignored, durable, cleared, refused>>
      /\ \/ rows' = rows \cup {x} /\ lost' = lost
         \/ rows' = rows /\ lost' = lost \cup Ev(x)
  BY OrderTypes
  DEF Insert, Taken, Statement, TxnInv, Inserting, TypeInv, source, cache, intake, Ev
<1>2. /\ 1 \in DOMAIN evq.items /\ x = evq.items[1]
      /\ \A k \in DOMAIN evq'.items :
           k + 1 \in DOMAIN evq.items /\ evq'.items[k] = evq.items[k + 1]
      /\ \A k \in DOMAIN evq.items :
           k = 1 \/ (k - 1 \in DOMAIN evq'.items /\ evq'.items[k - 1] = evq.items[k])
  BY <1>1, TailElements
<1> HIDE DEF x
<1>3. \A e : (\E k \in DOMAIN evq.items : e \in evq.items[k].of)
               <=> e \in x.of \/ \E k \in DOMAIN evq'.items : e \in evq'.items[k].of
  BY <1>2
<1>4. CASE rows' = rows \cup {x} /\ lost' = lost
  <2>1. \A e : Counted(e)' <=> Counted(e)
    BY <1>1, <1>3, <1>4 DEF Counted, CountedIn
  <2>2. \A e \in Event : Fate'[e] = Fate[e]
    BY <1>1, <1>4, <2>1, FateKept DEF AllFates
  <2> QED
    BY <2>2, AllKept
<1>5. CASE rows' = rows /\ lost' = lost \cup Ev(x)
  <2>1. x \in Item /\ Ev(x) \subseteq Event
    <3>1. x \in Item
      BY <1>1, <1>2
    <3> QED
      BY <3>1, SizeAssumption DEF Item, Ev, Event
  <2>2. \A e \in Event : e \in Ev(x) => x = Record(e) \/ e \in x.of
    BY <1>2, <2>1 DEF Kinds, OneKind, Item, Ev, Record
  <2>3. \A e \in Ev(x) : Pending(e) \/ Counted(e)
    BY <1>2, <2>1, <2>2 DEF Pending, RecordQueued, Counted, CountedIn
  <2>4. \A e \in Event \ Ev(x) : Fate'[e] = Fate[e]
    <3>1. \A e \in Event \ Ev(x) : e \notin x.of
      BY DEF Ev
    <3>2. \A e \in Event \ Ev(x) : Counted(e)' <=> Counted(e)
      BY <1>1, <1>3, <1>5, <3>1 DEF Counted, CountedIn
    <3> QED
      BY <1>1, <1>5, <3>2, FateKept DEF AllFates
  <2>5. \A e \in Ev(x) : e \in (lost \cup refused)'
    BY <1>5
  <2> QED
    BY <2>1, <2>3, <2>4, <2>5, Dropped
<1> QED
  BY <1>1, <1>4, <1>5

\* END makes the table durable: all its events and no other are on the disk.
\* By the order none of them overtakes a pending one.
LEMMA CommitStep ==
  ASSUME TypeInv, PlaceInv, OrderInv, AllFates, AllFates', durable' = rows,
         UNCHANGED <<next, hand, ignored, evq, inq, rows, cleared, lost, refused>>
  PROVE  Contract!Commit
<1> DEFINE S == {e \in Event : Record(e) \in rows \ durable}
           C == {e \in Event : Record(e) \in durable \ rows}
<1>1. durable \ rows \subseteq cleared
  BY DEF PlaceInv, Uncommitted
<1>2. \A e \in S : Fate[e] = "pending" /\ Fate'[e] = "stored"
  BY DEF AllFates, Fates, Pending
<1>3. \A e \in C : Fate[e] = "stored" /\ Fate'[e] = "cleared"
  BY <1>1 DEF AllFates, Fates
<1>4. ASSUME NEW e \in Event \ (S \cup C)
      PROVE  Fate'[e] = Fate[e]
  <2>1. Record(e) \in rows <=> Record(e) \in durable
    BY <1>4
  <2>2. Counted(e)' <=> Counted(e)
    BY <1>1 DEF Counted, CountedIn
  <2> QED
    BY <2>1, <2>2, FateKept DEF AllFates
<1>5. ASSUME NEW e \in S, NEW d \in Event, Fate[d] = "pending", d < e
      PROVE  d \in S
  <2>1. /\ e \in Nat /\ d \in Nat \ {0} /\ hand \in Nat
        /\ \A k \in DOMAIN inq.items : inq.items[k] \in Nat
    BY <1>5, OrderTypes DEF Event, TypeInv
  <2>2. Record(e) \in rows /\ Record(e).ev = e /\ Record(d).ev = d
    BY DEF Record
  <2>3. Before(e) /\ Ahead(e)
    BY <2>2 DEF OrderInv
  <2>4. ~ Waiting(d) /\ d # hand
    BY <1>5, <2>1, <2>3 DEF Before, Waiting
  <2>5. ~ RecordQueued(d)
    BY <1>5, <2>1, <2>2, <2>3 DEF Ahead, RecordQueued
  <2>6. Pending(d)
    BY <1>5 DEF AllFates, Fates
  <2> QED
    BY <2>4, <2>5, <2>6 DEF Pending
<1>6. [e \in Event |-> Fate'[e]]
        = [e \in Event |-> CASE e \in S -> "stored" [] e \in C -> "cleared" [] OTHER -> Fate[e]]
  <2>1. \A e \in Event : ~ (e \in S /\ e \in C)
    OBVIOUS
  <2> HIDE DEF S, C
  <2>2. \A e \in Event : Fate'[e] = CASE e \in S -> "stored" [] e \in C -> "cleared" [] OTHER -> Fate[e]
    BY <1>2, <1>3, <1>4, <2>1
  <2> QED
    BY <2>2
<1>7. /\ S \in SUBSET Contract!With("pending") /\ C \in SUBSET Contract!With("stored")
  BY <1>2, <1>3 DEF Contract!With, Contract!Event, Event
<1>8. \A e \in S : \A d \in Contract!With("pending") : d < e => d \in S
  BY <1>5 DEF Contract!With, Contract!Event, Event
<1>9. Fate' = [e \in Contract!Event |->
                 CASE e \in S -> "stored" [] e \in C -> "cleared" [] OTHER -> Fate[e]]
  BY <1>6, FateFunction DEF Contract!Event, Event
<1> HIDE DEF S, C
<1> QED
  BY <1>7, <1>8, <1>9 DEF Contract!Commit

\* A row leaves the table after its upload: at once, or only for the open
\* transaction, in which an event not yet committed never reaches the disk.
LEMMA DeleteMoves ==
  ASSUME TypeInv, TxnInv, PlaceInv, Kinds, AllFates, AllFates', Delete
  PROVE  Contract!Commit \/ Contract!Clear \/ Fate' = Fate
<1>1. /\ doomed \in rows /\ rows' = rows \ {doomed} /\ cleared' = cleared \cup {doomed}
      /\ durable' = IF open THEN durable ELSE rows'
      /\ ~ open => rows = durable
      /\ UNCHANGED <<next, ignored, evq, lost, refused>>
  BY DEF PlaceInv, Doomed, Delete, Statement, TxnInv, source, cache, intake
<1>2. \A e : Counted(e)' <=> Counted(e)
  BY <1>1 DEF Counted, CountedIn
<1>3. ASSUME NEW e \in Event, doomed # Record(e)
      PROVE  Fate'[e] = Fate[e]
  BY <1>1, <1>2, <1>3, FateKept DEF AllFates
<1>4. CASE \A e \in Event : doomed # Record(e)
  BY <1>3, <1>4, AllKept
<1>5. ASSUME NEW e \in Event, doomed = Record(e)
      PROVE  Contract!Commit \/ Contract!Clear \/ Fate' = Fate
  <2>1. \A d \in Event : d # e => doomed # Record(d)
    BY <1>5 DEF Record
  <2>2. CASE open /\ doomed \in durable
    <3>1. Fate'[e] = Fate[e]
      BY <1>1, <1>5, <2>2 DEF AllFates, Fates
    <3> QED
      BY <1>3, <2>1, <3>1, AllKept
  <2>3. CASE open /\ doomed \notin durable
    <3>1. Fate[e] = "pending" /\ Fate'[e] = "cleared"
      BY <1>1, <1>5, <2>3 DEF AllFates, Fates, Pending
    <3>2. [d \in Event |-> Fate'[d]] = [d \in Event |-> IF d \in {e} THEN "cleared" ELSE Fate[d]]
      BY <1>3, <2>1, <3>1
    <3>3. Fate' = Contract!Become({e}, "cleared")
      BY <3>2, FateFunction DEF Contract!Become, Contract!Event, Event
    <3> QED
      BY <3>1, <3>3 DEF Contract!Clear, Contract!With, Contract!Event, Event
  <2>4. CASE ~ open
    <3>1. Fate[e] = "stored" /\ Fate'[e] = "cleared"
      BY <1>1, <1>5, <2>4 DEF AllFates, Fates
    <3>2. [d \in Event |-> Fate'[d]]
            = [d \in Event |-> CASE d \in {} -> "stored" [] d \in {e} -> "cleared" [] OTHER -> Fate[d]]
      <4>1. \A d \in Event : Fate'[d] = CASE d \in {} -> "stored" [] d \in {e} -> "cleared"
                                          [] OTHER -> Fate[d]
        BY <1>3, <2>1, <3>1
      <4> QED
        BY <4>1
    <3>3. Fate' = [d \in Contract!Event |->
                     CASE d \in {} -> "stored" [] d \in {e} -> "cleared" [] OTHER -> Fate[d]]
      BY <3>2, FateFunction DEF Contract!Event, Event
    <3>4. {e} \in SUBSET Contract!With("stored") /\ {} \in SUBSET Contract!With("pending")
      BY <3>1 DEF Contract!With, Contract!Event, Event
    <3> QED
      BY <3>3, <3>4 DEF Contract!Commit
  <2> QED
    BY <2>2, <2>3, <2>4
<1> QED
  BY <1>4, <1>5

\* The process dies: the events only its memory holds are given up.
LEMMA CrashMoves ==
  ASSUME TypeInv, PlaceInv, Kinds, AllFates, AllFates', Crash
  PROVE  Contract!Drop
<1>1. /\ lost' = lost \cup Volatile /\ cleared' = cleared \ durable
      /\ rows' = durable /\ durable' = durable /\ ignored' = {}
      /\ evq'.items = <<>>
      /\ UNCHANGED <<next, refused>>
  BY DEF Crash, Empty
<1> DEFINE S == {e \in Event : e \in Volatile}
<1>2. ASSUME NEW e \in Event
      PROVE  e \in Volatile <=> \/ Waiting(e) \/ e = hand \/ e \in ignored
                                \/ Queued(e) \/ In(e, rows \ durable)
  <2>1. e \in Range(inq.items) <=> Waiting(e)
    BY DEF Range, Waiting
  <2>2. e \in EventsOf(Range(evq.items) \cup (rows \ durable))
          <=> Queued(e) \/ In(e, rows \ durable)
    BY DEF EventsOf, Range, Queued, In, Ev
  <2>3. e # 0
    BY DEF Event
  <2> QED
    BY <2>1, <2>2, <2>3 DEF Volatile
<1>3. ASSUME NEW e \in Event
      PROVE  /\ Queued(e) <=> RecordQueued(e) \/ \E k \in DOMAIN evq.items : e \in evq.items[k].of
             /\ In(e, rows \ durable) <=> \/ Record(e) \in rows \ durable
                                          \/ \E i \in rows \ durable : e \in i.of
  <2>1. TypeOK /\ Once(e) /\ Uncommitted
    BY DEF TypeInv, PlaceInv
  <2>2. \A i \in rows : e \in Ev(i) <=> i = Record(e) \/ e \in i.of
    <3>1. \A i \in rows : i \in Item /\ OneKind(i)
      BY <2>1, OrderTypes DEF Kinds
    <3> QED
      BY <3>1 DEF OneKind, Item, Ev, Record, Event
  <2> QED
    BY <2>1, <2>2, Entries DEF In
<1>4. \A e \in S : Pending(e) \/ Counted(e)
  BY <1>2, <1>3 DEF Pending, Counted, CountedIn
<1>5. ASSUME NEW e \in Event \ S
      PROVE  Fate'[e] = Fate[e]
  <2>1. /\ e \notin ignored /\ ~ \E k \in DOMAIN evq.items : e \in evq.items[k].of
        /\ ~ \E i \in rows \ durable : e \in i.of
    BY <1>2, <1>3, <1>5
  <2>2. CountedIn(e) <=> \E i \in durable \cup cleared : e \in i.of
    BY <2>1 DEF CountedIn
  <2>3. CountedIn(e)' <=> \E i \in durable \cup cleared : e \in i.of
    BY <1>1 DEF CountedIn
  <2>4. Counted(e)' <=> Counted(e)
    BY <1>1, <2>1, <2>2, <2>3 DEF Counted
  <2> QED
    BY <1>1, <1>5, <2>4, FateKept DEF AllFates
<1>6. \A e \in S : e \in (lost \cup refused)'
  BY <1>1
<1> QED
  BY <1>4, <1>5, <1>6, Dropped

\* Every step of the ingest path is one of the contract, or none.
LEMMA StoreStep ==
  ASSUME TypeInv, TxnInv, PlaceInv, OrderInv, Kinds, AllFates, AllFates', [Next]_vars
  PROVE  [Contract!CNext]_Fate
<1> USE DEF source, cache, intake, writing, disk, deleting, history
<1>1. CASE UNCHANGED vars \/ Shutdown \/ SpuriousWake \/ Loop \/ Take \/ Park \/ Measure
  BY <1>1, Untouched DEF vars, Shutdown, SpuriousWake, Loop, Take, Park, Measure
<1>2. CASE \/ LookAtQueue \/ BeginInserts \/ NothingToInsert \/ SetSize \/ ReviseSize
           \/ RestoreThreshold \/ BeginDelete
  BY <1>2, Untouched
  DEF LookAtQueue, BeginInserts, Begin, NothingToInsert, SetSize, ReviseSize,
      RestoreThreshold, BeginDelete
<1>3. CASE EndInserts \/ EndDelete
  <2>1. /\ durable' = durable \/ durable' = rows
        /\ UNCHANGED <<next, hand, ignored, evq, inq, rows, cleared, lost, refused>>
    BY <1>3 DEF EndInserts, EndDelete, End
  <2> QED
    BY <2>1, CommitStep, Untouched DEF Contract!CNext
<1>4. CASE Send
  BY <1>4, EnterStep DEF Contract!CNext
<1>5. CASE Refuse
  BY <1>5, RefuseStep DEF Contract!CNext
<1>6. CASE Ignore
  BY <1>6, IgnoreStep DEF Contract!CNext
<1>7. CASE HandleNonIgniteEvent \/ Admit
  <2>1. hand \in Event
    BY <1>7 DEF HandleNonIgniteEvent, Admit, TypeInv
  <2>2. /\ Record(hand) \in Item /\ Ev(Record(hand)) = {hand}
        /\ ItemSize(Record(hand)) = Size[hand]
    BY <2>1, Records, EvRecords DEF ItemSize, Record, Event
  <2>3. /\ UNCHANGED <<next, rows, durable, cleared, refused, ignored>>
        /\ \E put \in Puts(evq, Record(hand), Size[hand]) :
             /\ evq' = put[1]
             /\ lost' = IF put[2] = 0 THEN lost ELSE lost \cup {hand}
    BY <1>7 DEF HandleNonIgniteEvent, Admit
  <2> QED
    BY <2>1, <2>2, <2>3, QueueStep DEF Contract!CNext
<1>8. CASE NoteIgnored
  <2>1. /\ Overflow(ignored) \in Item /\ Ev(Overflow(ignored)) = ignored
        /\ ItemSize(Overflow(ignored)) = OverflowSize
    BY Records, EvRecords DEF ItemSize, Overflow, TypeInv, TypeOK
  <2>2. /\ UNCHANGED <<next, rows, durable, cleared, refused>>
        /\ ignored' = {}
        /\ \E put \in Puts(evq, Overflow(ignored), OverflowSize) :
             /\ evq' = put[1]
             /\ lost' = IF put[2] = 0 THEN lost ELSE lost \cup ignored
    BY <1>8 DEF NoteIgnored
  <2> QED
    BY <2>1, <2>2, QueueStep DEF Contract!CNext
<1>9. CASE Insert
  BY <1>9, InsertMoves DEF Contract!CNext
<1>10. CASE Delete
  BY <1>10, DeleteMoves DEF Contract!CNext
<1>11. CASE Crash
  BY <1>11, CrashMoves DEF Contract!CNext
<1> QED
  BY <1>1, <1>2, <1>3, <1>4, <1>5, <1>6, <1>7, <1>8, <1>9, <1>10, <1>11
  DEF Next, CacheNext, WriterNext, MidNext

\* At the start every event is new, in order and in no entry.
LEMMA StoreInit == Init => OrderInv /\ Kinds /\ Contract!CInit
<1> SUFFICES ASSUME Init
             PROVE  OrderInv /\ Kinds /\ Contract!CInit
  OBVIOUS
<1>1. OrderInv
  BY DEF Init, Empty, OrderInv, Before
<1>2. Kinds
  BY DEF Init, Empty, Kinds
<1>3. \A e \in Event : e >= next
  BY SizeAssumption DEF Init, Event
<1>4. \A e \in Event : ~ (e < next)
  BY SizeAssumption DEF Init, Event
<1>5. Contract!CInit
  <2>1. Fate = [e \in Event |-> "new"]
    <3>1. /\ ignored = {} /\ rows = {} /\ durable = {} /\ cleared = {}
          /\ lost = {} /\ refused = {} /\ Range(evq.items) = {}
      BY DEF Init, Empty, Range
    <3>2. \A e \in Event : Fate[e] = "new"
      BY <1>3, <3>1 DEF Fate
    <3>3. [e \in Event |-> Fate[e]] = [e \in Event |-> "new"]
      BY <3>2
    <3> QED
      BY <3>3, FateFunction
  <2> QED
    BY <2>1 DEF Contract!CInit, Contract!Event, Event
<1> QED
  BY <1>1, <1>2, <1>5

\* The ingest path implements the contract: events reach the disk in the order
\* they came, none leaves it before its upload, and none given up comes back,
\* whatever fails and whenever the process dies.
THEOREM ImplementsStore == Spec => Stores
<1> DEFINE I == TypeInv /\ TxnInv /\ PlaceInv /\ OrderInv /\ Kinds
<1>1. Init => OrderInv /\ Kinds /\ Contract!CInit
  BY StoreInit
<1>2. TypeInv /\ TxnInv /\ PlaceInv /\ OrderInv /\ Kinds /\ [Next]_vars => OrderInv' /\ Kinds'
  BY OrderStep, KindsStep DEF PlaceInv
<1>3. TypeInv /\ PlaceInv /\ Kinds => AllFates
  BY FateCases
<1>4. TypeInv /\ TxnInv /\ PlaceInv /\ OrderInv /\ Kinds /\ AllFates /\ AllFates' /\ [Next]_vars
        => [Contract!CNext]_Fate
  BY StoreStep
<1> QED
  BY <1>1, <1>2, <1>3, <1>4, PlaceInit, PlaceStep, TypeInvariant, TxnCorrect, PTL
  DEF Spec, Stores, Contract!CSpec

-----------------------------------------------------------------------------
(* What follows from the contract alone *)

\* An event is new until all before it have come, and on the disk only when
\* none before it is still under way there.
NothingOvertaken ==
  /\ \A d, e \in Event : d < e /\ Fate[d] = "new" => Fate[e] = "new"
  /\ \A d, e \in Event : d < e /\ Fate[e] = "stored" => Fate[d] \notin {"new", "pending"}

\* Each step of the contract keeps the order of what is on the disk.
LEMMA OvertakenStep == NothingOvertaken /\ [Contract!CNext]_Fate => NothingOvertaken'
<1> SUFFICES ASSUME NothingOvertaken, [Contract!CNext]_Fate
             PROVE  NothingOvertaken'
  OBVIOUS
<1> USE DEF NothingOvertaken, Contract!Event, Event, Contract!With, Contract!Become
<1>1. CASE UNCHANGED Fate
  BY <1>1
<1>2. CASE Contract!Enter
  BY <1>2, SizeAssumption DEF Contract!Enter
<1>3. CASE Contract!Ignore
  BY <1>3 DEF Contract!Ignore
<1>4. CASE Contract!Drop
  BY <1>4 DEF Contract!Drop
<1>5. CASE Contract!Commit
  <2>1. PICK S \in SUBSET Contract!With("pending"), C \in SUBSET Contract!With("stored") :
          /\ \A e \in S : \A d \in Contract!With("pending") : d < e => d \in S
          /\ Fate' = [e \in Event |-> CASE e \in S -> "stored"
                                         [] e \in C -> "cleared"
                                         [] OTHER   -> Fate[e]]
    BY <1>5 DEF Contract!Commit
  <2>2. S \cap C = {} /\ \A e \in S : Fate[e] = "pending"
    BY <2>1
  <2>3. /\ \A e \in S : Fate'[e] = "stored"
        /\ \A e \in C : Fate'[e] = "cleared"
        /\ \A e \in Event \ (S \cup C) : Fate'[e] = Fate[e]
    BY <2>1, <2>2
  <2>4. ASSUME NEW d \in Event, NEW e \in Event, d < e, Fate'[d] = "new"
        PROVE  Fate'[e] = "new"
    BY <2>1, <2>2, <2>3, <2>4
  <2>5. ASSUME NEW d \in Event, NEW e \in Event, d < e, Fate'[e] = "stored"
        PROVE  Fate'[d] \notin {"new", "pending"}
    BY <2>1, <2>2, <2>3, <2>5
  <2> QED
    BY <2>4, <2>5
<1>6. CASE Contract!Clear
  BY <1>6 DEF Contract!Clear
<1> QED
  BY <1>1, <1>2, <1>3, <1>4, <1>5, <1>6 DEF Contract!CNext

\* No event on the disk has overtaken one that may still get there, through
\* rollbacks, failing insertions and crashes.
THEOREM DiskInOrder == Spec => []NothingOvertaken
<1>1. Contract!CInit => NothingOvertaken
  BY DEF Contract!CInit, NothingOvertaken, Contract!Event, Event
<1> QED
  BY <1>1, OvertakenStep, ImplementsStore, PTL DEF Stores, Contract!CSpec

\* What has become of an event that was given up, or uploaded and deleted, is
\* final: it never comes back to a queue or to the disk, not after a crash either.
THEOREM GoneForGood ==
  Spec => [][\A e \in Event : Fate[e] \in {"dropped", "cleared"} => Fate'[e] = Fate[e]]_Fate
<1>1. [Contract!CNext]_Fate
        => [\A e \in Event : Fate[e] \in {"dropped", "cleared"} => Fate'[e] = Fate[e]]_Fate
  BY DEF Contract!CNext, Contract!Enter, Contract!Ignore, Contract!Drop, Contract!Commit,
         Contract!Clear, Contract!With, Contract!Become, Contract!Event, Event
<1> QED
  BY <1>1, ImplementsStore, PTL DEF Stores, Contract!CSpec

-----------------------------------------------------------------------------
(* The bytes of the queue *)

\* What the queue and the handler hold at once is in memory, and a word addresses
\* all of it.
Addressable ==
  \A P : Sums(P, evq) => /\ P[Len(evq.items)] < Word
                         /\ hand # 0 => P[Len(evq.items)] + Size[hand] < Word

\* An entry is put into the queue: its size grows by the bytes of the entry, or Put
\* failed.
LEMMA CountPut ==
  ASSUME TypeInv, Addressable', Counts(evq),
         NEW x \in Item, NEW put \in Puts(evq, x, ItemSize(x)), evq' = put[1]
  PROVE  /\ Counts(evq')
         /\ evq'.size <= evq.size + ItemSize(x)
         /\ evq.size \in Nat
<1>1. evq \in Queue(Item) /\ Addresses(evq')
  BY DEF TypeInv, TypeOK, Addressable, Addresses
<1>2. evq.size \in Nat /\ ItemSize(x) \in Nat
  BY <1>1, BytesType, LimitAssumption DEF Queue
<1>3. evq' = Added(evq, x, ItemSize(x)) \/ evq' = evq
  BY DEF Puts
<1> QED
  BY <1>1, <1>2, <1>3, CountAdded

\* No step miscounts the bytes of the queue.
LEMMA CountStep ==
  ASSUME TypeInv, Addressable', Counts(evq), [Next]_vars
  PROVE  Counts(evq')
<1> USE DEF source, cache, intake, writing, disk, deleting, history
<1>1. CASE \/ UNCHANGED vars \/ Send \/ Shutdown \/ SpuriousWake \/ Loop \/ Take \/ Park
           \/ Measure \/ Refuse \/ Ignore
  BY <1>1
  DEF vars, Send, Shutdown, SpuriousWake, Loop, Take, Park, Measure, Refuse, Ignore, Done
<1>2. CASE \/ LookAtQueue \/ BeginInserts \/ NothingToInsert \/ SetSize \/ ReviseSize
           \/ RestoreThreshold \/ EndInserts \/ BeginDelete \/ Delete \/ EndDelete
  BY <1>2
  DEF LookAtQueue, BeginInserts, Begin, NothingToInsert, SetSize, ReviseSize,
      RestoreThreshold, EndInserts, BeginDelete, Delete, EndDelete
<1>3. CASE HandleNonIgniteEvent \/ Admit
  <2>1. hand \in Event
    BY <1>3 DEF HandleNonIgniteEvent, Admit, TypeInv
  <2>2. Record(hand) \in Item /\ ItemSize(Record(hand)) = Size[hand]
    BY <2>1, Records DEF ItemSize, Record, Event
  <2>3. \E put \in Puts(evq, Record(hand), Size[hand]) : evq' = put[1]
    BY <1>3 DEF HandleNonIgniteEvent, Admit
  <2> QED
    BY <2>1, <2>2, <2>3, CountPut
<1>4. CASE NoteIgnored
  <2>1. Overflow(ignored) \in Item /\ ItemSize(Overflow(ignored)) = OverflowSize
    BY Records DEF ItemSize, Overflow, TypeInv, TypeOK
  <2>2. \E put \in Puts(evq, Overflow(ignored), OverflowSize) : evq' = put[1]
    BY <1>4 DEF NoteIgnored
  <2> QED
    BY <2>1, <2>2, CountPut
<1>5. CASE Insert
  <2>1. evq.items # <<>> /\ evq' = Taken(evq, ItemSize(Head(evq.items)))
    BY <1>5 DEF Insert
  <2> QED
    BY <2>1, CountTaken DEF TypeInv, TypeOK
<1>6. CASE Crash
  <2>1. evq' = Empty
    BY <1>6 DEF Crash
  <2> QED
    BY <2>1, EmptyCounts
<1> QED
  BY <1>1, <1>2, <1>3, <1>4, <1>5, <1>6 DEF Next, CacheNext, WriterNext, MidNext

\* What HandleEvent relies on between its steps, unless the writer interferes:
\* the queue is no larger than measured and the comparison does not wrap around;
\* once it fits, so does the event beside the record of the ignored ones.
AdmitInv ==
  /\ recv = "measured" /\ ~ raced =>
       evq.size <= sizeInQueue /\ sizeInQueue + Size[hand] < Word
  /\ recv = "admit" /\ ~ raced => evq.size + Size[hand] < MaxSize + OverflowSize

\* The comparison of HandleEvent is about the queue as it is.
LEMMA FitsMeans ==
  ASSUME TypeInv, AdmitInv, recv = "measured", ~ raced, Fits
  PROVE  evq.size + Size[hand] < MaxSize /\ evq.size \in Nat /\ Size[hand] \in Nat
<1>1. /\ evq.size \in Nat /\ sizeInQueue \in Nat /\ Size[hand] \in Nat
      /\ threshold \in Int /\ threshold <= MaxSize
  BY SizeAssumption, LimitAssumption DEF TypeInv, TypeOK, Queue, LowThreshold
<1>2. evq.size <= sizeInQueue /\ sizeInQueue + Size[hand] \in 0 .. Word - 1
  BY <1>1, LimitAssumption DEF AdmitInv
<1>3. sizeInQueue + Size[hand] < threshold
  BY <1>2, Remainders DEF Fits
<1> QED
  BY <1>1, <1>2, <1>3, LimitAssumption

\* The record of the ignored events and the event that made room for itself.
LEMMA NoteStep ==
  ASSUME TypeInv, Addressable', Counts(evq), AdmitInv, NoteIgnored, ~ raced
  PROVE  /\ evq'.size + Size[hand] < MaxSize + OverflowSize
         /\ evq'.size \in Nat /\ Size[hand] \in Nat
<1>1. recv = "measured" /\ Fits
  BY DEF NoteIgnored
<1>2. evq.size + Size[hand] < MaxSize /\ evq.size \in Nat /\ Size[hand] \in Nat
  BY <1>1, FitsMeans
<1>3. Overflow(ignored) \in Item /\ ItemSize(Overflow(ignored)) = OverflowSize
  BY Records DEF ItemSize, Overflow, TypeInv, TypeOK
<1>4. PICK put \in Puts(evq, Overflow(ignored), OverflowSize) : evq' = put[1]
  BY DEF NoteIgnored
<1>5. evq'.size <= evq.size + OverflowSize
  BY <1>3, <1>4, CountPut
<1>6. evq'.size \in Nat
  <2>1. put[1] \in Queue(Item)
    BY <1>3, <1>4, PutsType, SizesInWord DEF TypeInv, TypeOK
  <2> QED
    BY <1>4, <2>1, LimitAssumption DEF Queue
<1> QED
  BY <1>2, <1>5, <1>6, SizeAssumption, LimitAssumption

\* Every step keeps it: the writer's steps shrink the queue, or are noticed.
LEMMA AdmitStep ==
  ASSUME TypeInv, Addressable, Addressable', Counts(evq), AdmitInv, [Next]_vars
  PROVE  AdmitInv'
<1> USE DEF source, cache, intake, writing, disk, deleting, history
<1>1. CASE \/ Send \/ Shutdown \/ SpuriousWake \/ Loop \/ Take \/ Park \/ Refuse
           \/ HandleNonIgniteEvent \/ Admit \/ Ignore \/ Crash
  <2>1. CASE \/ recv' \notin {"measured", "admit"}
    BY <2>1 DEF AdmitInv
  <2>2. CASE \/ recv' = recv /\ UNCHANGED <<evq, hand, sizeInQueue, raced>>
    BY <2>2 DEF AdmitInv
  <2> QED
    BY <1>1, <2>1, <2>2
    DEF Send, Enqueue, Shutdown, SpuriousWake, Loop, Take, Park, Refuse,
        HandleNonIgniteEvent, Admit, Ignore, Done, Crash
<1>2. CASE \/ UNCHANGED vars \/ LookAtQueue \/ BeginInserts \/ NothingToInsert
           \/ RestoreThreshold \/ EndInserts \/ BeginDelete \/ Delete \/ EndDelete
  <2>1. UNCHANGED <<recv, evq, hand, sizeInQueue, raced>>
    BY <1>2
    DEF vars, LookAtQueue, BeginInserts, NothingToInsert, RestoreThreshold, EndInserts,
        BeginDelete, Delete, EndDelete
  <2> QED
    BY <2>1 DEF AdmitInv
<1>3. CASE SetSize \/ ReviseSize
  <2>1. /\ UNCHANGED <<recv, evq, hand>>
        /\ recv = "measured" => raced'
        /\ ~ raced' => ~ raced
    BY <1>3 DEF SetSize, ReviseSize, TypeInv, TypeOK
  <2> QED
    BY <2>1 DEF AdmitInv
<1>4. CASE Measure
  <2>1. /\ recv' = "measured" /\ evq' = evq /\ hand' = hand /\ sizeInQueue' = evq.size
        /\ hand # 0 /\ hand \in Event
    BY <1>4 DEF Measure, TypeInv, Event
  <2>2. evq.size + Size[hand] < Word /\ evq.size \in Nat
    <3>1. evq.size \in Nat
      BY LimitAssumption DEF TypeInv, TypeOK, Queue
    <3>2. \E P : Sums(P, evq) /\ P[Len(evq.items)] = evq.size
      BY DEF Counts
    <3> QED
      BY <2>1, <3>1, <3>2 DEF Addressable
  <2> QED
    BY <2>1, <2>2 DEF AdmitInv
<1>5. CASE NoteIgnored
  <2>1. recv' = "admit" /\ hand' = hand /\ raced' = raced
    BY <1>5 DEF NoteIgnored
  <2> QED
    BY <1>5, <2>1, NoteStep DEF AdmitInv
<1>6. CASE Insert
  <2>1. /\ evq.items # <<>> /\ evq' = Taken(evq, ItemSize(Head(evq.items)))
        /\ UNCHANGED <<recv, hand, sizeInQueue, raced>>
    BY <1>6 DEF Insert
  <2>2. evq'.size <= evq.size
    BY <2>1, CountTaken DEF TypeInv, TypeOK
  <2>3. evq.size \in Nat /\ evq'.size \in Nat /\ sizeInQueue \in Nat
    <3>1. Head(evq.items) \in Item
      BY <2>1 DEF TypeInv, TypeOK, Queue
    <3>2. evq' \in Queue(Item)
      BY <2>1, <3>1, TakenType, ItemsInWord DEF TypeInv, TypeOK
    <3> QED
      BY <3>2, LimitAssumption DEF TypeInv, TypeOK, Queue
  <2>4. recv \in {"measured", "admit"} => Size[hand] \in Nat
    BY SizeAssumption DEF TypeInv
  <2> QED
    BY <2>1, <2>2, <2>3, <2>4, SizeAssumption, LimitAssumption DEF AdmitInv
<1> QED
  BY <1>1, <1>2, <1>3, <1>4, <1>5, <1>6 DEF Next, CacheNext, WriterNext, MidNext

\* What a step that puts something into the queue leaves there.
LEMMA WithinLimit ==
  ASSUME TypeInv, Addressable', Counts(evq), AdmitInv, [Next]_vars,
         recv \in {"measured", "admit"}, ~ raced, Len(evq'.items) > Len(evq.items)
  PROVE  evq'.size < MaxSize + OverflowSize
<1> USE DEF source, cache, intake, writing, disk, deleting, history
<1>0. evq.items \in Seq(Item)
  BY OrderTypes DEF TypeInv
<1>1. CASE NoteIgnored
  BY <1>1, NoteStep, SizeAssumption, LimitAssumption
<1>2. CASE Admit
  <2>1. hand \in Event /\ evq.size + Size[hand] < MaxSize + OverflowSize
    <3>1. CASE recv = "admit"
      BY <3>1 DEF AdmitInv, TypeInv, Event
    <3>2. CASE recv = "measured"
      BY <1>2, <3>2, FitsMeans, SizeAssumption, LimitAssumption DEF Admit, TypeInv, Event
    <3> QED
      BY <3>1, <3>2
  <2>2. Record(hand) \in Item /\ ItemSize(Record(hand)) = Size[hand]
    BY <2>1, Records DEF ItemSize, Record, Event
  <2>3. PICK put \in Puts(evq, Record(hand), Size[hand]) : evq' = put[1]
    BY <1>2 DEF Admit
  <2>4. evq'.size <= evq.size + Size[hand] /\ evq.size \in Nat
    BY <2>1, <2>2, <2>3, CountPut
  <2>5. put[1] \in Queue(Item)
    BY <2>1, <2>2, <2>3, PutsType, SizesInWord DEF TypeInv, TypeOK
  <2>6. evq'.size \in Nat /\ Size[hand] \in Nat
    BY <2>1, <2>3, <2>5, SizeAssumption, LimitAssumption DEF Queue
  <2> QED
    BY <2>1, <2>4, <2>6, SizeAssumption, LimitAssumption
<1>3. CASE HandleNonIgniteEvent
  BY <1>3 DEF HandleNonIgniteEvent
<1>4. CASE Insert \/ Crash
  <2>1. Len(evq'.items) <= Len(evq.items)
    BY <1>0, <1>4 DEF Insert, Taken, Crash, Empty
  <2> QED
    BY <1>0, <1>4, <2>1 DEF Insert, Taken, Crash, Empty
<1>5. CASE evq' = evq
  BY <1>0, <1>5
<1>6. CASE \/ UNCHANGED vars \/ Send \/ Shutdown \/ SpuriousWake \/ Loop \/ Take \/ Park
           \/ Measure \/ Refuse \/ Ignore
  BY <1>5, <1>6
  DEF vars, Send, Shutdown, SpuriousWake, Loop, Take, Park, Measure, Refuse, Ignore, Done
<1>7. CASE \/ LookAtQueue \/ BeginInserts \/ NothingToInsert \/ SetSize \/ ReviseSize
           \/ RestoreThreshold \/ EndInserts \/ BeginDelete \/ Delete \/ EndDelete
  BY <1>5, <1>7
  DEF LookAtQueue, BeginInserts, Begin, NothingToInsert, SetSize, ReviseSize,
      RestoreThreshold, EndInserts, BeginDelete, Delete, EndDelete
<1> QED
  BY <1>1, <1>2, <1>3, <1>4, <1>6, <1>7 DEF Next, CacheNext, WriterNext, MidNext

\* At the start the queue is empty and nothing is measured.
LEMMA AdmitInit == Init => Counts(evq) /\ AdmitInv
  BY EmptyCounts DEF Init, Empty, AdmitInv

\* The size that CDBTransport::Run looks at tells whether there is anything to
\* insert, however many entries were put in, taken out or refused: the counter
\* is the sum of the bytes as long as these are in memory.
THEOREM NoEntryOverlooked == Spec /\ []Addressable => []SizeTellsEmpty
<1>1. TypeInv /\ Counts(evq) => SizeTellsEmpty
  <2> SUFFICES ASSUME TypeInv, Counts(evq)
               PROVE  SizeTellsEmpty
    OBVIOUS
  <2>1. PICK P : Sums(P, evq) /\ P[Len(evq.items)] = evq.size
    BY DEF Counts
  <2> DEFINE n == Len(evq.items)
  <2>2. /\ evq.items \in Seq(Item) /\ n \in Nat /\ (n = 0 <=> evq.items = <<>>)
        /\ \A k \in 1 .. n : evq.items[k] \in Item
    BY OrderTypes DEF TypeInv
  <2>3. /\ P \in [0 .. n -> Nat] /\ P[0] = 0 /\ P[n] = evq.size
        /\ \A k \in 1 .. n : P[k] = P[k - 1] + ItemSize(evq.items[k])
        /\ \A j, k \in 0 .. n : j <= k => P[j] <= P[k]
    BY <2>1 DEF Sums
  <2> HIDE DEF n
  <2>4. n # 0 => evq.size # 0
    <3> SUFFICES ASSUME n # 0
                 PROVE  evq.size # 0
      OBVIOUS
    <3>1. 1 \in 1 .. n /\ 1 \in 0 .. n /\ n \in 0 .. n /\ 1 <= n /\ 1 - 1 = 0
      BY <2>2
    <3>2. P[1] = ItemSize(evq.items[1]) /\ ItemSize(evq.items[1]) \in Nat \ {0}
      BY <2>2, <2>3, <3>1, BytesType
    <3> QED
      BY <2>3, <3>1, <3>2
  <2> QED
    BY <2>2, <2>3, <2>4 DEF SizeTellsEmpty
<1>2. TypeInv /\ Addressable' /\ Counts(evq) /\ [Next]_vars => Counts(evq)'
  BY CountStep
<1> QED
  BY <1>1, <1>2, AdmitInit, TypeInvariant, PTL DEF Spec

\* HandleEvent never lets the queue grow past its limit by more than the record
\* of the ignored events, unless CDBTransport::Run wrote the size it goes by
\* between the measuring and the comparison.
THEOREM LimitKept == Spec /\ []Addressable => AdmitsWithinLimit
<1>1. TypeInv /\ Addressable /\ Addressable' /\ Counts(evq) /\ AdmitInv /\ [Next]_vars
        => Counts(evq)' /\ AdmitInv'
  BY CountStep, AdmitStep
<1>2. TypeInv /\ Addressable' /\ Counts(evq) /\ AdmitInv /\ [Next]_vars
        => [(recv \in {"measured", "admit"} /\ ~raced /\ Len(evq'.items) > Len(evq.items))
              => evq'.size < MaxSize + OverflowSize]_vars
  BY WithinLimit
<1> QED
  BY <1>1, <1>2, AdmitInit, TypeInvariant, PTL
  DEF Spec, AdmitsWithinLimit

-----------------------------------------------------------------------------
(* Where the path rests *)

\* What Send took has come before the next event, and the first event starts
\* the thread.
StartInv == /\ \A e \in told : e < next
            /\ recv = "none" => inq.items = <<>>

\* Every step keeps it.
LEMMA StartStep == TypeOK /\ StartInv /\ [Next]_vars => StartInv'
<1> SUFFICES ASSUME TypeOK, StartInv, [Next]_vars
             PROVE  StartInv'
  OBVIOUS
<1>0. next \in Int /\ \A e \in told : e \in Int
  BY DEF TypeOK, Event
<1> USE DEF StartInv, source, cache, intake, writing, disk, deleting, history
<1>1. CASE Send
  <2>1. next' = next + 1 /\ (told' = told \/ told' = told \cup {next})
    BY <1>1 DEF Send, Enqueue
  <2>2. recv' = "none" => recv = "none" /\ inq' = inq
    BY <1>1 DEF Send, Enqueue
  <2> QED
    BY <1>0, <2>1, <2>2
<1>2. CASE UNCHANGED vars \/ Shutdown \/ SpuriousWake
  BY <1>2 DEF vars, Shutdown, SpuriousWake
<1>3. CASE CacheNext
  BY <1>3 DEF CacheNext, Loop, Take, Park, Refuse, HandleNonIgniteEvent, Measure,
              NoteIgnored, Admit, Ignore, Done
<1>4. CASE WriterNext
  BY <1>4 DEF WriterNext, LookAtQueue, BeginInserts, Insert, NothingToInsert, SetSize,
              ReviseSize, RestoreThreshold, EndInserts
<1>5. CASE MidNext \/ BeginDelete
  BY <1>5 DEF MidNext, Delete, EndDelete, BeginDelete
<1>6. CASE Crash
  BY <1>6 DEF Crash, Empty
<1> QED
  BY <1>1, <1>2, <1>3, <1>4, <1>5, <1>6 DEF Next

\* None of the three threads has anything to do: the receiver waits or was not
\* started, the writer finds the size zero, no row is being deleted.
Idle == /\ recv \in {"none", "wait"} /\ mid = "idle"
        /\ writer = "look" /\ evq.size = 0

\* When all threads are idle every event that Send took is at rest, unless a
\* wake-up was lost, a failed END keeps the rows from the disk or the client
\* shuts down: the safety half of Settles (Send, Run, ProcessQueueData).
THEOREM SilenceIsRest ==
  Spec /\ []Addressable =>
    [](Idle => \/ \A e \in told : AtRest(e)
               \/ stage > 0
               \/ recv = "wait" /\ inq.items # <<>>
               \/ open /\ owner = "none")
<1>1. Init => StartInv
  BY DEF Init, StartInv, Empty
<1>2. TypeInv /\ TxnInv /\ PlaceInv /\ StartInv /\ SizeTellsEmpty =>
        (Idle => \/ \A e \in told : AtRest(e)
                 \/ stage > 0
                 \/ recv = "wait" /\ inq.items # <<>>
                 \/ open /\ owner = "none")
  <2> SUFFICES ASSUME TypeInv, TxnInv, PlaceInv, StartInv, SizeTellsEmpty, Idle,
                      ~ (recv = "wait" /\ inq.items # <<>>),
                      ~ (open /\ owner = "none"),
                      NEW e \in told
               PROVE  AtRest(e)
    OBVIOUS
  <2>1. e \in Event /\ e # 0 /\ e < next
    BY SizeAssumption DEF TypeInv, TypeOK, Event, StartInv
  <2>2. inq.items = <<>> /\ evq.items = <<>> /\ hand = 0
    BY DEF Idle, StartInv, SizeTellsEmpty, PlaceInv, Carrying
  <2>3. rows = durable
    BY DEF Idle, TxnInv, Inserting, TypeInv, TypeOK
  <2>4. ~ Waiting(e) /\ ~ Queued(e)
    BY <2>2 DEF Waiting, Queued
  <2>5. \/ e \in ignored \cup refused \cup lost
        \/ In(e, rows) \/ In(e, cleared)
    BY <2>1, <2>2, <2>4 DEF PlaceInv, Placed, InOnePlace, ExactlyOne
  <2>6. In(e, durable \cup cleared) => e \in EventsOf(durable \cup cleared)
    BY DEF In, Ev, EventsOf
  <2> QED
    BY <2>3, <2>5, <2>6 DEF AtRest, In
<1>3. TypeInv => TypeOK
  BY DEF TypeInv
<1> QED
  BY <1>1, <1>2, <1>3, StartStep, PlaceInit, PlaceStep, NoEntryOverlooked,
     TypeInvariant, TxnCorrect, PTL DEF Spec
=============================================================================
