-------------------------- MODULE EventStore_proofs --------------------------
(***************************************************************************)
(* Theorems about EventStore, for any number and sizes of events, any      *)
(* limits and any interleaving of the three threads.                       *)
(***************************************************************************)
EXTENDS EventStore, FiniteSetTheorems, TLAPS

\* An unsigned value stays within its word.
LEMMA WordType == \A x \in Int : x % Word \in 0 .. Word - 1
  BY LimitAssumption

\* The limits are values of the threshold's type.
LEMMA SizesInWord == /\ \A e \in Event : Size[e] \in 0 .. Word - 1 /\ Size[e] \in Int
                     /\ OverflowSize \in 0 .. Word - 1
  BY SizeAssumption, LimitAssumption

\* The bytes of an entry of the data base queue fit a word.
LEMMA ItemsInWord == \A i \in Item : ItemSize(i) \in 0 .. Word - 1
  BY SizesInWord DEF Item, ItemSize, Event

\* What HandleEvent puts into the data base queue is an entry.
LEMMA Records == /\ \A e \in Event : Record(e) \in Item
                 /\ \A S \in SUBSET Event : Overflow(S) \in Item
                 /\ NoItem \in Item
  BY SizeAssumption DEF Record, Overflow, NoItem, Item, Event

\* A queue stays one, whatever is put into it or taken from it.
LEMMA AddedType ==
  ASSUME NEW S, NEW q \in Queue(S), NEW x \in S, NEW n \in 0 .. Word - 1
  PROVE  Added(q, x, n) \in Queue(S)
<1>1. (q.size + n) % Word \in 0 .. Word - 1
  <2>1. q.size \in 0 .. Word - 1
    BY DEF Queue
  <2>2. q.size + n \in Int
    BY <2>1, LimitAssumption
  <2> QED
    BY <2>2, WordType
<1>2. Append(q.items, x) \in Seq(S)
  BY DEF Queue
<1> QED
  BY <1>1, <1>2 DEF Added, Queue

\* The elements of a sequence over S are in S.
LEMMA RangeType == \A S : \A q \in Seq(S) : Range(q) \subseteq S
BY DEF Range

\* Take leaves a queue, and hands out one of its elements.
LEMMA TakenType ==
  ASSUME NEW S, NEW q \in Queue(S), NEW n \in 0 .. Word - 1, q.items # <<>>
  PROVE  Taken(q, n) \in Queue(S) /\ Head(q.items) \in S
<1>1. (q.size - n) % Word \in 0 .. Word - 1
  <2>1. q.size \in 0 .. Word - 1
    BY DEF Queue
  <2>2. q.size - n \in Int
    BY <2>1, LimitAssumption
  <2> QED
    BY <2>2, WordType
<1>2. q.items \in Seq(S)
  BY DEF Queue
<1>3. Tail(q.items) \in Seq(S) /\ Head(q.items) \in S
  BY <1>2
<1> QED
  BY <1>1, <1>3 DEF Taken, Queue

\* Put leaves a queue and fails only while the bound on failures allows it.
LEMMA PutsType ==
  ASSUME NEW S, NEW q \in Queue(S), NEW x \in S, NEW n \in 0 .. Word - 1,
         NEW put \in Puts(q, x, n)
  PROVE  put[1] \in Queue(S) /\ (put[2] = 0 \/ (put[2] = 1 /\ faults < MaxFaults))
<1>1. CASE put = <<Added(q, x, n), 0>>
  <2>1. put[1] = Added(q, x, n) /\ put[2] = 0
    BY <1>1
  <2>2. Added(q, x, n) \in Queue(S)
    BY AddedType
  <2> QED
    BY <2>1, <2>2
<1>2. CASE put = <<q, 1>> /\ faults < MaxFaults
  BY <1>2
<1> QED
  BY <1>1, <1>2 DEF Puts

\* A new queue (CConcurrentQueue's constructor) is a queue of anything.
LEMMA EmptyType == \A S : Empty \in Queue(S)
  BY LimitAssumption DEF Empty, Queue

\* The events of a set of entries are events.
LEMMA EventsType ==
  ASSUME NEW S \in SUBSET Item
  PROVE  EventsOf(S) \subseteq Event
  BY SizeAssumption DEF EventsOf, Item, Event

\* GetMaxEventToInsertInOneTxn: at least one insertion, at most the maximum.
LEMMA InsertsType == \A b \in 0 .. Word - 1 : MaxToInsert(b) \in 1 .. MaxInTxn
<1> SUFFICES ASSUME NEW b \in 0 .. Word - 1
             PROVE  MaxToInsert(b) \in 1 .. MaxInTxn
  OBVIOUS
<1>1. b \div AvgSize \in Nat
  BY LimitAssumption
<1> QED
  BY <1>1, LimitAssumption DEF MaxToInsert

-----------------------------------------------------------------------------
(* The bytes of a queue *)

\* No entry is without bytes.
LEMMA BytesType == \A i \in Item : ItemSize(i) \in Nat \ {0}
  BY SizeAssumption DEF Item, ItemSize, Event

\* A number of a word is its own remainder, and no remainder is larger.
LEMMA Remainders ==
  /\ \A x \in 0 .. Word - 1 : x % Word = x
  /\ \A x \in Nat : x % Word <= x
<1>1. \A x \in 0 .. Word - 1 : x % Word = x
  BY LimitAssumption
<1>2. ASSUME NEW x \in Nat
      PROVE  x % Word <= x
  <2>1. CASE x < Word
    BY <1>1, <2>1, LimitAssumption
  <2>2. CASE ~ (x < Word)
    BY <2>2, WordType, LimitAssumption
  <2> QED
    BY <2>1, <2>2
<1> QED
  BY <1>1, <1>2

\* P[k] are the bytes of the first k entries of queue q, P[Len(q.items)] those of
\* all of them.
Sums(P, q) ==
  LET n == Len(q.items)
  IN  /\ P \in [0 .. n -> Nat] /\ P[0] = 0
      /\ \A k \in 1 .. n : P[k] = P[k - 1] + ItemSize(q.items[k])
      /\ \A j, k \in 0 .. n : j <= k => P[j] <= P[k]

\* The size that goes with a queue is that number, without a wrap-around.
Counts(q) == \E P : Sums(P, q) /\ P[Len(q.items)] = q.size

\* The bytes of a queue can be told by a word.
Addresses(q) == \A P : Sums(P, q) => P[Len(q.items)] < Word

\* The size of a queue with a further entry.
LEMMA CountAdded ==
  ASSUME NEW q \in Queue(Item), Counts(q), NEW x \in Item,
         Addresses(Added(q, x, ItemSize(x)))
  PROVE  /\ Counts(Added(q, x, ItemSize(x)))
         /\ Added(q, x, ItemSize(x)).size = q.size + ItemSize(x)
<1> DEFINE n == Len(q.items)
           r == Added(q, x, ItemSize(x))
<1>1. PICK P : Sums(P, q) /\ P[n] = q.size
  BY DEF Counts
<1>2. /\ q.items \in Seq(Item) /\ n \in Nat
      /\ r.items = Append(q.items, x) /\ Len(r.items) = n + 1
      /\ r.size = (q.size + ItemSize(x)) % Word
  BY DEF Added, Queue
<1>3. /\ P \in [0 .. n -> Nat] /\ P[0] = 0 /\ P[n] = q.size
      /\ \A k \in 1 .. n : P[k] = P[k - 1] + ItemSize(q.items[k])
      /\ \A j, k \in 0 .. n : j <= k => P[j] <= P[k]
  BY <1>1 DEF Sums
<1>4. ItemSize(x) \in Nat /\ q.size \in Nat
  BY BytesType, LimitAssumption DEF Queue
<1>5. /\ \A k \in 1 .. n : r.items[k] = q.items[k]
      /\ r.items[n + 1] = x
  BY <1>2
<1> HIDE DEF n, r
<1> DEFINE total == q.size + ItemSize(x)
           Q == [k \in 0 .. n + 1 |-> IF k <= n THEN P[k] ELSE total]
<1>6. total \in Nat /\ q.size <= total
  BY <1>4
<1> HIDE DEF total
<1>7. /\ \A k \in 0 .. n : Q[k] = P[k] /\ Q[k] \in Nat
      /\ Q[n + 1] = total
      /\ Q \in [0 .. n + 1 -> Nat]
  <2>1. \A k \in 0 .. n : k \in 0 .. n + 1 /\ k <= n
    BY <1>2
  <2>2. n + 1 \in 0 .. n + 1 /\ ~ (n + 1 <= n)
    BY <1>2
  <2>3. \A k \in 0 .. n : Q[k] = P[k] /\ Q[k] \in Nat
    BY <1>3, <2>1
  <2>4. Q[n + 1] = total
    BY <2>2
  <2>5. \A k \in 0 .. n + 1 : k \in 0 .. n \/ k = n + 1
    BY <1>2
  <2>6. \A k \in 0 .. n + 1 : Q[k] \in Nat
    BY <1>6, <2>3, <2>4, <2>5
  <2>7. Q = [k \in 0 .. n + 1 |-> Q[k]]
    OBVIOUS
  <2> HIDE DEF Q
  <2> QED
    BY <2>3, <2>4, <2>6, <2>7
<1> HIDE DEF Q
<1>8. ASSUME NEW k \in 1 .. n + 1
      PROVE  Q[k] = Q[k - 1] + ItemSize(r.items[k])
  <2>1. CASE k \in 1 .. n
    <3>1. k \in 0 .. n /\ k - 1 \in 0 .. n
      BY <1>2, <2>1
    <3> QED
      BY <1>3, <1>5, <1>7, <2>1, <3>1
  <2>2. CASE k = n + 1
    <3>1. k - 1 = n /\ n \in 0 .. n
      BY <1>2, <2>2
    <3> QED
      BY <1>3, <1>5, <1>7, <2>2, <3>1 DEF total
  <2> QED
    BY <1>2, <2>1, <2>2
<1>9. ASSUME NEW j \in 0 .. n + 1, NEW k \in 0 .. n + 1, j <= k
      PROVE  Q[j] <= Q[k]
  <2>1. CASE k <= n
    <3>1. j \in 0 .. n /\ k \in 0 .. n
      BY <1>2, <1>9, <2>1
    <3> QED
      BY <1>3, <1>7, <1>9, <3>1
  <2>2. CASE j = n + 1
    <3>1. k = j
      BY <1>2, <1>9, <2>2
    <3> QED
      BY <1>6, <1>7, <2>2, <3>1
  <2>3. CASE k = n + 1 /\ j <= n
    <3>1. j \in 0 .. n /\ n \in 0 .. n
      BY <1>2, <2>3
    <3>2. P[j] <= q.size /\ P[j] \in Nat
      BY <1>2, <1>3, <2>3, <3>1
    <3> QED
      BY <1>4, <1>6, <1>7, <2>3, <3>1, <3>2
  <2> QED
    BY <1>2, <1>9, <2>1, <2>2, <2>3
<1>10. Sums(Q, r) /\ Len(r.items) = n + 1
  <2>1. Q[0] = 0
    BY <1>2, <1>3, <1>7
  <2>2. Len(r.items) = n + 1
    BY <1>2
  <2> QED
    BY <1>7, <1>8, <1>9, <2>1, <2>2 DEF Sums
<1>11. r.size = total
  <2>1. total < Word
    BY <1>7, <1>10 DEF Addresses, r
  <2> QED
    BY <1>2, <1>6, <2>1, Remainders, LimitAssumption DEF total
<1> QED
  BY <1>7, <1>10, <1>11 DEF Counts, r, total

\* The size of a queue without its first entry.
LEMMA CountTaken ==
  ASSUME NEW q \in Queue(Item), Counts(q), q.items # <<>>
  PROVE  /\ Counts(Taken(q, ItemSize(Head(q.items))))
         /\ Taken(q, ItemSize(Head(q.items))).size <= q.size
<1> DEFINE n == Len(q.items)
           h == ItemSize(Head(q.items))
           r == Taken(q, h)
<1>1. PICK P : Sums(P, q) /\ P[n] = q.size
  BY DEF Counts
<1>2. /\ q.items \in Seq(Item) /\ n \in Nat \ {0} /\ Head(q.items) = q.items[1]
      /\ r.items = Tail(q.items) /\ Len(r.items) = n - 1
      /\ r.size = (q.size - h) % Word
      /\ \A k \in 1 .. n : q.items[k] \in Item
      /\ \A k \in 1 .. n - 1 : r.items[k] = q.items[k + 1]
      /\ q.size \in 0 .. Word - 1
  BY DEF Queue, Taken
<1>3. /\ P \in [0 .. n -> Nat] /\ P[0] = 0 /\ P[n] = q.size
      /\ \A k \in 1 .. n : P[k] = P[k - 1] + ItemSize(q.items[k])
      /\ \A j, k \in 0 .. n : j <= k => P[j] <= P[k]
  BY <1>1 DEF Sums
<1> HIDE DEF n, r
<1>4. P[1] = h /\ h \in Nat /\ h <= q.size
  <2>1. 1 \in 1 .. n /\ 1 \in 0 .. n /\ n \in 0 .. n
    BY <1>2
  <2>2. h \in Nat
    BY <1>2, <2>1, BytesType
  <2>3. P[1] = P[0] + h
    <3>1. P[1] = P[1 - 1] + ItemSize(q.items[1])
      BY <1>3, <2>1
    <3> QED
      BY <1>2, <3>1 DEF h
  <2>4. P[1] <= P[n]
    BY <1>2, <1>3, <2>1
  <2> QED
    BY <1>3, <2>2, <2>3, <2>4
<1>5. r.size = q.size - h
  <2>1. q.size - h \in 0 .. Word - 1
    BY <1>2, <1>4, LimitAssumption
  <2> QED
    BY <1>2, <2>1, Remainders
<1> HIDE DEF h
<1> DEFINE Q == [k \in 0 .. n - 1 |-> P[k + 1] - P[1]]
<1>6. \A k \in 0 .. n - 1 :
        /\ k + 1 \in 0 .. n /\ Q[k] = P[k + 1] - P[1] /\ P[k + 1] \in Nat
        /\ P[1] <= P[k + 1] /\ Q[k] \in Nat
  <2>1. ASSUME NEW k \in 0 .. n - 1
        PROVE  k + 1 \in 0 .. n /\ 1 \in 0 .. n /\ 1 <= k + 1
    BY <1>2
  <2>2. ASSUME NEW k \in 0 .. n - 1
        PROVE  P[1] <= P[k + 1] /\ P[k + 1] \in Nat /\ P[1] \in Nat
    BY <1>3, <2>1
  <2> QED
    BY <2>1, <2>2
<1>7. Q \in [0 .. n - 1 -> Nat] /\ Q[0] = 0 /\ Q[n - 1] = r.size
  <2>1. 0 \in 0 .. n - 1 /\ n - 1 \in 0 .. n - 1 /\ 0 + 1 = 1 /\ n - 1 + 1 = n
    BY <1>2
  <2>2. Q = [k \in 0 .. n - 1 |-> Q[k]]
    OBVIOUS
  <2>3. Q[0] = P[0 + 1] - P[1] /\ Q[n - 1] = P[n - 1 + 1] - P[1]
    BY <1>6, <2>1
  <2> HIDE DEF Q
  <2>4. Q[0] = 0
    BY <1>4, <2>1, <2>3
  <2>5. Q[n - 1] = r.size
    BY <1>3, <1>4, <1>5, <2>1, <2>3
  <2>6. Q \in [0 .. n - 1 -> Nat]
    BY <1>6, <2>2
  <2> QED
    BY <2>4, <2>5, <2>6
<1> HIDE DEF Q
<1>8. ASSUME NEW k \in 1 .. n - 1
      PROVE  Q[k] = Q[k - 1] + ItemSize(r.items[k])
  <2>1. /\ k \in 0 .. n - 1 /\ k - 1 \in 0 .. n - 1 /\ k - 1 + 1 = k /\ k + 1 - 1 = k
        /\ k + 1 \in 1 .. n
    BY <1>2
  <2>2. P[k + 1] = P[k] + ItemSize(r.items[k]) /\ ItemSize(r.items[k]) \in Nat
    <3>1. P[k + 1] = P[k + 1 - 1] + ItemSize(q.items[k + 1])
      BY <1>3, <2>1
    <3>2. r.items[k] = q.items[k + 1] /\ q.items[k + 1] \in Item
      BY <1>2, <2>1
    <3>3. ItemSize(q.items[k + 1]) \in Nat
      BY <3>2, BytesType
    <3> QED
      BY <2>1, <3>1, <3>2, <3>3
  <2>3. Q[k] = P[k + 1] - P[1] /\ Q[k - 1] = P[k] - P[1] /\ P[k] \in Nat /\ P[1] \in Nat
    BY <1>4, <1>6, <2>1
  <2> QED
    BY <2>2, <2>3
<1>9. ASSUME NEW j \in 0 .. n - 1, NEW k \in 0 .. n - 1, j <= k
      PROVE  Q[j] <= Q[k]
  <2>1. j + 1 \in 0 .. n /\ k + 1 \in 0 .. n /\ j + 1 <= k + 1
    BY <1>6, <1>9
  <2>2. P[j + 1] <= P[k + 1]
    BY <1>3, <2>1
  <2>3. /\ Q[j] = P[j + 1] - P[1] /\ Q[k] = P[k + 1] - P[1]
        /\ P[j + 1] \in Nat /\ P[k + 1] \in Nat /\ P[1] \in Nat
    BY <1>4, <1>6
  <2> QED
    BY <2>2, <2>3
<1>10. Sums(Q, r) /\ Len(r.items) = n - 1
  BY <1>2, <1>7, <1>8, <1>9 DEF Sums
<1> QED
  BY <1>2, <1>4, <1>5, <1>7, <1>10 DEF Counts, r, h

\* An empty queue has no bytes.
LEMMA EmptyCounts == Counts(Empty)
<1> DEFINE P == [k \in 0 .. 0 |-> 0]
<1>1. Len(Empty.items) = 0 /\ Empty.size = 0
  BY DEF Empty
<1>2. Sums(P, Empty)
  BY <1>1 DEF Sums
<1> QED
  BY <1>1, <1>2 DEF Counts

-----------------------------------------------------------------------------
(* The types *)

\* What the types rest on: an event is in hand while it is handled, and an
\* insertion is left while one is under way.
TypeInv == /\ TypeOK
           /\ recv \in {"handle", "measured", "admit"} => hand \in Event
           /\ writer \in {"insert", "set", "revise", "restore"} => todo # 0

\* Every variable keeps its type, and the threads hold what their code assumes.
THEOREM TypeInvariant == Spec => []TypeInv
<1> USE SizeAssumption, LimitAssumption
<1>1. Init => TypeInv
  <2> SUFFICES ASSUME Init PROVE TypeInv
    OBVIOUS
  <2>1. /\ 1 \in 1 .. N + 1 /\ 0 \in 0 .. Word - 1 /\ 0 \in 0 .. N /\ 0 \in 0 .. 3
        /\ 0 \in 0 .. MaxInTxn /\ 0 \in 0 .. MaxFaults
    OBVIOUS
  <2>2. inq \in Queue(Event) /\ evq \in Queue(Item) /\ doomed \in Item
    BY EmptyType, Records DEF Init
  <2> QED
    BY <2>1, <2>2 DEF Init, TypeInv, TypeOK
<1>2. TypeInv /\ [Next]_vars => TypeInv'
  <2> SUFFICES ASSUME TypeInv, [Next]_vars PROVE TypeInv'
    OBVIOUS
  <2>0. \A k \in 0 .. MaxFaults : k < MaxFaults => k + 1 \in 0 .. MaxFaults
    OBVIOUS
  <2> USE <2>0 DEF TypeInv, TypeOK, source, cache, intake, writing, disk, deleting, history
  <2>1. CASE UNCHANGED vars
    BY <2>1 DEF vars
  <2>2. CASE Send
    <3>1. next \in Event /\ next + 1 \in 1 .. N + 1
      BY <2>2 DEF Send, Event
    <3>2. /\ inq' \in Queue(Event) /\ faults' \in 0 .. MaxFaults
          /\ lost' \subseteq Event /\ told' \subseteq Event
      <4>0. inq.size \in 0 .. Word - 1
        BY DEF Queue
      <4>1. CASE inq.size < MaxIn
        <5>0. ~(inq.size >= MaxIn)
          BY <4>0, <4>1
        <5>1. PICK put \in Puts(inq, next, Size[next]) :
                  /\ inq' = put[1] /\ faults' = faults + put[2]
                  /\ lost' = IF put[2] = 0 THEN lost ELSE lost \cup {next}
          BY <2>2, <5>0 DEF Send, Enqueue
        <5>2. put[1] \in Queue(Event) /\ (put[2] = 0 \/ (put[2] = 1 /\ faults < MaxFaults))
          BY <3>1, PutsType, SizesInWord
        <5>3. told' = told \cup {next}
          BY <2>2, <5>0 DEF Send, Enqueue
        <5>4. faults + 0 = faults
          OBVIOUS
        <5> QED
          BY <3>1, <5>1, <5>2, <5>3, <5>4
      <4>2. CASE ~(inq.size < MaxIn)
        BY <2>2, <3>1, <4>2 DEF Send, Enqueue
      <4> QED
        BY <4>1, <4>2
    <3>3. recv' \in {recv, "head"}
      BY <2>2 DEF Send, Enqueue
    <3> QED
      BY <2>2, <3>1, <3>2, <3>3 DEF Send
  <2>3. CASE Shutdown
    BY <2>3 DEF Shutdown
  <2>4. CASE SpuriousWake \/ Loop \/ Park
    BY <2>4 DEF SpuriousWake, Loop, Park
  <2>5. CASE Take
    <3>1. CASE inq.items # <<>>
      <4>1. hand' = Head(inq.items) /\ hand' \in Event
        BY <2>5, <3>1, TakenType, SizesInWord DEF Take
      <4>2. inq' \in Queue(Event)
        BY <2>5, <3>1, <4>1, TakenType, SizesInWord DEF Take
      <4>3. /\ recv' = "handle"
            /\ UNCHANGED <<source, intake, writing, disk, deleting, history>>
        BY <2>5, <3>1 DEF Take
      <4>4. Event \subseteq 0 .. N
        BY DEF Event
      <4> QED
        BY <4>1, <4>2, <4>3, <4>4
    <3>2. CASE inq.items = <<>>
      BY <2>5, <3>2 DEF Take
    <3> QED
      BY <3>1, <3>2
  <2>6. CASE Refuse
    BY <2>6 DEF Refuse, Done
  <2>21. CASE Measure
    <3>1. evq.size \in 0 .. Word - 1
      BY DEF Queue
    <3>2. sizeInQueue' \in 0 .. Word - 1 /\ raced' \in BOOLEAN
      BY <2>21, <3>1 DEF Measure
    <3>3. /\ recv' = "measured" /\ hand' \in Event
          /\ UNCHANGED <<source, inq, hand, evq, threshold, ignored, writing, disk,
                         deleting, refused, lost, cleared, faults>>
      BY <2>21 DEF Measure
    <3> QED
      BY <3>2, <3>3
  <2>7. CASE HandleNonIgniteEvent
    <3>1. hand \in Event /\ Record(hand) \in Item
      BY <2>7, Records DEF HandleNonIgniteEvent
    <3>2. PICK put \in Puts(evq, Record(hand), Size[hand]) :
             /\ evq' = put[1] /\ faults' = faults + put[2]
             /\ lost' = IF put[2] = 0 THEN lost ELSE lost \cup {hand}
      BY <2>7 DEF HandleNonIgniteEvent
    <3>3. put[1] \in Queue(Item) /\ (put[2] = 0 \/ (put[2] = 1 /\ faults < MaxFaults))
      BY <3>1, PutsType, SizesInWord
    <3>4. faults + 0 = faults
      OBVIOUS
    <3>5. /\ evq' \in Queue(Item) /\ faults' \in 0 .. MaxFaults
          /\ lost' \subseteq Event
      BY <3>1, <3>2, <3>3, <3>4
    <3> QED
      BY <2>7, <3>5 DEF HandleNonIgniteEvent, Done
  <2>22. CASE NoteIgnored
    <3>1. hand \in Event /\ Overflow(ignored) \in Item
      BY <2>22, Records DEF NoteIgnored
    <3>2. PICK put \in Puts(evq, Overflow(ignored), OverflowSize) :
             /\ evq' = put[1] /\ faults' = faults + put[2]
             /\ lost' = IF put[2] = 0 THEN lost ELSE lost \cup ignored
      BY <2>22 DEF NoteIgnored
    <3>3. put[1] \in Queue(Item) /\ (put[2] = 0 \/ (put[2] = 1 /\ faults < MaxFaults))
      BY <3>1, PutsType, SizesInWord
    <3>4. faults + 0 = faults
      OBVIOUS
    <3>5. /\ evq' \in Queue(Item) /\ faults' \in 0 .. MaxFaults
          /\ lost' \subseteq Event
      BY <3>1, <3>2, <3>3, <3>4
    <3> QED
      BY <2>22, <3>1, <3>5 DEF NoteIgnored
  <2>8. CASE Admit
    <3>1. hand \in Event /\ Record(hand) \in Item
      BY <2>8, Records DEF Admit
    <3>2. PICK put \in Puts(evq, Record(hand), Size[hand]) :
             /\ evq' = put[1] /\ faults' = faults + put[2]
             /\ lost' = IF put[2] = 0 THEN lost ELSE lost \cup {hand}
      BY <2>8 DEF Admit
    <3>3. put[1] \in Queue(Item) /\ (put[2] = 0 \/ (put[2] = 1 /\ faults < MaxFaults))
      BY <3>1, PutsType, SizesInWord
    <3>4. faults + 0 = faults
      OBVIOUS
    <3>5. /\ evq' \in Queue(Item) /\ faults' \in 0 .. MaxFaults
          /\ lost' \subseteq Event
      BY <3>1, <3>2, <3>3, <3>4
    <3> QED
      BY <2>8, <3>1, <3>5 DEF Admit, Done
  <2>9. CASE Ignore
    BY <2>9 DEF Ignore, Done
  <2>10. CASE LookAtQueue
    BY <2>10 DEF LookAtQueue, Queue
  <2>11. CASE BeginInserts
    <3>1. todo' \in 0 .. MaxInTxn
      BY <2>11, InsertsType DEF BeginInserts
    <3>2. todo' # 0
      BY <2>11, InsertsType DEF BeginInserts
    <3> QED
      BY <2>11, <3>1, <3>2 DEF BeginInserts, Begin
  <2>12. CASE Insert
    <3>1. Head(evq.items) \in Item /\ lastSize' \in 0 .. Word - 1
      BY <2>12, ItemsInWord DEF Insert, Queue
    <3>2. evq' \in Queue(Item)
      BY <2>12, <3>1, TakenType DEF Insert
    <3>3. Head(evq.items).of \cup ({Head(evq.items).ev} \ {0}) \subseteq Event
      BY <3>1 DEF Item, Event
    <3> QED
      BY <2>12, <3>1, <3>2, <3>3 DEF Insert, Statement
  <2>13. CASE NothingToInsert
    BY <2>13 DEF NothingToInsert
  <2>14. CASE SetSize
    BY <2>14 DEF SetSize
  <2>15. CASE ReviseSize
    <3>1. sizeInQueue' \in 0 .. Word - 1
      BY <2>15, WordType DEF ReviseSize
    <3> QED
      BY <2>15, <3>1 DEF ReviseSize
  <2>23. CASE RestoreThreshold
    <3>1. todo' \in 0 .. MaxInTxn
      <4>1. \A k \in 0 .. MaxInTxn : k # 0 => k - 1 \in 0 .. MaxInTxn
        OBVIOUS
      <4> QED
        BY <2>23, <4>1 DEF RestoreThreshold
    <3> QED
      BY <2>23, <3>1 DEF RestoreThreshold
  <2>16. CASE EndInserts
    <3>1. /\ durable' \subseteq Item /\ open' \in BOOLEAN
          /\ owner' \in {"none", "writer", "mid"} /\ rows' = rows
      BY <2>16 DEF EndInserts, End
    <3>2. faults' \in 0 .. MaxFaults
      BY <2>16 DEF EndInserts, End
    <3> QED
      BY <2>16, <3>1, <3>2 DEF EndInserts
  <2>17. CASE BeginDelete
    <3>1. /\ midTxn' \in BOOLEAN /\ owner' \in {"none", "writer", "mid"}
          /\ open' \in BOOLEAN /\ rows' = rows /\ durable' = durable
      <4>1. CASE Begin("mid", midTxn')
        BY <4>1 DEF Begin
      <4>2. CASE midTxn' = FALSE /\ UNCHANGED disk
        BY <4>2
      <4> QED
        BY <2>17, <4>1, <4>2 DEF BeginDelete
    <3>2. doomed' \in Item
      BY <2>17 DEF BeginDelete
    <3> QED
      BY <2>17, <3>1, <3>2 DEF BeginDelete
  <2>18. CASE Delete
    BY <2>18 DEF Delete, Statement
  <2>19. CASE EndDelete
    <3>1. /\ durable' \subseteq Item /\ open' \in BOOLEAN
          /\ owner' \in {"none", "writer", "mid"} /\ rows' = rows
      BY <2>19 DEF EndDelete, End
    <3>2. faults' \in 0 .. MaxFaults
      BY <2>19 DEF EndDelete, End
    <3>3. mid' = "idle" /\ doomed' \in Item /\ midTxn' \in BOOLEAN
      BY <2>19, Records DEF EndDelete
    <3>4. UNCHANGED <<source, cache, intake, writing, refused, lost, cleared, raced>>
      BY <2>19 DEF EndDelete
    <3> QED
      BY <3>1, <3>2, <3>3, <3>4
  <2>20. CASE Crash
    <3>1. Volatile \subseteq Event
      <4>1. Range(evq.items) \subseteq Item /\ Range(inq.items) \subseteq Event
        <5>1. evq.items \in Seq(Item) /\ inq.items \in Seq(Event)
          BY DEF Queue
        <5> QED
          BY <5>1, RangeType
      <4>2. EventsOf(Range(evq.items) \cup (rows \ durable)) \subseteq Event
        BY <4>1, EventsType
      <4>3. {hand} \ {0} \subseteq Event
        BY DEF Event
      <4> QED
        BY <4>1, <4>2, <4>3 DEF Volatile
    <3>2. faults' \in 0 .. MaxFaults
      BY <2>20 DEF Crash
    <3>3. inq' \in Queue(Event) /\ evq' \in Queue(Item) /\ doomed' \in Item
      BY <2>20, EmptyType, Records DEF Crash
    <3>4. 0 \in 0 .. N /\ 0 \in 0 .. Word - 1 /\ 0 \in 0 .. MaxInTxn /\ 0 \in 0 .. 3
      OBVIOUS
    <3>5. lost' \subseteq Event /\ cleared' \subseteq Item
      BY <2>20, <3>1 DEF Crash
    <3>6. /\ inq' = Empty /\ evq' = Empty /\ sizeInQueue' = 0 /\ threshold' = MaxSize
          /\ ignored' = {} /\ recv' = "none" /\ hand' = 0 /\ stage' = 0 /\ raced' = FALSE
          /\ writer' = "look" /\ runSize' = 0 /\ todo' = 0 /\ lastSize' = 0 /\ hadTxn' = FALSE
      BY <2>20 DEF Crash
    <3>7. /\ rows' = durable /\ open' = FALSE /\ owner' = "none"
          /\ mid' = "idle" /\ midTxn' = FALSE
          /\ UNCHANGED <<next, told, durable, refused>>
      BY <2>20 DEF Crash
    <3> QED
      BY <3>2, <3>3, <3>4, <3>5, <3>6, <3>7
  <2> QED
    BY <2>1, <2>2, <2>3, <2>4, <2>5, <2>6, <2>7, <2>8, <2>9, <2>10, <2>11, <2>12,
       <2>13, <2>14, <2>15, <2>16, <2>17, <2>18, <2>19, <2>20, <2>21,
       <2>22, <2>23
    DEF Next, CacheNext, WriterNext, MidNext
<1> QED
  BY <1>1, <1>2, PTL DEF Spec

\* Every variable keeps its type, through faults, crashes and restarts.
THEOREM TypeCorrect == Spec => []TypeOK
<1>1. TypeInv => TypeOK
  BY DEF TypeInv
<1> QED
  BY <1>1, TypeInvariant, PTL

-----------------------------------------------------------------------------
(* The rows a crash can take *)

\* One insertion puts at most one more row at risk.
LEMMA Grow ==
  ASSUME NEW R, NEW D, NEW i, IsFiniteSet(R)
  PROVE  /\ IsFiniteSet(R \cup {i})
         /\ Cardinality((R \cup {i}) \ D) <= Cardinality(R \ D) + 1
         /\ Cardinality(R \ D) \in Nat /\ Cardinality((R \cup {i}) \ D) \in Nat
<1>1. IsFiniteSet(R \ D)
  BY FS_Subset
<1>2. IsFiniteSet(R \cup {i})
  BY FS_AddElement
<1>3. IsFiniteSet((R \cup {i}) \ D)
  BY <1>2, FS_Subset
<1>4. /\ IsFiniteSet((R \ D) \cup {i})
      /\ Cardinality((R \ D) \cup {i}) =
           IF i \in R \ D THEN Cardinality(R \ D) ELSE Cardinality(R \ D) + 1
  BY <1>1, FS_AddElement
<1>5. (R \cup {i}) \ D \in SUBSET ((R \ D) \cup {i})
  OBVIOUS
<1>6. Cardinality((R \cup {i}) \ D) <= Cardinality((R \ D) \cup {i})
  BY <1>4, <1>5, FS_Subset
<1>7. /\ Cardinality(R \ D) \in Nat /\ Cardinality((R \cup {i}) \ D) \in Nat
      /\ Cardinality((R \ D) \cup {i}) \in Nat
  BY <1>1, <1>3, <1>4, FS_CardinalityType
<1> QED
  BY <1>2, <1>4, <1>6, <1>7

\* A deletion puts no further row at risk.
LEMMA Shrink ==
  ASSUME NEW R, NEW D, NEW i, IsFiniteSet(R)
  PROVE  /\ IsFiniteSet(R \ {i})
         /\ Cardinality((R \ {i}) \ D) <= Cardinality(R \ D)
         /\ Cardinality(R \ D) \in Nat /\ Cardinality((R \ {i}) \ D) \in Nat
<1>1. IsFiniteSet(R \ D) /\ IsFiniteSet(R \ {i})
  BY FS_Subset
<1>2. (R \ {i}) \ D \in SUBSET (R \ D)
  OBVIOUS
<1>3. IsFiniteSet((R \ {i}) \ D) /\ Cardinality((R \ {i}) \ D) <= Cardinality(R \ D)
  BY <1>1, <1>2, FS_Subset
<1> QED
  BY <1>1, <1>3, FS_CardinalityType

\* The inductive invariant of the transactions.
THEOREM TxnCorrect == Spec => []TxnInv
<1> USE LimitAssumption
<1>1. Init => TxnInv
  BY FS_EmptySet DEF Init, TxnInv, Inserting
<1>2. TypeInv /\ TxnInv /\ [Next]_vars => TxnInv'
  <2> SUFFICES ASSUME TypeInv, TxnInv, [Next]_vars PROVE TxnInv'
    OBVIOUS
  <2> USE DEF Inserting
  <2>1. ASSUME UNCHANGED <<writer, todo, hadTxn, disk, mid, midTxn>>
        PROVE  TxnInv'
    BY <2>1 DEF TxnInv, Left, disk
  <2>2. CASE UNCHANGED vars \/ Send \/ Shutdown \/ SpuriousWake \/ CacheNext
    BY <2>1, <2>2 DEF vars, writing, deleting, Send, Shutdown, SpuriousWake, CacheNext, Loop,
       Take, Park, Refuse, HandleNonIgniteEvent, Measure, NoteIgnored, Admit, Ignore
  <2>3. CASE LookAtQueue
    BY <2>3 DEF LookAtQueue, TxnInv, Left, disk, deleting
  <2>4. CASE BeginInserts
    <3>1. todo' \in 0 .. MaxInTxn /\ Left' = todo'
      BY <2>4, InsertsType DEF BeginInserts, TypeInv, TypeOK, Left
    <3>2. CASE open
      BY <2>4, <3>2 DEF BeginInserts, Begin, TxnInv, deleting
    <3>3. CASE ~open
      <4>1. rows \ durable = {} /\ rows' \ durable' = {}
        BY <2>4, <3>3 DEF BeginInserts, Begin, TxnInv
      <4>2. Cardinality(rows' \ durable') + Left' <= MaxInTxn
        BY <3>1, <4>1, FS_EmptySet
      <4> QED
        BY <2>4, <3>3, <4>2 DEF BeginInserts, Begin, TxnInv, deleting
    <3> QED
      BY <3>2, <3>3
  <2>5. CASE Insert
    <3> DEFINE i == Head(evq.items)
    <3>1. todo \in 1 .. MaxInTxn /\ Left = todo /\ Left' = todo - 1
      BY <2>5 DEF Insert, TypeInv, TypeOK, Left
    <3>2. open
      BY <2>5 DEF Insert, TxnInv
    <3>3. rows' \in {rows, rows \cup {i}} /\ durable' = durable
      BY <2>5, <3>2 DEF Insert, Statement
    <3>4. IsFiniteSet(rows)
      BY DEF TxnInv
    <3>5. IsFiniteSet(rows') /\ Cardinality(rows' \ durable) <= Cardinality(rows \ durable) + 1
          /\ Cardinality(rows \ durable) \in Nat /\ Cardinality(rows' \ durable) \in Nat
      <4>1. /\ IsFiniteSet(rows \cup {i})
            /\ Cardinality((rows \cup {i}) \ durable) <= Cardinality(rows \ durable) + 1
            /\ Cardinality(rows \ durable) \in Nat
            /\ Cardinality((rows \cup {i}) \ durable) \in Nat
        BY <3>4, Grow
      <4>2. CASE rows' = rows
        BY <4>1, <4>2, <3>4
      <4>3. CASE rows' = rows \cup {i}
        BY <4>1, <4>3
      <4> QED
        BY <3>3, <4>2, <4>3
    <3>6. owner = "writer" => Cardinality(rows' \ durable') + Left' <= MaxInTxn
      BY <3>1, <3>3, <3>5 DEF TxnInv
    <3>7. owner # "mid"
      BY <2>5 DEF Insert, TxnInv
    <3>8. /\ writer' = "set" /\ UNCHANGED <<hadTxn, open, owner, mid, midTxn>>
          /\ Inserting /\ Inserting'
      BY <2>5 DEF Insert, deleting
    <3>9. IsFiniteSet(durable')
      BY <3>3 DEF TxnInv
    <3> QED
      BY <3>2, <3>5, <3>6, <3>7, <3>8, <3>9 DEF TxnInv
  <2>6. CASE NothingToInsert \/ SetSize \/ ReviseSize \/ RestoreThreshold
    <3>1. Left' \in Nat /\ Left \in Nat /\ Left' <= Left
      BY <2>6 DEF NothingToInsert, SetSize, ReviseSize, RestoreThreshold, Left, TypeInv, TypeOK
    <3>2. Cardinality(rows \ durable) \in Nat
      BY Grow DEF TxnInv
    <3>3. UNCHANGED <<hadTxn, disk, deleting>> /\ Inserting /\ Inserting'
      BY <2>6 DEF NothingToInsert, SetSize, ReviseSize, RestoreThreshold
    <3>4. owner = "writer" => Cardinality(rows' \ durable') + Left' <= MaxInTxn
      BY <3>1, <3>2, <3>3 DEF TxnInv, disk
    <3> QED
      BY <3>3, <3>4 DEF TxnInv, disk, deleting
  <2>7. CASE EndInserts
    BY <2>7 DEF EndInserts, End, TxnInv, disk, deleting
  <2>8. CASE BeginDelete
    <3>1. /\ UNCHANGED <<writer, todo, hadTxn>> /\ mid = "idle" /\ mid' = "delete"
          /\ Left' = Left /\ Inserting' = Inserting
      BY <2>8 DEF BeginDelete, writing, Left
    <3>2. CASE Begin("mid", midTxn') /\ open
      BY <3>1, <3>2 DEF Begin, TxnInv
    <3>3. CASE Begin("mid", midTxn') /\ ~open
      BY <3>1, <3>3 DEF Begin, TxnInv
    <3>4. CASE midTxn' = FALSE /\ UNCHANGED disk
      BY <3>1, <3>4 DEF TxnInv, disk
    <3> QED
      BY <2>8, <3>2, <3>3, <3>4 DEF BeginDelete
  <2>9. CASE Delete
    <3>1. /\ IsFiniteSet(rows') /\ Cardinality(rows' \ durable) <= Cardinality(rows \ durable)
          /\ Cardinality(rows \ durable) \in Nat /\ Cardinality(rows' \ durable) \in Nat
      BY <2>9, Shrink DEF Delete, Statement, TxnInv
    <3>2. Left \in Int /\ Left' = Left
      <4>1. todo \in Int
        BY DEF TypeInv, TypeOK
      <4>2. todo - 1 \in Int
        BY <4>1
      <4>3. UNCHANGED <<writer, todo>>
        BY <2>9 DEF Delete, writing
      <4> QED
        BY <4>1, <4>2, <4>3 DEF Left
    <3>3. owner = "writer" => Cardinality(rows' \ durable') + Left' <= MaxInTxn
      BY <2>9, <3>1, <3>2 DEF Delete, Statement, TxnInv
    <3> QED
      BY <2>9, <3>1, <3>3 DEF Delete, Statement, TxnInv, writing
  <2>10. CASE EndDelete
    BY <2>10 DEF EndDelete, End, TxnInv, Left, disk, writing
  <2>11. CASE Crash
    <3>1. IsFiniteSet(durable)
      BY DEF TxnInv
    <3> QED
      BY <2>11, <3>1 DEF Crash, TxnInv
  <2> QED
    BY <2>2, <2>3, <2>4, <2>5, <2>6, <2>7, <2>8, <2>9, <2>10, <2>11
    DEF Next, WriterNext, MidNext
<1> QED
  BY <1>1, <1>2, TypeInvariant, PTL DEF Spec

\* A crash takes at most the rows of one transaction with it, whatever the
\* limits, as long as no END failed and left a transaction that nobody owns.
THEOREM AtRisk == Spec => []AtMostOneTxnAtRisk
<1>1. TypeInv /\ TxnInv => AtMostOneTxnAtRisk
  <2> SUFFICES ASSUME TypeInv, TxnInv, open => owner # "none"
               PROVE  Cardinality(rows \ durable) <= MaxInTxn
    BY DEF AtMostOneTxnAtRisk
  <2>1. CASE ~open \/ owner = "mid"
    <3>1. rows \ durable = {}
      BY <2>1 DEF TxnInv
    <3> QED
      BY <3>1, FS_EmptySet, LimitAssumption
  <2>2. CASE owner = "writer"
    <3>1. Left \in Nat
      BY <2>2, LimitAssumption DEF TxnInv, Inserting, Left, TypeInv, TypeOK
    <3>2. Cardinality(rows \ durable) \in Nat
      BY Grow DEF TxnInv
    <3> QED
      BY <2>2, <3>1, <3>2, LimitAssumption DEF TxnInv
  <2> QED
    BY <2>1, <2>2 DEF TypeInv, TypeOK
<1> QED
  BY <1>1, TypeInvariant, TxnCorrect, PTL
=============================================================================
