------------------------ MODULE StreamUpload_proofs -------------------------
(***************************************************************************)
(* Proofs about StreamUpload for every set of rows, every batch size, every *)
(* number of message ids and topics and every choice of failing calls.      *)
(***************************************************************************)
EXTENDS StreamUpload, FiniteSetTheorems, TLAPS

-----------------------------------------------------------------------------
(* Type correctness, and the handshake of SetMidTable with                 *)
(* ProcessPublishedMid: the two are proved together because InitMid queues  *)
(* the MIDs both acknowledged and mapped, which must be none.              *)

TypeInv == TypeOK /\ MidInOnePlace

\* The message id after n is an id again: mid_generate skips 0.
LEMMA MidAfterType ==
  ASSUME NEW n \in 0 .. MaxMid, NEW k \in Nat, 0 < k, k < MaxMid
  PROVE  MidAfter(n, k) \in Mid
  BY SizeAssumption DEF MidAfter, Mid

\* The message ids are among the values of last_mid.
LEMMA MidIsNumber == Mid \subseteq 0 .. MaxMid
BY SizeAssumption DEF Mid

\* Queueing a MID (ClearMid) keeps the queue and the thread well typed.
LEMMA ClearMidType ==
  ASSUME TypeOK, NEW n \in Mid, NEW t \in Table, ClearMid(n, t)
  PROVE  /\ toDelete' \in Seq(Entry)
         /\ mh' \in {"drain", "delete", "park", "wait"}
<1>1. [mid |-> n, table |-> t] \in Entry
  BY DEF Entry
<1>2. toDelete \in Seq(Entry)
  BY DEF TypeOK
<1>3. Append(toDelete, [mid |-> n, table |-> t]) \in Seq(Entry)
  BY <1>1, <1>2
<1>4. toDelete' \in Seq(Entry)
  BY <1>2, <1>3 DEF ClearMid
<1> QED
  BY <1>4 DEF ClearMid, TypeOK

\* SetMidTable keeps the types, and no MID becomes both acknowledged and mapped.
LEMMA SetMidTableType ==
  ASSUME TypeInv, NEW n \in Mid, NEW t \in Table, SetMidTable(n, t)
  PROVE  /\ published' \subseteq Mid
         /\ midTable' \in [Mid -> Table \cup {None}]
         /\ toDelete' \in Seq(Entry)
         /\ mh' \in {"drain", "delete", "park", "wait"}
         /\ MidInOnePlace'
<1>1. CASE n \in published /\ ClearMid(n, t)
  BY <1>1, ClearMidType DEF SetMidTable, TypeInv, TypeOK, MidInOnePlace
<1>2. CASE n \notin published
  BY <1>2 DEF SetMidTable, TypeInv, TypeOK, MidInOnePlace
<1> QED
  BY <1>1, <1>2 DEF SetMidTable

\* The same of ProcessPublishedMid.
LEMMA ProcessPublishedMidType ==
  ASSUME TypeInv, NEW n \in Mid, ProcessPublishedMid(n)
  PROVE  /\ published' \subseteq Mid
         /\ midTable' \in [Mid -> Table \cup {None}]
         /\ toDelete' \in Seq(Entry)
         /\ mh' \in {"drain", "delete", "park", "wait"}
         /\ MidInOnePlace'
<1>1. CASE midTable[n] # None
  <2>1. midTable[n] \in Table
    BY <1>1 DEF TypeInv, TypeOK
  <2> QED
    BY <1>1, <2>1, ClearMidType
    DEF ProcessPublishedMid, TypeInv, TypeOK, MidInOnePlace
<1>2. CASE midTable[n] = None
  BY <1>2 DEF ProcessPublishedMid, TypeInv, TypeOK, MidInOnePlace
<1> QED
  BY <1>1, <1>2

\* InitMid finds no MID both acknowledged and mapped: it queues nothing.
LEMMA NothingBoth ==
  ASSUME TypeInv, InitMidClearSet
  PROVE  toDelete' = toDelete /\ mh' = mh
<1> DEFINE both == {n \in published : midTable[n] # None}
<1>1. both = {}
  BY DEF TypeInv, MidInOnePlace
<1>2. Entries({}) = <<>>
  <2>1. Cardinality({}) = 0
    BY FS_EmptySet
  <2> QED
    BY <2>1 DEF Entries
<1>3. toDelete \o <<>> = toDelete
  BY DEF TypeInv, TypeOK
<1> QED
  BY <1>1, <1>2, <1>3 DEF InitMidClearSet

\* The rows selected by a query are rows.
LEMMA BatchType ==
  ASSUME NEW t \in Table
  PROVE  Batch(Uploadable(t)) \subseteq Row
BY DEF Batch, Uploadable

\* The types hold when the client starts.
LEMMA TypeInit == Init => TypeInv
<1>1. <<>> \in Seq(Entry)
  OBVIOUS
<1>2. [mid |-> 1, table |-> "event"] \in Entry
  BY SizeAssumption DEF Entry, Mid, Table
<1> QED
  BY <1>1, <1>2, SizeAssumption
  DEF Init, TypeInv, TypeOK, MidInOnePlace, Mid, Table

\* Every action keeps the types and MidInOnePlace.
LEMMA TypeStep == TypeInv /\ [Next]_vars => TypeInv'
<1> SUFFICES ASSUME TypeInv, [Next]_vars
             PROVE  TypeInv'
  OBVIOUS
<1> USE DEF TypeInv, TypeOK, MidInOnePlace, dbVars, mhVars, netVars, brkVars,
            upVars
<1>1. ASSUME NEW r \in Row, Insert(r)
      PROVE  TypeInv'
  BY <1>1 DEF Insert
<1>2. CASE Take
  <2>1. ASSUME toDelete # <<>>
        PROVE  Head(toDelete) \in Entry /\ Tail(toDelete) \in Seq(Entry)
    BY <2>1
  <2> QED
    BY <1>2, <2>1 DEF Take
<1>3. CASE Park \/ SpuriousWake
  BY <1>3 DEF Park, SpuriousWake
<1>4. CASE Delete
  <2>1. /\ db' \in [Row -> {"new", "stored", "streamed", "gone"}]
        /\ mid' \in [Row -> 0 .. MaxMid]
    BY <1>4, SizeAssumption DEF Delete, Remove
  <2> QED
    BY <1>4, <2>1 DEF Delete
<1>5. CASE Reinitialise
  BY <1>5, SizeAssumption DEF Reinitialise, HazardKind
<1>6. CASE InitMidClearSet
  BY <1>6, NothingBoth DEF InitMidClearSet
<1>7. CASE InitMidClearMap
  BY <1>7 DEF InitMidClearMap
<1>8. ASSUME NEW t \in Table, InitMidReset(t)
      PROVE  TypeInv'
  <2>1. mid' \in [Row -> 0 .. MaxMid]
    BY <1>8, SizeAssumption DEF InitMidReset
  <2>2. hazard' \subseteq HazardKind
    BY <1>8 DEF InitMidReset, HazardKind
  <2>3. net' \in {"resetEvent", "connect"}
    BY <1>8 DEF InitMidReset
  <2> QED
    BY <1>8, <2>1, <2>2, <2>3 DEF InitMidReset
<1>9. CASE Connect \/ ConnectFail \/ Refused \/ OnDisconnect \/ Reconnect
  <2>1. net' \in {"init", "retry", "handshake"}
    BY <1>9 DEF Connect, ConnectFail, Refused, OnDisconnect, Reconnect
  <2>2. UNCHANGED <<dbVars, mhVars, lastMid, out, brkVars, upVars, hazard,
                    breaks>>
    BY <1>9 DEF Connect, ConnectFail, Refused, OnDisconnect, Reconnect
  <2> QED
    BY <2>1, <2>2
<1>10. CASE Connack
  <2>1. lastMid' \in 0 .. MaxMid
    <3>1. Topics \in Nat /\ 0 < Topics /\ Topics < MaxMid
      BY SizeAssumption
    <3>2. lastMid \in 0 .. MaxMid
      OBVIOUS
    <3>3. MidAfter(lastMid, Topics) \in Mid
      BY <3>1, <3>2, MidAfterType
    <3> QED
      BY <1>10, <3>3, MidIsNumber DEF Connack
  <2>2. hazard' \subseteq HazardKind
    BY <1>10 DEF Connack, HazardKind
  <2> QED
    BY <1>10, <2>1, <2>2 DEF Connack
<1>11. CASE SocketLost
  BY <1>11, SizeAssumption DEF SocketLost
<1>12. ASSUME NEW n \in Mid, PubAck(n)
       PROVE  TypeInv'
  BY <1>12, ProcessPublishedMidType DEF PubAck
<1>13. ASSUME NEW m \in out, Deliver(m)
       PROVE  TypeInv'
  BY <1>13 DEF Deliver, Message
<1>14. ASSUME NEW t \in Uploader, Query(t)
       PROVE  TypeInv'
  <2>1. t \in Table
    BY TableAssumption
  <2>2. upc' \in [Table -> {"idle", "query", "check", "send", "update", "set"}]
    BY <1>14, <2>1 DEF Query, Goto
  <2>3. urows' \in [Table -> SUBSET Row]
    BY <1>14, <2>1, BatchType DEF Query
  <2>4. UNCHANGED <<dbVars, mhVars, netVars, brkVars, umid, hazard, breaks>>
    BY <1>14 DEF Query
  <2> QED
    BY <2>2, <2>3, <2>4
<1>15. ASSUME NEW t \in Uploader, Check(t) \/ CompressFail(t)
       PROVE  TypeInv'
  BY <1>15, TableAssumption DEF Check, CompressFail, Goto, Continue
<1>16. ASSUME NEW t \in Uploader, Send(t)
       PROVE  TypeInv'
  <2>1. MidAfter(lastMid, 1) \in Mid
    BY MidAfterType, SizeAssumption
  <2>2. [mid |-> MidAfter(lastMid, 1), rows |-> urows[t], got |-> FALSE]
          \in Message
    BY <2>1, TableAssumption DEF Message
  <2> QED
    <3>1. /\ out' \subseteq Message
          /\ lastMid' \in 0 .. MaxMid
      BY <1>16, <2>1, <2>2, MidIsNumber DEF Send
    <3>2. /\ umid' \in [Table -> Mid]
          /\ upc' \in [Table -> {"idle", "query", "check", "send", "update",
                                "set"}]
      BY <1>16, <2>1, TableAssumption DEF Send, Goto
    <3>3. hazard' \subseteq HazardKind
      BY <1>16 DEF Send, HazardKind
    <3> QED
      BY <1>16, <3>1, <3>2, <3>3 DEF Send
<1>17. ASSUME NEW t \in Uploader, UpdateMid(t)
       PROVE  TypeInv'
  <2>1. mid' \in [Row -> 0 .. MaxMid]
    <3>1. umid[t] \in 0 .. MaxMid
      BY MidIsNumber, TableAssumption
    <3> QED
      BY <1>17, <3>1 DEF UpdateMid
  <2>2. /\ hazard' \subseteq HazardKind
        /\ upc' \in [Table -> {"idle", "query", "check", "send", "update",
                              "set"}]
    BY <1>17, TableAssumption DEF UpdateMid, Goto, HazardKind
  <2> QED
    BY <1>17, <2>1, <2>2 DEF UpdateMid
<1>18. ASSUME NEW t \in Uploader, Book(t)
       PROVE  TypeInv'
  <2>1. umid[t] \in Mid /\ t \in Table
    BY TableAssumption
  <2> QED
    BY <1>18, <2>1, SetMidTableType DEF Book, Goto, Continue
<1>19. CASE Crash
  BY <1>19, SizeAssumption DEF Crash
<1>20. CASE UNCHANGED vars
  BY <1>20 DEF vars
<1> QED
  BY <1>1, <1>2, <1>3, <1>4, <1>5, <1>6, <1>7, <1>8, <1>9, <1>10, <1>11,
     <1>12, <1>13, <1>14, <1>15, <1>16, <1>17, <1>18, <1>19, <1>20
  DEF Next, MidThread, InitClient, Loop, Upload

\* The variables keep the types of the code's objects: message ids stay within
\* those mid_generate hands out and every thread is at a place of its code.
THEOREM TypeCorrect == Spec => []TypeOK
<1>1. TypeInv /\ [Next]_vars => TypeInv'
  BY TypeStep
<1>2. TypeInv => TypeOK
  BY DEF TypeInv
<1> QED
  BY TypeInit, <1>1, <1>2, PTL DEF Spec

\* No MID is both in m_setPublishedMidSet and in m_mapMidDBTableMap: the loop
\* of CMidHandler::InitMid over such MIDs never queues a deletion.
THEOREM MidOnePlace == Spec => []MidInOnePlace
<1>1. TypeInv /\ [Next]_vars => TypeInv'
  BY TypeStep
<1>2. TypeInv => MidInOnePlace
  BY DEF TypeInv
<1> QED
  BY TypeInit, <1>1, <1>2, PTL DEF Spec

-----------------------------------------------------------------------------
(* NoLoss: the inductive invariant SafeBooking                             *)

\* Queueing n for deletion makes no other MID pending.
LEMMA ClearMidPending ==
  ASSUME TypeOK, NEW n \in Mid, NEW t \in Table, ClearMid(n, t), cur' = cur,
         NEW k \in Mid, DeletePending(k)'
  PROVE  DeletePending(k) \/ k = n
<1>1. toDelete \in Seq(Entry) /\ [mid |-> n, table |-> t] \in Entry
  BY DEF TypeOK, Entry
<1>2. CASE toDelete' = Append(toDelete, [mid |-> n, table |-> t])
  <2>1. ASSUME NEW i \in DOMAIN toDelete', toDelete'[i].mid = k
        PROVE  DeletePending(k) \/ k = n
    <3>1. CASE i = Len(toDelete) + 1
      BY <1>1, <1>2, <2>1, <3>1
    <3>2. CASE i \in DOMAIN toDelete
      BY <1>1, <1>2, <2>1, <3>2 DEF DeletePending
    <3> QED
      BY <1>1, <1>2, <3>1, <3>2
  <2> QED
    BY <2>1 DEF DeletePending, ClearMid
<1>3. CASE toDelete' = toDelete
  BY <1>3 DEF DeletePending, ClearMid
<1> QED
  BY <1>2, <1>3 DEF ClearMid

\* SetMidTable moves a MID from one place to the other: none is newly known as
\* acknowledged.
LEMMA SetMidTableAcked ==
  ASSUME TypeOK, NEW n \in Mid, NEW t \in Table, SetMidTable(n, t),
         UNCHANGED <<cur, net, acks>>, net # "clearSet",
         NEW k \in Mid, Acked(k)'
  PROVE  Acked(k)
<1>1. CASE n \in published /\ ClearMid(n, t) /\ published' = published \ {n}
  BY <1>1, ClearMidPending DEF Acked
<1>2. CASE UNCHANGED <<published, toDelete, mh>>
  BY <1>2 DEF Acked, DeletePending
<1> QED
  BY <1>1, <1>2 DEF SetMidTable

\* ProcessPublishedMid takes over a MID whose acknowledgement came.
LEMMA ProcessPublishedMidAcked ==
  ASSUME TypeOK, NEW n \in Mid, ProcessPublishedMid(n), n \in acks,
         acks' \subseteq acks, UNCHANGED <<cur, net>>, NEW k \in Mid, Acked(k)'
  PROVE  Acked(k)
<1>1. CASE ClearMid(n, midTable[n]) /\ midTable[n] # None /\ published' = published
  <2>1. midTable[n] \in Table
    BY <1>1 DEF TypeOK
  <2> QED
    BY <1>1, <2>1, ClearMidPending DEF Acked
<1>2. CASE published' = published \cup {n} /\ UNCHANGED <<toDelete, mh>>
  BY <1>2 DEF Acked, DeletePending
<1> QED
  BY <1>1, <1>2 DEF ProcessPublishedMid

\* Taking an entry from the queue leaves it pending until it is processed.
LEMMA TakePending ==
  ASSUME TypeOK, Take, NEW k \in Mid, DeletePending(k)'
  PROVE  DeletePending(k)
<1>1. CASE toDelete # <<>> /\ cur' = Head(toDelete) /\ toDelete' = Tail(toDelete)
  <2>1. toDelete \in Seq(Entry)
    BY DEF TypeOK
  <2>2. ASSUME NEW i \in DOMAIN toDelete', toDelete'[i].mid = k
        PROVE  i + 1 \in DOMAIN toDelete /\ toDelete[i + 1].mid = k
    BY <1>1, <2>1, <2>2
  <2>3. 1 \in DOMAIN toDelete /\ cur' = toDelete[1]
    BY <1>1, <2>1
  <2> QED
    BY <2>2, <2>3 DEF DeletePending
<1>2. CASE toDelete = <<>> /\ mh' = "park" /\ UNCHANGED <<cur, toDelete>>
  BY <1>2 DEF DeletePending
<1> QED
  BY <1>1, <1>2 DEF Take

\* The part of SafeBooking that holds while nothing is disturbed.
Safe == FreshMids /\ QuietStart /\ Carried /\ AckSound /\ Cleared \subseteq delivered

\* Acknowledgements are under way only while the connection is up.
LEMMA AcksStep ==
  ASSUME net # "up" => acks = {}, [Next]_vars
  PROVE  net' # "up" => acks' = {}
BY DEF Next, MidThread, InitClient, Loop, Upload, Insert, Take, Park,
       SpuriousWake, Delete, Reinitialise, InitMidClearSet, InitMidClearMap,
       InitMidReset, Connect, ConnectFail, Connack, Refused, SocketLost,
       OnDisconnect, Reconnect, PubAck, Deliver, Query, Check, CompressFail,
       Send, UpdateMid, Book, Crash, vars, netVars, brkVars

\* A disturbance is never forgotten.
LEMMA BrokenStep ==
  ASSUME [Next]_vars, Broken
  PROVE  Broken'
<1>1. hazard \subseteq hazard'
  BY DEF Next, MidThread, InitClient, Loop, Upload, Insert, Take, Park,
         SpuriousWake, Delete, Reinitialise, InitMidClearSet, InitMidClearMap,
         InitMidReset, Connect, ConnectFail, Connack, Refused, SocketLost,
         OnDisconnect, Reconnect, PubAck, Deliver, Query, Check, CompressFail,
         Send, UpdateMid, Book, Crash, vars
<1> QED
  BY <1>1 DEF Broken

\* A step that moves no MID, publishes and delivers nothing.
LEMMA Unmoved ==
  ASSUME FreshMids, Carried, AckSound,
         UNCHANGED <<mid, out, delivered, umid, lastMid>>,
         \A t \in Uploader : InBooking(t)' => InBooking(t) /\ urows'[t] = urows[t],
         \A k \in Mid : Acked(k)' => Acked(k),
         net' \in Session => net \in Session
  PROVE  FreshMids' /\ Carried' /\ AckSound'
<1>1. FreshMids'
  BY DEF FreshMids
<1>2. Carried'
  BY DEF Carried
<1>3. AckSound'
  BY DEF AckSound
<1> QED
  BY <1>1, <1>2, <1>3

\* A step that books and queues nothing, outside the start of a session.
LEMMA QuietUnmoved ==
  ASSUME QuietStart, mid' = mid,
         \A t \in Uploader : InBooking(t)' => InBooking(t),
         \A k \in Mid : DeletePending(k)' => DeletePending(k),
         net' \in Preparing => net \in Preparing,
         net' = "resetEvent" => net = "resetEvent"
  PROVE  QuietStart'
BY DEF QuietStart

\* The same for the steps that change neither queue nor upload threads.
LEMMA StillSafe ==
  ASSUME Safe, UNCHANGED <<mid, out, delivered, umid, lastMid, toDelete, mh,
                           cur, upc, urows, db>>,
         acks' \subseteq acks, published' \subseteq published,
         net = "clearSet" => net' = "clearSet" \/ published' = {},
         net' \in Session => net \in Session,
         net' \in Preparing => net \in Preparing,
         net' = "resetEvent" => net = "resetEvent"
  PROVE  Safe'
<1>1. \A k \in Mid : DeletePending(k)' => DeletePending(k)
  BY DEF DeletePending
<1>2. \A k \in Mid : Acked(k)' => Acked(k)
  BY <1>1 DEF Acked
<1>3. \A t \in Uploader : InBooking(t)' => InBooking(t) /\ urows'[t] = urows[t]
  BY DEF InBooking
<1>4. FreshMids' /\ Carried' /\ AckSound'
  BY <1>2, <1>3, Unmoved DEF Safe
<1>5. QuietStart'
  BY <1>1, <1>3, QuietUnmoved DEF Safe
<1>6. Cleared' \subseteq delivered'
  BY DEF Safe, Cleared
<1> QED
  BY <1>4, <1>5, <1>6 DEF Safe

\* Every action keeps Safe, unless it disturbs the book-keeping.
LEMMA SafeStep ==
  ASSUME TypeInv, Safe, net # "up" => acks = {}, [Next]_vars, ~ Broken'
  PROVE  Safe'
<1> USE DEF dbVars, mhVars, netVars, brkVars, upVars
<1>1. ASSUME NEW r \in Row, Insert(r)
      PROVE  Safe'
  <2>1. \A k \in Mid : /\ DeletePending(k)' => DeletePending(k)
                       /\ Acked(k)' => Acked(k)
    BY <1>1 DEF Insert, DeletePending, Acked
  <2>2. \A t \in Uploader : InBooking(t)' => InBooking(t) /\ urows'[t] = urows[t]
    BY <1>1 DEF Insert, InBooking
  <2>3. FreshMids' /\ Carried' /\ AckSound' /\ QuietStart'
    BY <1>1, <2>1, <2>2, Unmoved, QuietUnmoved DEF Insert, Safe
  <2>4. Cleared' \subseteq delivered'
    BY <1>1 DEF Insert, Safe, Cleared, TypeInv, TypeOK
  <2> QED
    BY <2>3, <2>4 DEF Safe
<1>2. CASE Take \/ Park \/ SpuriousWake
  <2>1. \A k \in Mid : DeletePending(k)' => DeletePending(k)
    BY <1>2, TakePending DEF Park, SpuriousWake, DeletePending, TypeInv
  <2>2. UNCHANGED <<dbVars, published, midTable, netVars, brkVars, upVars>>
    BY <1>2 DEF Take, Park, SpuriousWake
  <2>3. \A k \in Mid : Acked(k)' => Acked(k)
    BY <2>1, <2>2 DEF Acked
  <2>4. \A t \in Uploader : InBooking(t)' => InBooking(t) /\ urows'[t] = urows[t]
    BY <2>2 DEF InBooking
  <2>5. FreshMids' /\ Carried' /\ AckSound' /\ QuietStart'
    BY <2>1, <2>2, <2>3, <2>4, Unmoved, QuietUnmoved DEF Safe
  <2>6. Cleared' \subseteq delivered'
    BY <2>2 DEF Safe, Cleared
  <2> QED
    BY <2>5, <2>6 DEF Safe
<1>3. CASE Delete
  <2>1. /\ mh = "delete" /\ mh' = "drain" /\ cur \in Entry
        /\ UNCHANGED <<published, toDelete, netVars, brkVars, upVars>>
    BY <1>3 DEF Delete, TypeInv, TypeOK
  <2>2. \A k \in Mid : /\ DeletePending(k)' => DeletePending(k)
                       /\ Acked(k)' => Acked(k)
    BY <2>1 DEF DeletePending, Acked
  <2>3. Marked(cur.mid, cur.table) \subseteq delivered
    <3>1. cur.mid \in Mid /\ Acked(cur.mid)
      BY <2>1 DEF Entry, Acked, DeletePending
    <3> QED
      BY <3>1 DEF Safe, AckSound, Marked
  <2>4. \A r \in Row : /\ mid'[r] = mid[r] \/ mid'[r] = 0
                       /\ \/ db'[r] = db[r]
                          \/ r \in Marked(cur.mid, cur.table)
    BY <1>3 DEF Delete, Remove, TypeInv, TypeOK
  <2>5. \A t \in Uploader : InBooking(t)' <=> InBooking(t)
    BY <2>1 DEF InBooking
  <2>6. FreshMids'
    BY <2>1, <2>2, <2>5 DEF Safe, FreshMids
  <2>7. QuietStart'
    BY <2>1, <2>2, <2>4, <2>5 DEF Safe, QuietStart
  <2>8. Carried'
    BY <2>1, <2>4, <2>5 DEF Safe, Carried
  <2>9. AckSound'
    <3>1. ASSUME NEW n \in Mid, Acked(n)', NEW r \in Row, mid'[r] = n
          PROVE  r \in delivered'
      <4>1. n # 0
        BY SizeAssumption DEF Mid
      <4> QED
        BY <2>1, <2>2, <2>4, <3>1, <4>1 DEF Safe, AckSound
    <3> QED
      BY <2>1, <2>2, <2>5, <3>1 DEF Safe, AckSound
  <2>10. Cleared' \subseteq delivered'
    BY <2>1, <2>3, <2>4 DEF Safe, Cleared
  <2> QED
    BY <2>6, <2>7, <2>8, <2>9, <2>10 DEF Safe
<1>4. CASE Reinitialise
  <2>1. (\A t \in Uploader : ~ InBooking(t)) /\ toDelete = <<>> /\ mh # "delete"
    BY <1>4 DEF Reinitialise, Broken, Booking, Pending
  <2>2. /\ acks' = {} /\ net' = "clearSet" /\ out' = {}
        /\ UNCHANGED <<dbVars, mhVars, delivered, upVars>>
    BY <1>4 DEF Reinitialise
  <2>3. \A t \in Uploader : ~ InBooking(t)'
    BY <2>1, <2>2 DEF InBooking
  <2>4. \A k \in Mid : ~ DeletePending(k)' /\ ~ Acked(k)'
    BY <2>1, <2>2 DEF DeletePending, Acked
  <2>5. FreshMids' /\ AckSound'
    BY <2>2, <2>3, <2>4 DEF FreshMids, AckSound
  <2>6. QuietStart' /\ Carried'
    BY <2>2, <2>3, <2>4 DEF QuietStart, Carried, Session
  <2>7. Cleared' \subseteq delivered'
    BY <2>2 DEF Safe, Cleared
  <2> QED
    BY <2>5, <2>6, <2>7 DEF Safe
<1>5. CASE InitMidClearSet
  <2>1. toDelete' = toDelete /\ mh' = mh
    BY <1>5, NothingBoth
  <2> QED
    BY <1>5, <2>1, StillSafe DEF InitMidClearSet, Session, Preparing
<1>6. CASE InitMidClearMap
  BY <1>6, StillSafe DEF InitMidClearMap, Session, Preparing
<1>7. ASSUME NEW t \in Table, InitMidReset(t)
      PROVE  Safe'
  <2>1. mid' = [r \in Row |-> IF TableOf(r) = t THEN 0 ELSE mid[r]]
    BY <1>7 DEF InitMidReset, Broken
  <2>2. /\ net \in {"resetAlert", "resetEvent"}
        /\ UNCHANGED <<db, mhVars, lastMid, out, brkVars, upVars>>
        /\ net = "resetAlert" /\ t = "alert" => net' = "resetEvent"
        /\ net = "resetEvent" => t # "alert" /\ net' = "connect"
        /\ net = "resetAlert" => t = "alert"
    BY <1>7 DEF InitMidReset, Table
  <2>3. /\ \A u \in Uploader : ~ InBooking(u)'
        /\ \A k \in Mid : ~ DeletePending(k)'
    BY <2>2 DEF Safe, QuietStart, Preparing, InBooking, DeletePending
  <2>4. \A k \in Mid : Acked(k)' => Acked(k)
    BY <2>2, <2>3 DEF Acked
  <2>5. net' = "resetEvent" => \A r \in Row : TableOf(r) = "alert" => mid'[r] = 0
    BY <2>1, <2>2
  <2>6. net' \in Session => \A r \in Row : mid'[r] = 0
    BY <2>1, <2>2 DEF Safe, QuietStart, Session, TableOf, Table
  <2>7. FreshMids'
    BY <2>2, <2>3, <2>4 DEF Safe, FreshMids
  <2>8. QuietStart' /\ Carried'
    BY <2>3, <2>5, <2>6 DEF QuietStart, Carried
  <2>9. AckSound'
    <3>1. \A r \in Row : mid'[r] = mid[r] \/ mid'[r] = 0
      BY <2>1
    <3>2. 0 \notin Mid
      BY SizeAssumption DEF Mid
    <3> QED
      BY <2>2, <2>3, <2>4, <3>1, <3>2 DEF Safe, AckSound
  <2>10. Cleared' \subseteq delivered'
    BY <2>2 DEF Safe, Cleared
  <2> QED
    BY <2>7, <2>8, <2>9, <2>10 DEF Safe
<1>8. CASE Connect \/ ConnectFail \/ Refused \/ OnDisconnect \/ Reconnect
  BY <1>8, StillSafe DEF Connect, ConnectFail, Refused, OnDisconnect, Reconnect,
                         Session, Preparing
<1>9. CASE SocketLost
  BY <1>9, StillSafe DEF SocketLost, Session, Preparing
<1>10. CASE UNCHANGED vars
  BY <1>10, StillSafe DEF vars
<1>11. CASE Connack
  <2>1. /\ net = "handshake" /\ net' = "up"
        /\ UNCHANGED <<dbVars, mhVars, out, brkVars, upVars>>
    BY <1>11 DEF Connack
  <2>2. lastMid \in Nat /\ lastMid' \in Nat /\ lastMid <= lastMid'
    <3>1. lastMid' = lastMid + Topics
      BY <1>11 DEF Connack, MidAfter, Wraps, Broken
    <3> QED
      BY <3>1, SizeAssumption DEF TypeInv, TypeOK
  <2>3. \A k \in Mid : /\ DeletePending(k)' <=> DeletePending(k)
                       /\ Acked(k)' <=> Acked(k)
    BY <2>1 DEF DeletePending, Acked
  <2>4. \A t \in Uploader : InBooking(t)' <=> InBooking(t)
    BY <2>1 DEF InBooking
  <2>5. FreshMids'
    <3>1. /\ \A m \in out : m.mid \in Nat
          /\ \A t \in Uploader : umid[t] \in Nat
          /\ \A k \in Mid : k \in Nat
      BY TableAssumption, SizeAssumption
      DEF TypeInv, TypeOK, Message, Mid
    <3> QED
      BY <2>1, <2>2, <2>3, <2>4, <3>1 DEF Safe, FreshMids
  <2>6. QuietStart' /\ Cleared' \subseteq delivered'
    BY <2>1 DEF QuietStart, Preparing, Safe, Cleared
  <2>7. Carried' /\ AckSound'
    BY <2>1, <2>3, <2>4 DEF Safe, Carried, AckSound, Session
  <2> QED
    BY <2>5, <2>6, <2>7 DEF Safe
<1>12. ASSUME NEW n \in Mid, PubAck(n)
       PROVE  Safe'
  <2>1. /\ net = "up" /\ n \in acks /\ acks' \subseteq acks
        /\ UNCHANGED <<dbVars, cur, net, lastMid, delivered, dup, upVars>>
    BY <1>12 DEF PubAck
  <2>2. \A k \in Mid : Acked(k)' => Acked(k)
    <3>1. CASE ProcessPublishedMid(n)
      BY <2>1, <3>1, ProcessPublishedMidAcked DEF TypeInv
    <3>2. CASE UNCHANGED <<published, midTable, toDelete, mh>>
      BY <2>1, <3>2 DEF Acked, DeletePending
    <3> QED
      BY <1>12, <3>1, <3>2 DEF PubAck
  <2>3. \A t \in Uploader : InBooking(t)' <=> InBooking(t)
    BY <2>1 DEF InBooking
  <2>4. /\ out' \subseteq out
        /\ \A m \in out \ out' : m.rows \subseteq delivered
    <3>1. \A m \in out : m.mid = n => m.rows \subseteq delivered
      BY <2>1 DEF Safe, AckSound, Acked
    <3> QED
      BY <1>12, <3>1 DEF PubAck
  <2>5. FreshMids'
    BY <2>1, <2>2, <2>3, <2>4 DEF Safe, FreshMids
  <2>6. QuietStart' /\ Cleared' \subseteq delivered'
    BY <2>1 DEF QuietStart, Preparing, Safe, Cleared
  <2>7. Carried'
    BY <2>1, <2>3, <2>4 DEF Safe, Carried
  <2>8. AckSound'
    BY <2>1, <2>2, <2>3, <2>4 DEF Safe, AckSound
  <2> QED
    BY <2>5, <2>6, <2>7, <2>8 DEF Safe
<1>13. ASSUME NEW m \in out, Deliver(m)
       PROVE  Safe'
  <2> DEFINE mm == [m EXCEPT !.got = TRUE]
  <2>1. /\ net = "up"
        /\ acks' = acks \cup {m.mid}
        /\ delivered' = delivered \cup m.rows
        /\ out' = (out \ {m}) \cup {mm}
        /\ UNCHANGED <<dbVars, mhVars, net, lastMid, upVars>>
    BY <1>13 DEF Deliver
  <2>2. mm.mid = m.mid /\ mm.rows = m.rows /\ m.mid \in Mid
    BY DEF TypeInv, TypeOK, Message
  <2>3. \A k \in Mid : Acked(k)' => Acked(k) \/ k = m.mid
    BY <2>1 DEF Acked, DeletePending
  <2>4. \A t \in Uploader : InBooking(t)' <=> InBooking(t)
    BY <2>1 DEF InBooking
  <2>5. \A m1 \in out' : \E m2 \in out : m1.mid = m2.mid /\ m1.rows = m2.rows
    BY <2>1, <2>2
  <2>6. \A m1 \in out : \E m2 \in out' : m1.mid = m2.mid /\ m1.rows = m2.rows
    BY <2>1, <2>2
  <2>7. \A m1 \in out : m1.mid = m.mid => m1 = m
    BY DEF Safe, FreshMids
  <2>8. FreshMids'
    <3>1. \A m1, m2 \in out' : m1.mid = m2.mid => m1 = m2
      BY <2>1, <2>2, <2>7 DEF Safe, FreshMids
    <3>2. \A k \in Mid : Acked(k)' => k <= lastMid
      BY <2>3 DEF Safe, FreshMids
    <3> QED
      BY <2>1, <2>4, <2>5, <3>1, <3>2 DEF Safe, FreshMids
  <2>9. QuietStart' /\ Cleared' \subseteq delivered'
    BY <2>1 DEF QuietStart, Preparing, Safe, Cleared
  <2>10. Carried'
    BY <2>1, <2>4, <2>6 DEF Safe, Carried
  <2>11. AckSound'
    <3>1. ASSUME NEW k \in Mid, Acked(k)', k # m.mid
          PROVE  /\ \A r \in Row : mid[r] = k => r \in delivered
                 /\ \A m1 \in out' : m1.mid = k => m1.rows \subseteq delivered
                 /\ \A t \in Uploader : InBooking(t) /\ umid[t] = k
                                           => urows[t] \subseteq delivered
      BY <2>3, <2>5, <3>1 DEF Safe, AckSound
    <3>2. /\ \A r \in Row : mid[r] = m.mid => r \in delivered'
          /\ \A m1 \in out' : m1.mid = m.mid => m1.rows \subseteq delivered'
          /\ \A t \in Uploader : InBooking(t) /\ umid[t] = m.mid
                                    => urows[t] \subseteq delivered'
      <4>1. m.mid # 0
        BY <2>2, SizeAssumption DEF Mid
      <4>2. ASSUME NEW r \in Row, mid[r] = m.mid
            PROVE  r \in delivered'
        BY <2>1, <2>7, <4>1, <4>2 DEF Safe, Carried, Session
      <4>3. ASSUME NEW m1 \in out', m1.mid = m.mid
            PROVE  m1.rows \subseteq delivered'
        BY <2>1, <2>2, <2>7, <4>3
      <4>4. ASSUME NEW t \in Uploader, InBooking(t), umid[t] = m.mid
            PROVE  urows[t] \subseteq delivered'
        BY <2>1, <2>7, <4>4 DEF Safe, Carried
      <4> QED
        BY <4>2, <4>3, <4>4
    <3> QED
      BY <2>1, <2>4, <3>1, <3>2 DEF AckSound
  <2> QED
    BY <2>8, <2>9, <2>10, <2>11 DEF Safe
<1>14. ASSUME NEW t \in Uploader, Query(t) \/ Check(t) \/ CompressFail(t)
       PROVE  Safe'
  <2>1. UNCHANGED <<dbVars, mhVars, netVars, brkVars, umid>>
    BY <1>14 DEF Query, Check, CompressFail
  <2>2. /\ upc' = [upc EXCEPT ![t] = upc'[t]]
        /\ upc'[t] \in {"idle", "query", "check", "send"}
    BY <1>14, TableAssumption
    DEF Query, Check, CompressFail, Goto, Continue, TypeInv, TypeOK
  <2>3. \A u \in Uploader : u # t => urows'[u] = urows[u]
    BY <1>14, TableAssumption DEF Query, Check, CompressFail, TypeInv, TypeOK
  <2>4. \A u \in Uploader : InBooking(u)' => InBooking(u) /\ urows'[u] = urows[u]
    BY <2>2, <2>3, TableAssumption DEF InBooking, TypeInv, TypeOK
  <2>5. \A k \in Mid : /\ DeletePending(k)' => DeletePending(k)
                       /\ Acked(k)' => Acked(k)
    BY <2>1 DEF DeletePending, Acked
  <2>6. FreshMids' /\ Carried' /\ AckSound' /\ QuietStart'
    BY <2>1, <2>4, <2>5, Unmoved, QuietUnmoved DEF Safe
  <2>7. Cleared' \subseteq delivered'
    BY <2>1 DEF Safe, Cleared
  <2> QED
    BY <2>6, <2>7 DEF Safe
<1>15. ASSUME NEW t \in Uploader, Send(t)
       PROVE  Safe'
  <2> DEFINE n == MidAfter(lastMid, 1)
             new == [mid |-> n, rows |-> urows[t], got |-> FALSE]
  <2>1. /\ upc[t] = "send" /\ lastMid' = n
        /\ out' = out \cup {new} \/ out' = out
        /\ UNCHANGED <<dbVars, mhVars, net, brkVars, urows>>
    BY <1>15 DEF Send
  <2>2. n = lastMid + 1 /\ lastMid \in Nat /\ n \in Mid
    <3>1. lastMid \in Nat /\ MaxMid \in Nat
      BY SizeAssumption DEF TypeInv, TypeOK
    <3>2. ~ Wraps(lastMid, 1)
      <4>1. Wraps(lastMid, 1) => "wrap" \in hazard'
        BY <1>15 DEF Send
      <4> QED
        BY <4>1 DEF Broken
    <3> QED
      BY <3>1, <3>2 DEF Wraps, MidAfter, Mid
  <2>3. \A u \in Uploader : InBooking(u)' =>
          \/ InBooking(u) /\ umid'[u] = umid[u]
          \/ /\ u = t /\ umid'[t] = n /\ new \in out'
             /\ net \in {"handshake", "up"}
    BY <1>15, TableAssumption
    DEF Send, Goto, InBooking, SocketOpen, TypeInv, TypeOK
  <2>4. \A k \in Mid : /\ DeletePending(k)' <=> DeletePending(k)
                       /\ Acked(k)' <=> Acked(k)
    BY <2>1 DEF DeletePending, Acked
  <2>5. ~ Acked(n) /\ \A m \in out : m.mid # n
    BY <2>2 DEF Safe, FreshMids
  <2>6. FreshMids'
    <3>1. /\ \A m \in out : m.mid \in Nat
          /\ \A u \in Uploader : umid[u] \in Nat
          /\ \A k \in Mid : k \in Nat
      BY TableAssumption, SizeAssumption DEF TypeInv, TypeOK, Message, Mid
    <3>2. \A m \in out' : m.mid <= lastMid'
      BY <2>1, <2>2, <3>1 DEF Safe, FreshMids
    <3>3. \A m1, m2 \in out' : m1.mid = m2.mid => m1 = m2
      <4>1. \A m \in out' : (m \in out /\ m.mid # n) \/ m = new
        BY <2>1, <2>5
      <4>2. new.mid = n
        OBVIOUS
      <4> QED
        BY <4>1, <4>2 DEF Safe, FreshMids
    <3>4. \A k \in Mid : Acked(k)' => k <= lastMid'
      BY <2>1, <2>2, <2>4, <3>1 DEF Safe, FreshMids
    <3>5. \A u \in Uploader : InBooking(u)' => umid'[u] <= lastMid'
      BY <2>1, <2>2, <2>3, <3>1 DEF Safe, FreshMids
    <3> QED
      BY <3>2, <3>3, <3>4, <3>5 DEF FreshMids
  <2>7. QuietStart'
    BY <2>1, <2>3, <2>4 DEF Safe, QuietStart, Preparing
  <2>8. Carried'
    <3>1. \A m \in out : m \in out'
      BY <2>1
    <3>2. ASSUME NEW u \in Uploader, InBooking(u)', NEW r \in urows[u]
          PROVE  r \in delivered \/ \E m \in out' : m.mid = umid'[u] /\ r \in m.rows
      <4>1. CASE InBooking(u) /\ umid'[u] = umid[u]
        BY <3>1, <3>2, <4>1 DEF Safe, Carried
      <4>2. CASE u = t /\ umid'[t] = n /\ new \in out'
        BY <3>2, <4>2
      <4> QED
        BY <2>3, <3>2, <4>1, <4>2
    <3> QED
      BY <2>1, <3>1, <3>2 DEF Safe, Carried
  <2>9. AckSound'
    <3>1. \A m \in out' : m \in out \/ m.mid = n
      BY <2>1
    <3> QED
      BY <2>1, <2>3, <2>4, <2>5, <3>1 DEF Safe, AckSound
  <2>10. Cleared' \subseteq delivered'
    BY <2>1 DEF Safe, Cleared
  <2> QED
    BY <2>6, <2>7, <2>8, <2>9, <2>10 DEF Safe
<1>16. ASSUME NEW t \in Uploader, UpdateMid(t)
       PROVE  Safe'
  <2>1. /\ InBooking(t)
        /\ UNCHANGED <<db, mhVars, netVars, brkVars, urows, umid>>
    BY <1>16 DEF UpdateMid, InBooking
  <2>2. \A r \in Row : \/ mid'[r] = mid[r]
                       \/ r \in urows[t] /\ mid'[r] = umid[t]
    BY <1>16 DEF UpdateMid
  <2>3. \A u \in Uploader : InBooking(u)' => InBooking(u)
    BY <1>16, <2>1, TableAssumption
    DEF UpdateMid, Goto, InBooking, TypeInv, TypeOK
  <2>4. \A k \in Mid : /\ DeletePending(k)' <=> DeletePending(k)
                       /\ Acked(k)' <=> Acked(k)
    BY <2>1 DEF DeletePending, Acked
  <2>5. FreshMids'
    BY <2>1, <2>3, <2>4 DEF Safe, FreshMids
  <2>6. QuietStart'
    BY <2>1 DEF Safe, QuietStart, Preparing
  <2>7. Carried'
    BY <2>1, <2>2, <2>3 DEF Safe, Carried
  <2>8. AckSound'
    BY <2>1, <2>2, <2>3, <2>4 DEF Safe, AckSound
  <2>9. Cleared' \subseteq delivered'
    BY <2>1 DEF Safe, Cleared
  <2> QED
    BY <2>5, <2>6, <2>7, <2>8, <2>9 DEF Safe
<1>17. ASSUME NEW t \in Uploader, Book(t)
       PROVE  Safe'
  <2>1. /\ InBooking(t) /\ umid[t] \in Mid /\ t \in Table
        /\ SetMidTable(umid[t], t)
        /\ UNCHANGED <<dbVars, cur, netVars, brkVars, urows, umid>>
    BY <1>17, TableAssumption DEF Book, InBooking, TypeInv, TypeOK
  <2>2. net \notin Preparing
    BY <2>1 DEF Safe, QuietStart
  <2>3. \A k \in Mid : Acked(k)' => Acked(k)
    BY <2>1, <2>2, SetMidTableAcked DEF TypeInv, Preparing
  <2>4. \A u \in Uploader : InBooking(u)' => InBooking(u) /\ urows'[u] = urows[u]
    BY <1>17, <2>1, TableAssumption
    DEF Book, Goto, Continue, InBooking, TypeInv, TypeOK
  <2>5. FreshMids' /\ Carried' /\ AckSound'
    BY <2>1, <2>3, <2>4, Unmoved DEF Safe
  <2>6. QuietStart' /\ Cleared' \subseteq delivered'
    BY <2>1, <2>2 DEF QuietStart, Preparing, Safe, Cleared
  <2> QED
    BY <2>5, <2>6 DEF Safe
<1>18. CASE Crash
  <2>1. /\ published' = {} /\ toDelete' = <<>> /\ mh' = "drain" /\ acks' = {}
        /\ net' = "init" /\ out' = {} /\ upc' = [t \in Table |-> "idle"]
        /\ UNCHANGED <<dbVars, delivered>>
    BY <1>18 DEF Crash
  <2>2. \A k \in Mid : ~ DeletePending(k)' /\ ~ Acked(k)'
    BY <2>1 DEF DeletePending, Acked
  <2>3. \A t \in Uploader : ~ InBooking(t)'
    BY <2>1, TableAssumption DEF InBooking
  <2>4. FreshMids' /\ AckSound'
    BY <2>1, <2>2, <2>3 DEF FreshMids, AckSound
  <2>5. QuietStart' /\ Carried' /\ Cleared' \subseteq delivered'
    BY <2>1, <2>2, <2>3
    DEF QuietStart, Preparing, Carried, Session, Safe, Cleared
  <2> QED
    BY <2>4, <2>5 DEF Safe
<1> QED
  BY <1>1, <1>2, <1>3, <1>4, <1>5, <1>6, <1>7, <1>8, <1>9, <1>10, <1>11,
     <1>12, <1>13, <1>14, <1>15, <1>16, <1>17, <1>18
  DEF Next, MidThread, InitClient, Loop, Upload

\* SafeBooking holds initially and every step keeps it.
LEMMA SafeInit == Init => SafeBooking
<1> SUFFICES ASSUME Init
             PROVE  acks = {} /\ Safe
  BY DEF SafeBooking, Safe
<1>1. \A k \in Mid : ~ DeletePending(k) /\ ~ Acked(k)
  BY DEF Init, DeletePending, Acked
<1>2. \A t \in Uploader : ~ InBooking(t)
  BY TableAssumption DEF Init, InBooking
<1>3. FreshMids /\ AckSound
  BY <1>1, <1>2 DEF Init, FreshMids, AckSound
<1>4. QuietStart /\ Carried /\ Cleared \subseteq delivered
  BY <1>2 DEF Init, QuietStart, Preparing, Carried, Session, Cleared
<1> QED
  BY <1>3, <1>4 DEF Init, Safe

\* Every step keeps the booking sound: what is acknowledged is delivered.
LEMMA SafeBookingStep == TypeInv /\ SafeBooking /\ [Next]_vars => SafeBooking'
<1> SUFFICES ASSUME TypeInv, SafeBooking, [Next]_vars
             PROVE  SafeBooking'
  OBVIOUS
<1>1. net' # "up" => acks' = {}
  BY AcksStep DEF SafeBooking
<1>2. ASSUME ~ Broken'
      PROVE  Safe'
  <2>1. Safe /\ (net # "up" => acks = {})
    BY <1>2, BrokenStep DEF SafeBooking, Safe
  <2> QED
    BY <1>2, <2>1, SafeStep
<1> QED
  BY <1>1, <1>2 DEF SafeBooking, Safe

\* The inductive invariant holds for every set of rows, every batch size, every
\* number of message ids and every choice of calls that may fail.
THEOREM BookingSafe == Spec => []SafeBooking
<1>1. Init => TypeInv /\ SafeBooking
  BY TypeInit, SafeInit
<1>2. (TypeInv /\ SafeBooking) /\ [Next]_vars => (TypeInv /\ SafeBooking)'
  BY TypeStep, SafeBookingStep
<1> QED
  BY <1>1, <1>2, PTL DEF Spec

\* At least once: a row deleted by delete_events_from_db, or marked as streamed,
\* has reached the broker, unless the book-keeping was disturbed.
THEOREM NothingLost == Spec => []NoLoss
<1>1. SafeBooking => NoLoss
  BY DEF SafeBooking, NoLoss
<1> QED
  BY BookingSafe, <1>1, PTL

-----------------------------------------------------------------------------
(* StreamUpload implements UploadContract                                  *)

\* Only rows of the data base are published.
Known == /\ \A m \in out : \A r \in m.rows : db[r] # "new"
         /\ \A t \in Uploader : \A r \in urows[t] : db[r] # "new"

\* Every step keeps it so: a query selects rows of the data base only.
LEMMA KnownStep == TypeInv /\ Known /\ [Next]_vars => Known'
<1> SUFFICES ASSUME TypeInv, Known, [Next]_vars
             PROVE  Known'
  OBVIOUS
<1> USE DEF dbVars, mhVars, netVars, brkVars, upVars
<1>1. \A r \in Row : db'[r] = "new" => db[r] = "new"
  <2>1. ASSUME NEW r \in Row, Insert(r)
        PROVE  \A q \in Row : db'[q] = "new" => db[q] = "new"
    BY <2>1 DEF Insert, TypeInv, TypeOK
  <2>2. CASE Delete
    BY <2>2 DEF Delete, Remove
  <2>3. CASE UNCHANGED db
    BY <2>3
  <2> QED
    BY <2>1, <2>2, <2>3
    DEF Next, MidThread, InitClient, Loop, Upload, Take, Park, SpuriousWake,
        Reinitialise, InitMidClearSet, InitMidClearMap, InitMidReset, Connect,
        ConnectFail, Connack, Refused, SocketLost, OnDisconnect, Reconnect,
        PubAck, Deliver, Query, Check, CompressFail, Send, UpdateMid, Book,
        Crash, vars
<1>2. \A m \in out : m.rows \subseteq Row
  BY DEF TypeInv, TypeOK, Message
<1>3. \A t \in Uploader : urows[t] \subseteq Row
  BY TableAssumption DEF TypeInv, TypeOK
<1>4. \A t \in Uploader : \A r \in urows'[t] : db'[r] # "new"
  <2>1. ASSUME NEW t \in Uploader, Query(t)
        PROVE  \A u \in Uploader : \A r \in urows'[u] : db'[r] # "new"
    <3>1. \A r \in Batch(Uploadable(t)) : db[r] = "stored"
      BY DEF Batch, Uploadable
    <3> QED
      BY <2>1, <3>1, TableAssumption DEF Query, Known, TypeInv, TypeOK
  <2>2. CASE Crash
    BY <2>2, TableAssumption DEF Crash
  <2>3. CASE UNCHANGED urows
    BY <1>1, <1>3, <2>3 DEF Known
  <2> QED
    BY <2>1, <2>2, <2>3
    DEF Next, MidThread, InitClient, Loop, Upload, Insert, Take, Park,
        SpuriousWake, Delete, Reinitialise, InitMidClearSet, InitMidClearMap,
        InitMidReset, Connect, ConnectFail, Connack, Refused, SocketLost,
        OnDisconnect, Reconnect, PubAck, Deliver, Check, CompressFail, Send,
        UpdateMid, Book, vars
<1>5. \A m \in out' : \A r \in m.rows : db'[r] # "new"
  <2>1. ASSUME NEW t \in Uploader, Send(t)
        PROVE  \A m \in out' : \A r \in m.rows : db'[r] # "new"
    <3>1. \A m \in out' : m \in out \/ m.rows = urows[t]
      BY <2>1 DEF Send
    <3> QED
      BY <2>1, <3>1 DEF Send, Known
  <2>2. ASSUME NEW m \in out, Deliver(m)
        PROVE  \A m1 \in out' : \A r \in m1.rows : db'[r] # "new"
    <3>1. [m EXCEPT !.got = TRUE].rows = m.rows
      BY DEF TypeInv, TypeOK, Message
    <3> QED
      BY <2>2, <3>1 DEF Deliver, Known
  <2>3. CASE out' \subseteq out
    BY <1>1, <1>2, <2>3 DEF Known
  <2> QED
    BY <2>1, <2>2, <2>3
    DEF Next, MidThread, InitClient, Loop, Upload, Insert, Take, Park,
        SpuriousWake, Delete, Reinitialise, InitMidClearSet, InitMidClearMap,
        InitMidReset, Connect, ConnectFail, Connack, Refused, SocketLost,
        OnDisconnect, Reconnect, PubAck, Query, Check, CompressFail,
        UpdateMid, Book, Crash, vars
<1> QED
  BY <1>4, <1>5 DEF Known

\* Every step is a step of the contract, or moves no row.
LEMMA ContractStep ==
  ASSUME TypeInv, SafeBooking, Known, [Next]_vars
  PROVE  [Contract!ANext]_(Contract!avars)
<1> USE DEF dbVars, mhVars, netVars, brkVars, upVars
<1> DEFINE stored == {r \in Row : db[r] = "stored"}
<1>1. ASSUME NEW r \in Row, Insert(r)
      PROVE  Contract!Accept
  <2>1. r \in Row \ (stored \cup Cleared)
    BY <1>1 DEF Insert, Cleared
  <2>2. stored' = stored \cup {r} /\ Cleared' = Cleared
    BY <1>1 DEF Insert, Cleared, TypeInv, TypeOK
  <2>3. delivered' = delivered /\ Broken' = Broken
    BY <1>1 DEF Insert, Broken
  <2> QED
    BY <2>1, <2>2, <2>3 DEF Contract!Accept
<1>2. CASE Delete
  <2> DEFINE S == stored \ stored'
  <2>1. delivered' = delivered /\ Broken' = Broken
    BY <1>2 DEF Delete, Broken
  <2>2. \A r \in Row : \/ db'[r] = db[r]
                       \/ /\ r \in Marked(cur.mid, cur.table)
                          /\ db'[r] \in {"streamed", "gone"}
    BY <1>2 DEF Delete, Remove, TypeInv, TypeOK
  <2>3. stored' = stored \ S /\ Cleared' = Cleared \cup S
    BY <2>2 DEF Cleared, Marked
  <2>4. Broken \/ S \subseteq delivered
    <3>1. S \subseteq Cleared'
      BY <2>3
    <3>2. ~ Broken => Cleared' \subseteq delivered
      BY <2>1, SafeBookingStep DEF SafeBooking
    <3> QED
      BY <3>1, <3>2
  <2>5. S \in SUBSET stored
    OBVIOUS
  <2>6. Contract!Clear
    BY <2>1, <2>3, <2>4, <2>5 DEF Contract!Clear
  <2> QED
    BY <2>6 DEF Contract!ANext
<1>3. ASSUME NEW m \in out, Deliver(m)
      PROVE  Contract!Receive
  <2>1. m.rows \in SUBSET (stored \cup Cleared)
    BY DEF Known, Cleared, TypeInv, TypeOK, Message
  <2>2. /\ delivered' = delivered \cup m.rows
        /\ stored' = stored /\ Cleared' = Cleared /\ Broken' = Broken
    BY <1>3 DEF Deliver, Cleared, Broken
  <2> QED
    BY <2>1, <2>2 DEF Contract!Receive
<1>4. CASE UNCHANGED <<db, delivered>>
  <2>1. stored' = stored /\ Cleared' = Cleared /\ delivered' = delivered
    BY <1>4 DEF Cleared
  <2>2. CASE Broken'
    <3>1. Broken' = TRUE
      BY <2>2 DEF Broken
    <3>2. Contract!Break
      BY <2>1, <3>1 DEF Contract!Break
    <3> QED
      BY <3>2 DEF Contract!ANext
  <2>3. CASE ~ Broken'
    <3>1. Broken' = Broken
      BY <2>3, BrokenStep DEF Broken
    <3>2. UNCHANGED Contract!avars
      BY <2>1, <3>1 DEF Contract!avars
    <3> QED
      BY <3>2
  <2> QED
    BY <2>2, <2>3
<1> QED
  BY <1>1, <1>2, <1>3, <1>4
  DEF Next, MidThread, InitClient, Loop, Upload, Take, Park, SpuriousWake,
      Reinitialise, InitMidClearSet, InitMidClearMap, InitMidReset, Connect,
      ConnectFail, Connack, Refused, SocketLost, OnDisconnect, Reconnect,
      PubAck, Query, Check, CompressFail, Send, UpdateMid, Book, Crash, vars,
      Contract!ANext

\* The uploader, with its threads, message ids and sessions, implements the
\* contract: rows leave the upload only after the broker has them.
THEOREM Implements == Spec => Refines
<1>1. Init => Known
  BY TableAssumption DEF Init, Known, Table
<1>2. Init => Contract!AInit
  BY DEF Init, Contract!AInit, Cleared, Broken
<1>3. Init => TypeInv /\ SafeBooking /\ Known
  BY <1>1, TypeInit, SafeInit
<1>4. (TypeInv /\ SafeBooking /\ Known) /\ [Next]_vars
        => (TypeInv /\ SafeBooking /\ Known)'
  BY TypeStep, SafeBookingStep, KnownStep
<1>5. (TypeInv /\ SafeBooking /\ Known) /\ [Next]_vars
        => [Contract!ANext]_(Contract!avars)
  BY ContractStep
<1> QED
  BY <1>2, <1>3, <1>4, <1>5, PTL DEF Spec, Refines, Contract!ASpec
=============================================================================
