----------------------- MODULE StreamUploadOnce_proofs ----------------------
(***************************************************************************)
(* No row twice: while nothing is disturbed and every publish is booked, a  *)
(* row of StreamUpload is in one message at a time, and before the first    *)
(* loss the broker gets it from one message only.  And no row is forgotten: *)
(* the id that a row carries is always one that somebody will still book.  *)
(***************************************************************************)
EXTENDS StreamUpload_proofs

Clean == ~ Broken /\ "orphan" \notin hazard

\* The thread that sent row r under id n has still to mark it.
AboutToMark(r, n) == /\ TableOf(r) \in Uploader
                     /\ upc[TableOf(r)] = "update"
                     /\ umid[TableOf(r)] = n
                     /\ r \in urows[TableOf(r)]

\* The acknowledgement of n was taken: it is noted or queued for deletion.
Consumed(n) == \/ n \in published /\ net # "clearSet"
               \/ DeletePending(n)

\* A row in a message carries the id of that message, or soon will.
Marks == \A m \in out : \A r \in m.rows : mid[r] = m.mid \/ AboutToMark(r, m.mid)

\* A batch in hand is still to be uploaded, and belongs to its thread.
InHand == \A t \in Uploader : upc[t] \in {"check", "send", "update"} =>
            \A r \in urows[t] : mid[r] = 0 /\ db[r] = "stored" /\ TableOf(r) = t

\* An id is acknowledged once, and a session starts with no message.
OutSound == /\ \A n \in Mid : Consumed(n) => \A m \in out : m.mid # n
            /\ net \in Preparing => out = {}

Once == Marks /\ InHand /\ OutSound

\* Until the first loss: what the broker has is not uploadable again, and what
\* was not sent to it yet is new to it.
FirstTime ==
  breaks = 0 =>
    /\ net # "up" => delivered = {}
    /\ \A r \in delivered : \/ db[r] \notin {"new", "stored"}
                            \/ db[r] = "stored" /\ mid[r] # 0
                            \/ db[r] = "stored" /\ AboutToMark(r, umid[TableOf(r)])
    /\ \A m \in out : m.got \/ m.rows \cap delivered = {}
    /\ dup = {}

OnceInv == Clean => Once /\ FirstTime

-----------------------------------------------------------------------------
\* What the types say of messages, batches and threads.
LEMMA Objects ==
  ASSUME TypeInv
  PROVE  /\ \A m \in out : m.mid \in Mid /\ m.rows \subseteq Row
         /\ \A t \in Uploader : t \in Table /\ urows[t] \subseteq Row
         /\ 0 \notin Mid
  BY TableAssumption, SizeAssumption DEF TypeInv, TypeOK, Message, Mid

\* A disturbance and an unbooked publish are never forgotten.
LEMMA CleanStep ==
  ASSUME [Next]_vars, Clean'
  PROVE  Clean
<1>1. hazard \subseteq hazard'
  BY DEF Next, MidThread, InitClient, Loop, Upload, Insert, Take, Park,
         SpuriousWake, Delete, Reinitialise, InitMidClearSet, InitMidClearMap,
         InitMidReset, Connect, ConnectFail, Connack, Refused, SocketLost,
         OnDisconnect, Reconnect, PubAck, Deliver, Query, Check, CompressFail,
         Send, UpdateMid, Book, Crash, vars
<1> QED
  BY <1>1 DEF Clean, Broken

\* Different messages carry different rows.
LEMMA Single ==
  ASSUME TypeInv, Safe, Once
  PROVE  \A m1, m2 \in out : m1 # m2 => m1.rows \cap m2.rows = {}
<1> SUFFICES ASSUME NEW m1 \in out, NEW m2 \in out, m1 # m2,
                    NEW r \in m1.rows, r \in m2.rows
             PROVE  FALSE
  OBVIOUS
<1>1. m1.mid # m2.mid /\ m1.mid # 0 /\ m2.mid # 0
  BY Objects DEF Safe, FreshMids
<1>2. /\ mid[r] = m1.mid \/ AboutToMark(r, m1.mid)
      /\ mid[r] = m2.mid \/ AboutToMark(r, m2.mid)
  BY DEF Once, Marks
<1>3. ASSUME NEW n, AboutToMark(r, n)
      PROVE  mid[r] = 0
  BY <1>3 DEF AboutToMark, Once, InHand
<1>4. AboutToMark(r, m1.mid) /\ AboutToMark(r, m2.mid) => m1.mid = m2.mid
  BY DEF AboutToMark
<1> QED
  BY <1>1, <1>2, <1>3, <1>4

\* A step that sends and marks nothing, and takes the acknowledgement only of
\* what leaves the messages.
LEMMA OnceKept ==
  ASSUME Once, \A m \in out : m.rows \subseteq Row,
         \A t \in Uploader : urows[t] \subseteq Row,
         UNCHANGED <<mid, upc, umid, urows>>,
         \A r \in Row : db[r] = "stored" => db'[r] = "stored",
         \A m1 \in out' : \E m2 \in out : m1.mid = m2.mid /\ m1.rows = m2.rows,
         \A k \in Mid : Consumed(k)' => Consumed(k) \/ \A m \in out' : m.mid # k,
         net' \in Preparing => net \in Preparing \/ out' = {}
  PROVE  Once'
<1>1. \A r, n : AboutToMark(r, n)' <=> AboutToMark(r, n)
  BY DEF AboutToMark
<1>2. Marks'
  BY <1>1 DEF Once, Marks
<1>3. InHand'
  BY DEF Once, InHand
<1>4. OutSound'
  <2>1. ASSUME NEW k \in Mid, Consumed(k)', NEW m \in out'
        PROVE  m.mid # k
    BY <2>1 DEF Once, OutSound
  <2>2. net' \in Preparing => out' = {}
    BY DEF Once, OutSound
  <2> QED
    BY <2>1, <2>2 DEF OutSound
<1> QED
  BY <1>2, <1>3, <1>4 DEF Once

\* The same when no message is left: only the batches in hand matter.
LEMMA OnceEmpty ==
  ASSUME InHand', out' = {}
  PROVE  Once'
BY DEF Once, Marks, OutSound

\* Every action keeps messages, marks and batches apart.
LEMMA OnceStep ==
  ASSUME TypeInv, Safe, Once, [Next]_vars, Clean'
  PROVE  Once'
<1> USE DEF dbVars, mhVars, netVars, brkVars, upVars
<1>0. ~ Broken' /\ "orphan" \notin hazard'
  BY DEF Clean
<1>1. ASSUME NEW r \in Row, Insert(r)
      PROVE  Once'
  <2>1. /\ UNCHANGED <<mid, mhVars, netVars, brkVars, upVars>>
        /\ \A q \in Row : db[q] = "stored" => db'[q] = "stored"
    BY <1>1 DEF Insert, TypeInv, TypeOK
  <2>2. \A k \in Mid : Consumed(k)' => Consumed(k)
    BY <2>1 DEF Consumed, DeletePending
  <2> QED
    BY <2>1, <2>2, Objects, OnceKept
<1>2. CASE Take \/ Park \/ SpuriousWake
  <2>1. \A k \in Mid : DeletePending(k)' => DeletePending(k)
    BY <1>2, TakePending DEF Park, SpuriousWake, DeletePending, TypeInv
  <2>2. UNCHANGED <<dbVars, published, midTable, netVars, brkVars, upVars>>
    BY <1>2 DEF Take, Park, SpuriousWake
  <2>3. \A k \in Mid : Consumed(k)' => Consumed(k)
    BY <2>1, <2>2 DEF Consumed
  <2> QED
    BY <2>2, <2>3, Objects, OnceKept
<1>3. CASE Delete
  <2>1. /\ mh = "delete" /\ mh' = "drain" /\ cur \in Entry
        /\ UNCHANGED <<published, toDelete, cur, netVars, brkVars, upVars>>
    BY <1>3 DEF Delete, TypeInv, TypeOK
  <2>2. cur.mid \in Mid /\ DeletePending(cur.mid)
    BY <2>1 DEF Entry, DeletePending
  <2>3. \A r \in Row : mid[r] # cur.mid => mid'[r] = mid[r] /\ db'[r] = db[r]
    BY <1>3 DEF Delete, Remove, Marked, TypeInv, TypeOK
  <2>4. \A m \in out : m.mid # cur.mid
    BY <2>2 DEF Once, OutSound, Consumed
  <2>5. \A k \in Mid : Consumed(k)' => Consumed(k)
    BY <2>1 DEF Consumed, DeletePending
  <2>6. \A r, n : AboutToMark(r, n)' <=> AboutToMark(r, n)
    BY <2>1 DEF AboutToMark
  <2>7. Marks'
    BY <2>1, <2>3, <2>4, <2>6, Objects DEF Once, Marks
  <2>8. InHand'
    BY <2>1, <2>2, <2>3, Objects DEF Once, InHand
  <2>9. OutSound'
    BY <2>1, <2>5 DEF Once, OutSound
  <2> QED
    BY <2>7, <2>8, <2>9 DEF Once
<1>4. CASE Reinitialise
  <2>1. out' = {} /\ UNCHANGED <<dbVars, upVars>>
    BY <1>4 DEF Reinitialise
  <2>2. InHand'
    BY <2>1 DEF Once, InHand
  <2> QED
    BY <2>1, <2>2, OnceEmpty
<1>5. CASE InitMidClearSet \/ InitMidClearMap
  <2>1. net \in Preparing /\ UNCHANGED <<dbVars, out, upVars>>
    BY <1>5 DEF InitMidClearSet, InitMidClearMap, Preparing
  <2>2. out' = {} /\ InHand'
    BY <2>1 DEF Once, OutSound, InHand
  <2> QED
    BY <2>2, OnceEmpty
<1>6. ASSUME NEW t \in Table, InitMidReset(t)
      PROVE  Once'
  <2>1. /\ net \in Preparing /\ UNCHANGED <<db, out, upVars>>
        /\ \A r \in Row : mid'[r] = mid[r] \/ mid'[r] = 0
    BY <1>6 DEF InitMidReset, Preparing
  <2>2. out' = {} /\ InHand'
    BY <2>1, Objects DEF Once, OutSound, InHand
  <2> QED
    BY <2>2, OnceEmpty
<1>7. CASE \/ Connect \/ ConnectFail \/ Connack \/ Refused \/ SocketLost
           \/ OnDisconnect \/ Reconnect \/ UNCHANGED vars
  <2>1. /\ UNCHANGED <<dbVars, mhVars, out, upVars>>
        /\ net' = "clearSet" => net = "clearSet"
        /\ net = "clearSet" => net' = "clearSet"
        /\ net' \in Preparing => net \in Preparing
    BY <1>7 DEF Connect, ConnectFail, Connack, Refused, SocketLost,
                OnDisconnect, Reconnect, vars, Preparing
  <2>2. \A k \in Mid : Consumed(k)' => Consumed(k)
    BY <2>1 DEF Consumed, DeletePending
  <2> QED
    BY <2>1, <2>2, Objects, OnceKept
<1>8. ASSUME NEW n \in Mid, PubAck(n)
      PROVE  Once'
  <2>1. /\ net = "up" /\ UNCHANGED <<dbVars, cur, net, upVars>>
        /\ out' \subseteq out
    BY <1>8 DEF PubAck
  <2>2. \A m \in out' : m.mid # n
    BY <1>8 DEF PubAck, Safe, FreshMids
  <2>3. ASSUME NEW k \in Mid, Consumed(k)'
        PROVE  Consumed(k) \/ k = n
    <3>1. CASE ClearMid(n, midTable[n]) /\ midTable[n] # None
               /\ published' = published
      <4>1. midTable[n] \in Table
        BY <3>1 DEF TypeInv, TypeOK
      <4> QED
        BY <2>1, <2>3, <3>1, <4>1, ClearMidPending DEF Consumed, TypeInv
    <3>2. CASE published' \subseteq published \cup {n}
               /\ UNCHANGED <<toDelete, mh>>
      BY <2>1, <2>3, <3>2 DEF Consumed, DeletePending
    <3> QED
      BY <1>8, <3>1, <3>2 DEF PubAck, ProcessPublishedMid
  <2> QED
    BY <2>1, <2>2, <2>3, Objects, OnceKept DEF Preparing
<1>9. ASSUME NEW m \in out, Deliver(m)
      PROVE  Once'
  <2> DEFINE mm == [m EXCEPT !.got = TRUE]
  <2>1. /\ out' = (out \ {m}) \cup {mm}
        /\ UNCHANGED <<dbVars, mhVars, net, lastMid, upVars>>
    BY <1>9 DEF Deliver
  <2>2. mm.mid = m.mid /\ mm.rows = m.rows
    BY DEF TypeInv, TypeOK, Message
  <2>3. \A m1 \in out' : \E m2 \in out : m1.mid = m2.mid /\ m1.rows = m2.rows
    BY <2>1, <2>2
  <2>4. \A k \in Mid : Consumed(k)' => Consumed(k)
    BY <2>1 DEF Consumed, DeletePending
  <2> QED
    BY <2>1, <2>3, <2>4, Objects, OnceKept
<1>10. ASSUME NEW t \in Uploader, Query(t) \/ Check(t) \/ CompressFail(t)
       PROVE  Once'
  <2>1. UNCHANGED <<dbVars, mhVars, netVars, brkVars, umid>>
    BY <1>10 DEF Query, Check, CompressFail
  <2>2. /\ upc' = [upc EXCEPT ![t] = upc'[t]]
        /\ upc'[t] \in {"idle", "query", "check", "send"}
        /\ upc[t] \in {"idle", "query", "check"}
        /\ upc'[t] = "send" => upc[t] = "check" /\ urows' = urows
    BY <1>10, TableAssumption
    DEF Query, Check, CompressFail, Goto, Continue, TypeInv, TypeOK
  <2>3. \A u \in Uploader : u # t => urows'[u] = urows[u]
    BY <1>10, TableAssumption DEF Query, Check, CompressFail, TypeInv, TypeOK
  <2>4. \A u \in Uploader : u # t => upc'[u] = upc[u]
    BY <2>2, TableAssumption DEF TypeInv, TypeOK
  <2>5. upc'[t] = "check" => urows'[t] = Batch(Uploadable(t))
    BY <1>10, <2>2, TableAssumption
    DEF Query, Check, CompressFail, Goto, Continue, TypeInv, TypeOK
  <2>6. \A r, n : AboutToMark(r, n) => AboutToMark(r, n)'
    BY <2>1, <2>2, <2>3, <2>4 DEF AboutToMark, TableOf
  <2>7. Marks'
    BY <2>1, <2>6 DEF Once, Marks
  <2>8. InHand'
    <3>1. ASSUME NEW u \in Uploader, upc'[u] \in {"check", "send", "update"},
                 NEW r \in urows'[u]
          PROVE  mid'[r] = 0 /\ db'[r] = "stored" /\ TableOf(r) = u
      <4>1. CASE u # t
        BY <2>1, <2>3, <2>4, <3>1, <4>1 DEF Once, InHand
      <4>2. CASE u = t /\ upc'[t] = "check"
        BY <2>1, <2>5, <3>1, <4>2 DEF Batch, Uploadable
      <4>3. CASE u = t /\ upc'[t] = "send"
        BY <2>1, <2>2, <3>1, <4>3 DEF Once, InHand
      <4> QED
        BY <2>2, <3>1, <4>1, <4>2, <4>3
    <3> QED
      BY <3>1 DEF InHand, TableOf
  <2>9. OutSound'
    <3>1. \A k \in Mid : Consumed(k)' => Consumed(k)
      BY <2>1 DEF Consumed, DeletePending
    <3> QED
      BY <2>1, <3>1 DEF Once, OutSound
  <2> QED
    BY <2>7, <2>8, <2>9 DEF Once
<1>11. ASSUME NEW t \in Uploader, Send(t)
       PROVE  Once'
  <2> DEFINE n == MidAfter(lastMid, 1)
             new == [mid |-> n, rows |-> urows[t], got |-> FALSE]
  <2>1. /\ upc[t] = "send" /\ UNCHANGED <<dbVars, mhVars, net, brkVars, urows>>
        /\ \/ /\ out' = out \cup {new} /\ net \in {"handshake", "up"}
              /\ upc' = [upc EXCEPT ![t] = "update"]
              /\ umid' = [umid EXCEPT ![t] = n]
           \/ out' = out /\ upc' = [upc EXCEPT ![t] = "idle"] /\ umid' = umid
    BY <1>0, <1>11 DEF Send, Goto, SocketOpen
  <2>2. n \in Mid /\ n > lastMid /\ lastMid \in Nat
    <3>1. lastMid \in Nat /\ MaxMid \in Nat
      BY SizeAssumption DEF TypeInv, TypeOK
    <3>2. ~ Wraps(lastMid, 1)
      <4>1. Wraps(lastMid, 1) => "wrap" \in hazard'
        BY <1>11 DEF Send
      <4> QED
        BY <1>0, <4>1 DEF Broken
    <3> QED
      BY <3>1, <3>2 DEF Wraps, MidAfter, Mid
  <2>3. \A k \in Mid : Consumed(k) => Acked(k)
    BY DEF Consumed, Acked
  <2>4. ~ Consumed(n)
    BY <2>2, <2>3 DEF Safe, FreshMids, Mid
  <2>5. \A k \in Mid : Consumed(k)' => Consumed(k)
    BY <2>1 DEF Consumed, DeletePending
  <2>6. \A u \in Uploader \ {t} : upc'[u] = upc[u] /\ umid'[u] = umid[u]
    BY <2>1, Objects DEF TypeInv, TypeOK
  <2>7. ASSUME NEW r, NEW k, AboutToMark(r, k)
        PROVE  AboutToMark(r, k)'
    <3>1. TableOf(r) \in Uploader \ {t}
      BY <2>1, <2>7 DEF AboutToMark
    <3> QED
      BY <2>1, <2>6, <2>7, <3>1 DEF AboutToMark, TableOf
  <2>8. Marks'
    <3>1. ASSUME NEW m \in out', NEW r \in m.rows
          PROVE  mid'[r] = m.mid \/ AboutToMark(r, m.mid)'
      <4>1. CASE m \in out
        BY <2>1, <2>7, <3>1, <4>1 DEF Once, Marks
      <4>2. CASE m = new /\ out' # out
        <5>1. TableOf(r) = t /\ r \in urows[t]
          BY <2>1, <3>1, <4>2 DEF Once, InHand
        <5>2. upc'[t] = "update" /\ umid'[t] = n
          BY <2>1, <4>2, Objects DEF TypeInv, TypeOK
        <5> QED
          BY <2>1, <4>2, <5>1, <5>2 DEF AboutToMark, TableOf
      <4> QED
        BY <2>1, <3>1, <4>1, <4>2
    <3> QED
      BY <3>1 DEF Marks
  <2>9. InHand'
    BY <2>1, <2>6 DEF Once, InHand, TableOf
  <2>10. OutSound'
    <3>1. net' \in Preparing => out' = {}
      BY <2>1 DEF Once, OutSound, Preparing
    <3>2. ASSUME NEW k \in Mid, Consumed(k)', NEW m \in out'
          PROVE  m.mid # k
      <4>1. m \in out \/ m = new
        BY <2>1, <3>2
      <4> QED
        BY <2>4, <2>5, <3>2, <4>1 DEF Once, OutSound
    <3> QED
      BY <3>1, <3>2 DEF OutSound
  <2> QED
    BY <2>8, <2>9, <2>10 DEF Once
<1>12. ASSUME NEW t \in Uploader, UpdateMid(t)
       PROVE  Once'
  <2>1. /\ upc[t] = "update" /\ upc' = [upc EXCEPT ![t] = "set"]
        /\ mid' = [r \in Row |-> IF r \in urows[t] /\ db[r] # "gone"
                                 THEN umid[t] ELSE mid[r]]
        /\ UNCHANGED <<db, mhVars, netVars, brkVars, urows, umid>>
    BY <1>0, <1>12 DEF UpdateMid, Goto
  <2>2. \A r \in urows[t] : /\ r \in Row /\ mid[r] = 0 /\ db[r] = "stored"
                            /\ TableOf(r) = t /\ mid'[r] = umid[t]
    BY <2>1, Objects DEF Once, InHand
  <2>3. \A r \in Row : r \notin urows[t] => mid'[r] = mid[r]
    BY <2>1
  <2>4. \A u \in Uploader \ {t} : upc'[u] = upc[u]
    BY <2>1, Objects DEF TypeInv, TypeOK
  <2>5. Marks'
    <3>1. ASSUME NEW m \in out, NEW r \in m.rows
          PROVE  mid'[r] = m.mid \/ AboutToMark(r, m.mid)'
      <4>1. r \in Row /\ m.mid # 0
        BY <3>1, Objects
      <4>2. mid[r] = m.mid \/ AboutToMark(r, m.mid)
        BY <3>1 DEF Once, Marks
      <4>3. CASE r \in urows[t]
        BY <2>2, <4>1, <4>2, <4>3 DEF AboutToMark
      <4>4. CASE r \notin urows[t]
        <5>1. AboutToMark(r, m.mid) => TableOf(r) \in Uploader \ {t}
          BY <4>4 DEF AboutToMark
        <5>2. AboutToMark(r, m.mid) => AboutToMark(r, m.mid)'
          BY <2>1, <2>4, <5>1 DEF AboutToMark, TableOf
        <5> QED
          BY <2>3, <4>1, <4>2, <4>4, <5>2
      <4> QED
        BY <4>3, <4>4
    <3> QED
      BY <2>1, <3>1 DEF Marks
  <2>6. InHand'
    <3>1. ASSUME NEW u \in Uploader, upc'[u] \in {"check", "send", "update"},
                 NEW r \in urows[u]
          PROVE  mid'[r] = 0 /\ db'[r] = "stored" /\ TableOf(r) = u
      <4>1. u # t
        BY <2>1, <3>1, Objects DEF TypeInv, TypeOK
      <4>2. mid[r] = 0 /\ db[r] = "stored" /\ TableOf(r) = u /\ r \in Row
        BY <2>4, <3>1, <4>1, Objects DEF Once, InHand
      <4> QED
        BY <2>1, <2>2, <2>3, <4>1, <4>2
    <3> QED
      BY <2>1, <3>1 DEF InHand, TableOf
  <2>7. OutSound'
    <3>1. \A k \in Mid : Consumed(k)' => Consumed(k)
      BY <2>1 DEF Consumed, DeletePending
    <3> QED
      BY <2>1, <3>1 DEF Once, OutSound
  <2> QED
    BY <2>5, <2>6, <2>7 DEF Once
<1>13. ASSUME NEW t \in Uploader, Book(t)
       PROVE  Once'
  <2>1. /\ InBooking(t) /\ upc[t] = "set" /\ umid[t] \in Mid /\ t \in Table
        /\ SetMidTable(umid[t], t)
        /\ UNCHANGED <<dbVars, cur, netVars, brkVars, urows, umid>>
    BY <1>13, TableAssumption DEF Book, InBooking, TypeInv, TypeOK
  <2>2. net \notin Preparing
    BY <2>1 DEF Safe, QuietStart
  <2>3. /\ \A u \in Uploader \ {t} : upc'[u] = upc[u]
        /\ upc'[t] \in {"query", "idle"}
    BY <1>13, <2>1, Objects DEF Book, Goto, Continue, TypeInv, TypeOK
  <2>4. ASSUME NEW k \in Mid, Consumed(k)'
        PROVE  Consumed(k)
    <3>1. CASE umid[t] \in published /\ ClearMid(umid[t], t)
               /\ published' = published \ {umid[t]}
      BY <2>1, <2>2, <2>4, <3>1, ClearMidPending
      DEF Consumed, TypeInv, Preparing
    <3>2. CASE UNCHANGED <<published, toDelete, mh>>
      BY <2>1, <2>4, <3>2 DEF Consumed, DeletePending
    <3> QED
      BY <2>1, <3>1, <3>2 DEF SetMidTable
  <2>5. \A r, k : AboutToMark(r, k) => AboutToMark(r, k)'
    BY <2>1, <2>3 DEF AboutToMark, TableOf
  <2>6. Marks' /\ InHand'
    BY <2>1, <2>3, <2>5 DEF Once, Marks, InHand, TableOf
  <2>7. OutSound'
    BY <2>1, <2>4 DEF Once, OutSound
  <2> QED
    BY <2>6, <2>7 DEF Once
<1>14. CASE Crash
  <2>1. out' = {} /\ \A t \in Uploader : upc'[t] = "idle"
    BY <1>14, TableAssumption DEF Crash
  <2>2. InHand'
    BY <2>1 DEF InHand
  <2> QED
    BY <2>1, <2>2, OnceEmpty
<1> QED
  BY <1>1, <1>2, <1>3, <1>4, <1>5, <1>6, <1>7, <1>8, <1>9, <1>10, <1>11,
     <1>12, <1>13, <1>14
  DEF Next, MidThread, InitClient, Loop, Upload

\* Until the first loss the broker gets each row from one message.
LEMMA FirstStep ==
  ASSUME TypeInv, Known, Safe, Once, FirstTime, [Next]_vars, Clean'
  PROVE  FirstTime'
<1> USE DEF dbVars, mhVars, netVars, brkVars, upVars
<1>0. SUFFICES ASSUME breaks' = 0
               PROVE  /\ net' # "up" => delivered' = {}
                      /\ \A r \in delivered' :
                           \/ db'[r] \notin {"new", "stored"}
                           \/ db'[r] = "stored" /\ mid'[r] # 0
                           \/ /\ db'[r] = "stored"
                              /\ AboutToMark(r, umid[TableOf(r)])'
                      /\ \A m \in out' : m.got \/ m.rows \cap delivered' = {}
                      /\ dup' = {}
  BY DEF FirstTime
<1>a. "orphan" \notin hazard'
  BY DEF Clean
<1>b. breaks \in Nat /\ MaxBreak \in Nat
  BY SizeAssumption DEF TypeInv, TypeOK
<1>c. delivered \subseteq Row
  BY DEF TypeInv, TypeOK
<1>1. ASSUME UNCHANGED <<mid, upVars, delivered, dup, breaks>>, out' \subseteq out,
             \A r \in Row : db[r] # "new" => db'[r] = db[r],
             net' # "up" => net # "up"
      PROVE  FirstTime'
  <2>1. \A r : AboutToMark(r, umid[TableOf(r)])' <=> AboutToMark(r, umid[TableOf(r)])
    BY <1>1 DEF AboutToMark, TableOf
  <2>2. \A r \in delivered : db[r] # "new" /\ r \in Row
    BY <1>0, <1>1, <1>c DEF FirstTime
  <2> QED
    BY <1>0, <1>1, <2>1, <2>2 DEF FirstTime
<1>2. ASSUME net # "up", UNCHANGED <<delivered, dup, breaks>>
      PROVE  FirstTime'
  BY <1>0, <1>2 DEF FirstTime
<1>3. ASSUME NEW r \in Row, Insert(r)
      PROVE  FirstTime'
  <2>1. \A q \in Row : db[q] # "new" => db'[q] = db[q]
    BY <1>3 DEF Insert, TypeInv, TypeOK
  <2> QED
    BY <1>1, <1>3, <2>1 DEF Insert
<1>4. CASE Delete
  <2>1. UNCHANGED <<netVars, brkVars, upVars, breaks>>
    BY <1>4 DEF Delete
  <2>2. \A r \in Row : \/ db'[r] = db[r] /\ mid'[r] = mid[r]
                       \/ db'[r] \in {"streamed", "gone"}
    BY <1>4 DEF Delete, Remove, TypeInv, TypeOK
  <2>3. \A r : AboutToMark(r, umid[TableOf(r)])' <=> AboutToMark(r, umid[TableOf(r)])
    BY <2>1 DEF AboutToMark, TableOf
  <2> QED
    BY <1>0, <1>c, <2>1, <2>2, <2>3 DEF FirstTime
<1>5. ASSUME \/ Take \/ Park \/ SpuriousWake \/ Reinitialise \/ InitMidClearSet
             \/ InitMidClearMap \/ Connect \/ ConnectFail \/ Connack \/ Refused
             \/ OnDisconnect \/ Reconnect \/ (\E t \in Table : InitMidReset(t))
      PROVE  FirstTime'
  <2>1. CASE Take \/ Park \/ SpuriousWake
    BY <1>1, <2>1 DEF Take, Park, SpuriousWake
  <2>2. CASE Reinitialise \/ InitMidClearSet \/ InitMidClearMap
    BY <1>2, <2>2 DEF Reinitialise, InitMidClearSet, InitMidClearMap
  <2>3. CASE \E t \in Table : InitMidReset(t)
    BY <1>2, <2>3 DEF InitMidReset
  <2>4. CASE \/ Connect \/ ConnectFail \/ Connack \/ Refused \/ OnDisconnect
             \/ Reconnect
    BY <1>2, <2>4
    DEF Connect, ConnectFail, Connack, Refused, OnDisconnect, Reconnect
  <2> QED
    BY <1>5, <2>1, <2>2, <2>3, <2>4
<1>6. CASE SocketLost \/ Crash
  BY <1>0, <1>6, <1>b DEF SocketLost, Crash
<1>7. ASSUME NEW n \in Mid, PubAck(n)
      PROVE  FirstTime'
  BY <1>1, <1>7 DEF PubAck
<1>8. ASSUME NEW m \in out, Deliver(m)
      PROVE  FirstTime'
  <2> DEFINE mm == [m EXCEPT !.got = TRUE]
  <2>1. /\ net = "up" /\ out' = (out \ {m}) \cup {mm}
        /\ delivered' = delivered \cup m.rows
        /\ dup' = IF m.got THEN dup ELSE dup \cup (m.rows \cap delivered)
        /\ UNCHANGED <<dbVars, mhVars, net, lastMid, upVars, breaks>>
    BY <1>8 DEF Deliver
  <2>2. mm.got = TRUE
    BY DEF TypeInv, TypeOK, Message
  <2>3. \A r : AboutToMark(r, umid[TableOf(r)])' <=> AboutToMark(r, umid[TableOf(r)])
    BY <2>1 DEF AboutToMark, TableOf
  <2>4. dup' = {}
    BY <1>0, <2>1 DEF FirstTime
  <2>5. ASSUME NEW m1 \in out', ~ m1.got
        PROVE  m1.rows \cap delivered' = {}
    <3>1. m1 \in out /\ m1 # m
      BY <2>1, <2>2, <2>5
    <3>2. m1.rows \cap m.rows = {}
      BY <3>1, Single
    <3> QED
      BY <1>0, <2>1, <2>5, <3>1, <3>2 DEF FirstTime
  <2>6. ASSUME NEW r \in m.rows
        PROVE  \/ db[r] \notin {"new", "stored"}
               \/ db[r] = "stored" /\ mid[r] # 0
               \/ db[r] = "stored" /\ AboutToMark(r, umid[TableOf(r)])
    <3>1. mid[r] = m.mid \/ AboutToMark(r, m.mid)
      BY DEF Once, Marks
    <3>2. AboutToMark(r, m.mid) => AboutToMark(r, umid[TableOf(r)])
      BY DEF AboutToMark
    <3>3. m.mid # 0 /\ db[r] # "new"
      BY Objects DEF Known
    <3> QED
      BY <3>1, <3>2, <3>3
  <2> QED
    BY <1>0, <2>1, <2>3, <2>4, <2>5, <2>6 DEF FirstTime
<1>9. ASSUME NEW t \in Uploader,
             Query(t) \/ Check(t) \/ CompressFail(t) \/ Book(t)
      PROVE  FirstTime'
  <2>1. /\ UNCHANGED <<dbVars, netVars, brkVars, umid, breaks>>
        /\ upc[t] # "update"
    BY <1>9 DEF Query, Check, CompressFail, Book
  <2>2. \A u \in Uploader \ {t} : upc'[u] = upc[u] /\ urows'[u] = urows[u]
    BY <1>9, Objects DEF Query, Check, CompressFail, Book, Goto, TypeInv, TypeOK
  <2>3. ASSUME NEW r, AboutToMark(r, umid[TableOf(r)])
        PROVE  AboutToMark(r, umid[TableOf(r)])'
    <3>1. TableOf(r) \in Uploader \ {t}
      BY <2>1, <2>3 DEF AboutToMark
    <3> QED
      BY <2>1, <2>2, <2>3, <3>1 DEF AboutToMark, TableOf
  <2> QED
    BY <1>0, <2>1, <2>3 DEF FirstTime
<1>10. ASSUME NEW t \in Uploader, Send(t)
       PROVE  FirstTime'
  <2> DEFINE n == MidAfter(lastMid, 1)
             new == [mid |-> n, rows |-> urows[t], got |-> FALSE]
  <2>1. /\ upc[t] = "send" /\ out' \in {out, out \cup {new}}
        /\ UNCHANGED <<dbVars, mhVars, net, brkVars, urows, breaks>>
    BY <1>10 DEF Send
  <2>2. \A u \in Uploader \ {t} : upc'[u] = upc[u] /\ umid'[u] = umid[u]
    BY <1>10, Objects DEF Send, Goto, TypeInv, TypeOK
  <2>3. ASSUME NEW r, AboutToMark(r, umid[TableOf(r)])
        PROVE  AboutToMark(r, umid[TableOf(r)])' /\ TableOf(r) # t
    <3>1. TableOf(r) \in Uploader \ {t}
      BY <2>1, <2>3 DEF AboutToMark
    <3> QED
      BY <2>1, <2>2, <2>3, <3>1 DEF AboutToMark, TableOf
  <2>4. ASSUME NEW r \in urows[t]
        PROVE  r \notin delivered
    <3>1. mid[r] = 0 /\ db[r] = "stored" /\ TableOf(r) = t
      BY <2>1 DEF Once, InHand
    <3> QED
      BY <1>0, <2>1, <2>3, <3>1 DEF FirstTime
  <2>5. \A m \in out' : m.got \/ m.rows \cap delivered = {}
    BY <1>0, <2>1, <2>4 DEF FirstTime
  <2> QED
    BY <1>0, <2>1, <2>3, <2>5 DEF FirstTime
<1>11. ASSUME NEW t \in Uploader, UpdateMid(t)
       PROVE  FirstTime'
  <2>1. /\ upc[t] = "update" /\ upc' = [upc EXCEPT ![t] = "set"]
        /\ mid' = [r \in Row |-> IF r \in urows[t] /\ db[r] # "gone"
                                 THEN umid[t] ELSE mid[r]]
        /\ UNCHANGED <<db, mhVars, netVars, brkVars, urows, umid, breaks>>
    BY <1>a, <1>11 DEF UpdateMid, Goto
  <2>2. umid[t] # 0
    BY Objects DEF TypeInv, TypeOK
  <2>3. \A u \in Uploader \ {t} : upc'[u] = upc[u]
    BY <2>1, Objects DEF TypeInv, TypeOK
  <2>4. ASSUME NEW r \in delivered, db[r] = "stored"
        PROVE  mid'[r] # 0 \/ AboutToMark(r, umid[TableOf(r)])'
    <3>1. r \in Row
      BY <1>c
    <3>2. CASE r \in urows[t]
      BY <2>1, <2>2, <2>4, <3>1, <3>2
    <3>3. CASE r \notin urows[t] /\ mid[r] # 0
      BY <2>1, <3>1, <3>3
    <3>4. CASE r \notin urows[t] /\ AboutToMark(r, umid[TableOf(r)])
      <4>1. TableOf(r) \in Uploader \ {t}
        BY <3>4 DEF AboutToMark
      <4> QED
        BY <2>1, <2>3, <3>4, <4>1 DEF AboutToMark, TableOf
    <3> QED
      BY <1>0, <2>1, <2>4, <3>2, <3>3, <3>4 DEF FirstTime
  <2> QED
    BY <1>0, <2>1, <2>4 DEF FirstTime
<1>12. ASSUME UNCHANGED vars
       PROVE  FirstTime'
  BY <1>1, <1>12 DEF vars
<1> QED
  BY <1>0, <1>3, <1>4, <1>5, <1>6, <1>7, <1>8, <1>9, <1>10, <1>11, <1>12
  DEF Next, MidThread, InitClient, Loop, Upload, FirstTime

\* All parts of the invariant together.
AllInv == TypeInv /\ SafeBooking /\ Known /\ OnceInv

\* Nothing is stored, sent or delivered at the start.
LEMMA AllInit == Init => AllInv
<1> SUFFICES ASSUME Init
             PROVE  AllInv
  OBVIOUS
<1>1. Known
  BY TableAssumption DEF Init, Known, Table
<1>2. \A n \in Mid : ~ Consumed(n)
  BY DEF Init, Consumed, DeletePending
<1>3. Once
  BY <1>2, TableAssumption DEF Init, Once, Marks, InHand, OutSound
<1>4. FirstTime
  BY DEF Init, FirstTime
<1> QED
  BY <1>1, <1>3, <1>4, TypeInit, SafeInit DEF AllInv, OnceInv

\* Every step keeps the invariant.
LEMMA AllStep == AllInv /\ [Next]_vars => AllInv'
<1> SUFFICES ASSUME AllInv, [Next]_vars
             PROVE  AllInv'
  OBVIOUS
<1>1. TypeInv' /\ SafeBooking' /\ Known'
  BY TypeStep, SafeBookingStep, KnownStep DEF AllInv
<1>2. ASSUME Clean'
      PROVE  Once' /\ FirstTime'
  <2>1. Clean /\ TypeInv /\ Known /\ Once /\ FirstTime
    BY <1>2, CleanStep DEF AllInv, OnceInv
  <2>2. Safe
    BY <2>1 DEF Clean, AllInv, SafeBooking, Safe
  <2> QED
    BY <1>2, <2>1, <2>2, OnceStep, FirstStep
<1> QED
  BY <1>1, <1>2 DEF AllInv, OnceInv

\* While every publish is booked, a row whose message is under way is in no
\* second message, whichever threads publish and whatever fails.
THEOREM OneMessagePerRow == Spec => []NoRowInFlightTwice
<1>1. AllInv => NoRowInFlightTwice
  <2> SUFFICES ASSUME AllInv, Clean
               PROVE  \A m1, m2 \in out : m1 # m2 => m1.rows \cap m2.rows = {}
    BY DEF NoRowInFlightTwice, Clean
  <2>1. TypeInv /\ Once /\ Safe
    BY DEF AllInv, OnceInv, Clean, SafeBooking, Safe
  <2> QED
    BY <2>1, Single
<1> QED
  BY <1>1, AllInit, AllStep, PTL DEF Spec

\* Before the first loss of a connection or the process the broker gets no row
\* in two messages: what update_mid marked is not selected again.
THEOREM NoNeedlessRepeat == Spec => []OnlyLossesRepeat
<1>1. AllInv => OnlyLossesRepeat
  BY DEF AllInv, OnceInv, Clean, FirstTime, OnlyLossesRepeat
<1> QED
  BY <1>1, AllInit, AllStep, PTL DEF Spec

-----------------------------------------------------------------------------
(* No mark lost: what carries a MID is tracked, while Put and DELETE work.  *)

\* The MID of row r is about to be booked by the thread of its table.
ToBook(r) == /\ TableOf(r) \in Uploader
             /\ upc[TableOf(r)] = "set"
             /\ umid[TableOf(r)] = mid[r]

\* The MID of row r is queued for deletion or being deleted.
ToDelete(r) == \/ \E i \in DOMAIN toDelete :
                    toDelete[i].mid = mid[r] /\ toDelete[i].table = TableOf(r)
               \/ mh = "delete" /\ cur.mid = mid[r] /\ cur.table = TableOf(r)

\* Somebody will make something of the MID of row r.
Tracked(r) == \/ /\ \E m \in out : m.mid = mid[r] /\ r \in m.rows
                 /\ midTable[mid[r]] = TableOf(r) \/ ToBook(r)
              \/ ToBook(r) /\ mid[r] \in published
              \/ ToDelete(r)

\* A publish being booked is in no table yet; its message is under way or was
\* acknowledged early. The threads book different ids.
Bookings ==
  /\ \A t \in Uploader : InBooking(t) =>
       /\ midTable[umid[t]] = None
       /\ \/ umid[t] \in published
          \/ \E m \in out : m.mid = umid[t] /\ m.rows = urows[t]
  /\ \A t, u \in Uploader : InBooking(t) /\ InBooking(u) /\ umid[t] = umid[u] => t = u

\* A thread has rows of its own table in hand; ids come from this session.
OwnRows == \A t \in Uploader : \A r \in urows[t] : TableOf(r) = t
OwnIds == net \in Session \cup {"resetAlert", "resetEvent"} =>
            \A n \in Mid : midTable[n] # None => n <= lastMid

\* Only rows of the data base are marked.
NewUnmarked == \A r \in Row : db[r] = "new" => mid[r] = 0

\* An acknowledged id belongs to no message.
AckedGone == \A n \in Mid : Consumed(n) => \A m \in out : m.mid # n

MarkInv == /\ Bookings /\ OwnRows /\ OwnIds /\ NewUnmarked /\ AckedGone
           /\ net \in Session =>
                \A r \in Row : db[r] = "stored" /\ mid[r] # 0 => Tracked(r)

Reliable == Faults \cap {"put", "delete"} = {}

\* A step that changes neither messages nor bookings and tracks what it did.
LEMMA MarkKept ==
  ASSUME TypeInv, MarkInv, UNCHANGED <<mid, midTable, upVars, published>>,
         lastMid \in Nat, lastMid' \in Nat, lastMid <= lastMid',
         \A m1 \in out : \E m2 \in out' : m1.mid = m2.mid /\ m1.rows = m2.rows,
         \A m1 \in out' : \E m2 \in out : m1.mid = m2.mid /\ m1.rows = m2.rows,
         \A k \in Mid : Consumed(k)' => Consumed(k),
         net' \in Session => net \in Session,
         net' \in {"resetAlert", "resetEvent"} =>
           net \in {"resetAlert", "resetEvent"},
         \A r \in Row : db'[r] = "new" => db[r] = "new",
         \A r \in Row : db'[r] = "stored" => db[r] = "stored" \/ mid[r] = 0,
         \A r \in Row : db'[r] = "stored" /\ ToDelete(r) => ToDelete(r)'
  PROVE  MarkInv'
<1> USE DEF upVars
<1>1. \A t \in Uploader : InBooking(t)' <=> InBooking(t)
  BY DEF InBooking
<1>2. Bookings'
  BY <1>1 DEF MarkInv, Bookings
<1>3. OwnRows' /\ NewUnmarked'
  BY DEF MarkInv, OwnRows, NewUnmarked, TableOf
<1>4. OwnIds'
  <2>1. \A n \in Mid : n \in Nat
    BY SizeAssumption DEF Mid
  <2> QED
    BY <2>1 DEF MarkInv, OwnIds
<1>5. AckedGone'
  BY DEF MarkInv, AckedGone
<1>6. ASSUME net' \in Session, NEW r \in Row, db'[r] = "stored", mid'[r] # 0
      PROVE  Tracked(r)'
  <2>1. Tracked(r)
    BY <1>6 DEF MarkInv
  <2>2. ToBook(r)' <=> ToBook(r)
    BY DEF ToBook, TableOf
  <2> QED
    BY <1>6, <2>1, <2>2 DEF Tracked, TableOf
<1> QED
  BY <1>2, <1>3, <1>4, <1>5, <1>6 DEF MarkInv

\* A step into the start of a session, where no publish is being booked.
LEMMA MarkStart ==
  ASSUME MarkInv, UNCHANGED <<dbVars, urows>>, net' \notin Session,
         \A t \in Uploader : ~ InBooking(t)', OwnIds', AckedGone'
  PROVE  MarkInv'
<1>1. Bookings' /\ OwnRows' /\ NewUnmarked'
  BY DEF MarkInv, Bookings, OwnRows, NewUnmarked, TableOf, dbVars
<1> QED
  BY <1>1 DEF MarkInv

\* Every action keeps what carries a MID tracked, while Put and DELETE work.
LEMMA MarkStep ==
  ASSUME TypeInv, Safe, Known, MarkInv, [Next]_vars, ~ Broken', Reliable
  PROVE  MarkInv'
<1> USE DEF dbVars, mhVars, netVars, brkVars, upVars
<1>a. lastMid \in Nat
  BY SizeAssumption DEF TypeInv, TypeOK
<1>b. /\ \A r \in Row : mid[r] \in 0 .. MaxMid
      /\ \A r \in Row : mid[r] # 0 => mid[r] \in Mid
  BY SizeAssumption DEF TypeInv, TypeOK, Mid
<1>c. \A k \in Mid : Consumed(k) => Acked(k)
  BY DEF Consumed, Acked
<1>1. ASSUME NEW r \in Row, Insert(r)
      PROVE  MarkInv'
  <2>1. /\ UNCHANGED <<mid, mhVars, netVars, brkVars, upVars>>
        /\ db[r] = "new" /\ db' = [db EXCEPT ![r] = "stored"]
    BY <1>1 DEF Insert
  <2>2. /\ \A k \in Mid : Consumed(k)' => Consumed(k)
        /\ \A q \in Row : ToDelete(q) => ToDelete(q)'
    BY <2>1 DEF Consumed, DeletePending, ToDelete, TableOf
  <2>3. /\ \A q \in Row : db'[q] = "new" => db[q] = "new"
        /\ \A q \in Row : db'[q] = "stored" => db[q] = "stored" \/ mid[q] = 0
    BY <2>1 DEF TypeInv, TypeOK, MarkInv, NewUnmarked
  <2> QED
    BY <1>a, <2>1, <2>2, <2>3, MarkKept
<1>2. CASE Take \/ Park \/ SpuriousWake
  <2>1. \A k \in Mid : DeletePending(k)' => DeletePending(k)
    BY <1>2, TakePending DEF Park, SpuriousWake, DeletePending, TypeInv
  <2>2. UNCHANGED <<dbVars, published, midTable, netVars, brkVars, upVars>>
    BY <1>2 DEF Take, Park, SpuriousWake
  <2>3. \A k \in Mid : Consumed(k)' => Consumed(k)
    BY <2>1, <2>2 DEF Consumed
  <2>4. ASSUME NEW r \in Row, ToDelete(r)
        PROVE  ToDelete(r)'
    <3>1. CASE Take /\ toDelete # <<>>
      <4>1. /\ toDelete \in Seq(Entry) /\ cur' = Head(toDelete) /\ mh' = "delete"
            /\ toDelete' = Tail(toDelete) /\ mh # "delete"
        BY <3>1 DEF Take, TypeInv, TypeOK
      <4>2. PICK i \in DOMAIN toDelete :
                  toDelete[i].mid = mid[r] /\ toDelete[i].table = TableOf(r)
        BY <2>4, <4>1 DEF ToDelete
      <4>3. i = 1 => cur' = toDelete[i]
        BY <3>1, <4>1, <4>2
      <4>4. i # 1 => i - 1 \in DOMAIN toDelete' /\ toDelete'[i - 1] = toDelete[i]
        BY <3>1, <4>1, <4>2
      <4> QED
        BY <2>2, <4>1, <4>2, <4>3, <4>4 DEF ToDelete, TableOf
    <3>2. CASE UNCHANGED toDelete /\ mh # "delete"
      BY <2>2, <2>4, <3>2 DEF ToDelete, TableOf
    <3> QED
      BY <1>2, <3>1, <3>2 DEF Take, Park, SpuriousWake
  <2> QED
    BY <1>a, <2>2, <2>3, <2>4, MarkKept
<1>3. CASE Delete
  <2> DEFINE hit == Marked(cur.mid, cur.table)
             keep == hit \cap BatchRow
  <2>1. /\ mh = "delete" /\ mh' = "drain"
        /\ UNCHANGED <<published, midTable, toDelete, cur, netVars, brkVars, upVars>>
        /\ db' = [r \in Row |-> CASE r \in keep -> "streamed"
                                  [] r \in hit \ keep -> "gone"
                                  [] OTHER -> db[r]]
        /\ mid' = [r \in Row |-> IF r \in hit \ keep THEN 0 ELSE mid[r]]
    BY <1>3 DEF Delete, Reliable
  <2>2. \A k \in Mid : Consumed(k)' => Consumed(k)
    BY <2>1 DEF Consumed, DeletePending
  <2>3. \A r \in Row : r \notin hit => db'[r] = db[r] /\ mid'[r] = mid[r]
    BY <2>1 DEF TypeInv, TypeOK
  <2>4. \A r \in hit : db'[r] \in {"streamed", "gone"}
    BY <2>1 DEF Marked
  <2>5. \A t \in Uploader : InBooking(t)' <=> InBooking(t)
    BY <2>1 DEF InBooking
  <2>6. Bookings' /\ OwnRows' /\ OwnIds' /\ AckedGone'
    BY <2>1, <2>2, <2>5
    DEF MarkInv, Bookings, OwnRows, OwnIds, AckedGone, TableOf
  <2>7. NewUnmarked'
    BY <2>3, <2>4 DEF MarkInv, NewUnmarked
  <2>8. ASSUME net' \in Session, NEW r \in Row, db'[r] = "stored", mid'[r] # 0
        PROVE  Tracked(r)'
    <3>1. r \notin hit /\ db[r] = "stored" /\ mid'[r] = mid[r] /\ mid[r] # 0
      BY <2>3, <2>4, <2>8
    <3>2. Tracked(r)
      BY <2>1, <2>8, <3>1 DEF MarkInv
    <3>3. ~ (cur.mid = mid[r] /\ cur.table = TableOf(r))
      BY <3>1 DEF Marked
    <3>4. ToDelete(r) => ToDelete(r)'
      BY <2>1, <3>1, <3>3 DEF ToDelete, TableOf
    <3>5. ToBook(r)' <=> ToBook(r)
      BY <2>1, <3>1 DEF ToBook, TableOf
    <3> QED
      BY <2>1, <3>1, <3>2, <3>4, <3>5 DEF Tracked, TableOf
  <2> QED
    BY <2>6, <2>7, <2>8 DEF MarkInv
<1>4. CASE Reinitialise
  <2>1. (\A t \in Uploader : ~ InBooking(t)) /\ toDelete = <<>> /\ mh # "delete"
    BY <1>4 DEF Reinitialise, Broken, Booking, Pending
  <2>2. /\ net' = "clearSet" /\ out' = {} /\ UNCHANGED <<dbVars, upVars>>
    BY <1>4 DEF Reinitialise
  <2>3. OwnIds' /\ AckedGone' /\ \A t \in Uploader : ~ InBooking(t)'
    BY <2>1, <2>2 DEF OwnIds, AckedGone, InBooking, Session
  <2> QED
    BY <2>2, <2>3, MarkStart DEF Session
<1>5. CASE InitMidClearSet
  <2>1. toDelete' = toDelete /\ mh' = mh
    BY <1>5, NothingBoth
  <2>2. /\ net = "clearSet" /\ net' = "clearMap" /\ published' = {}
        /\ UNCHANGED <<dbVars, cur, out, upVars>>
    BY <1>5 DEF InitMidClearSet
  <2>3. \A k \in Mid : Consumed(k)' => Consumed(k)
    BY <2>1, <2>2 DEF Consumed, DeletePending
  <2>4. OwnIds' /\ AckedGone'
    BY <2>2, <2>3 DEF MarkInv, OwnIds, AckedGone, Session
  <2>5. \A t \in Uploader : ~ InBooking(t)'
    BY <2>2 DEF Safe, QuietStart, Preparing, InBooking
  <2> QED
    BY <2>2, <2>4, <2>5, MarkStart DEF Session
<1>6. CASE InitMidClearMap
  <2>1. /\ net = "clearMap" /\ net' = "resetAlert"
        /\ midTable' = [n \in Mid |-> None]
        /\ UNCHANGED <<dbVars, published, toDelete, mh, cur, out, upVars>>
    BY <1>6 DEF InitMidClearMap
  <2>2. \A k \in Mid : Consumed(k)' => Consumed(k)
    BY <2>1 DEF Consumed, DeletePending
  <2>3. OwnIds' /\ AckedGone'
    BY <2>1, <2>2 DEF MarkInv, OwnIds, AckedGone
  <2>4. \A t \in Uploader : ~ InBooking(t)'
    BY <2>1 DEF Safe, QuietStart, Preparing, InBooking
  <2> QED
    BY <2>1, <2>3, <2>4, MarkStart DEF Session
<1>7. ASSUME NEW t \in Table, InitMidReset(t)
      PROVE  MarkInv'
  <2>1. mid' = [r \in Row |-> IF TableOf(r) = t THEN 0 ELSE mid[r]]
    BY <1>7 DEF InitMidReset, Broken
  <2>2. /\ net \in {"resetAlert", "resetEvent"}
        /\ UNCHANGED <<db, mhVars, lastMid, out, upVars>>
        /\ net = "resetAlert" => net' = "resetEvent"
        /\ net = "resetEvent" => t # "alert" /\ net' = "connect"
    BY <1>7 DEF InitMidReset, Table
  <2>3. \A k \in Mid : Consumed(k)' => Consumed(k)
    BY <2>2 DEF Consumed, DeletePending
  <2>4. \A u \in Uploader : ~ InBooking(u)'
    BY <2>2 DEF Safe, QuietStart, Preparing, InBooking
  <2>5. Bookings' /\ OwnRows' /\ NewUnmarked'
    BY <2>1, <2>2, <2>4
    DEF MarkInv, Bookings, OwnRows, NewUnmarked, TableOf
  <2>6. OwnIds' /\ AckedGone'
    BY <2>2, <2>3 DEF MarkInv, OwnIds, AckedGone
  <2>7. net' \in Session => \A r \in Row : mid'[r] = 0
    BY <2>1, <2>2 DEF Safe, QuietStart, Session, TableOf, Table
  <2> QED
    BY <2>5, <2>6, <2>7 DEF MarkInv
<1>8. CASE \/ Connect \/ ConnectFail \/ Connack \/ Refused \/ SocketLost
           \/ OnDisconnect \/ Reconnect \/ UNCHANGED vars
  <2>1. /\ UNCHANGED <<dbVars, mhVars, out, upVars>>
        /\ net' = "clearSet" <=> net = "clearSet"
        /\ net' \in Session => net \in Session
        /\ net' \in {"resetAlert", "resetEvent"} =>
             net \in {"resetAlert", "resetEvent"}
    BY <1>8 DEF Connect, ConnectFail, Connack, Refused, SocketLost,
                OnDisconnect, Reconnect, vars, Session
  <2>2. \A k \in Mid : Consumed(k)' => Consumed(k)
    BY <2>1 DEF Consumed, DeletePending
  <2>3. lastMid' = lastMid \/ lastMid' = lastMid + Topics
    <3>1. CASE Connack
      BY <3>1 DEF Connack, MidAfter, Wraps, Broken
    <3>2. CASE \/ Connect \/ ConnectFail \/ Refused \/ SocketLost
               \/ OnDisconnect \/ Reconnect \/ UNCHANGED vars
      BY <3>2 DEF Connect, ConnectFail, Refused, SocketLost, OnDisconnect,
                  Reconnect, vars
    <3> QED
      BY <1>8, <3>1, <3>2
  <2>4. lastMid' \in Nat /\ lastMid <= lastMid'
    BY <1>a, <2>3, SizeAssumption
  <2>5. \A r \in Row : ToDelete(r) => ToDelete(r)'
    BY <2>1 DEF ToDelete, TableOf
  <2> QED
    BY <1>a, <2>1, <2>2, <2>4, <2>5, MarkKept
<1>9. ASSUME NEW m \in out, Deliver(m)
      PROVE  MarkInv'
  <2> DEFINE mm == [m EXCEPT !.got = TRUE]
  <2>1. /\ out' = (out \ {m}) \cup {mm}
        /\ UNCHANGED <<dbVars, mhVars, net, lastMid, upVars>>
    BY <1>9 DEF Deliver
  <2>2. mm.mid = m.mid /\ mm.rows = m.rows
    BY DEF TypeInv, TypeOK, Message
  <2>3. /\ \A m1 \in out' : \E m2 \in out : m1.mid = m2.mid /\ m1.rows = m2.rows
        /\ \A m1 \in out : \E m2 \in out' : m1.mid = m2.mid /\ m1.rows = m2.rows
    BY <2>1, <2>2
  <2>4. /\ \A k \in Mid : Consumed(k)' => Consumed(k)
        /\ \A r \in Row : ToDelete(r) => ToDelete(r)'
    BY <2>1 DEF Consumed, DeletePending, ToDelete, TableOf
  <2> QED
    BY <1>a, <2>1, <2>3, <2>4, MarkKept
<1>10. ASSUME NEW n \in Mid, PubAck(n)
       PROVE  MarkInv'
  <2>1. /\ net = "up" /\ UNCHANGED <<dbVars, cur, net, lastMid, upVars>>
        /\ out' \subseteq out
    BY <1>10 DEF PubAck
  <2>2. \A m \in out' : m.mid # n
    BY <1>10 DEF PubAck, Safe, FreshMids
  <2>3. \A m \in out \ out' : m.mid = n
    BY <1>10 DEF PubAck
  <2>4. \A t \in Uploader : InBooking(t)' <=> InBooking(t)
    BY <2>1 DEF InBooking
  <2>5. CASE UNCHANGED <<out, published, midTable, toDelete, mh>>
    <3>1. /\ \A k \in Mid : Consumed(k)' => Consumed(k)
          /\ \A r \in Row : ToDelete(r) => ToDelete(r)'
      BY <2>1, <2>5 DEF Consumed, DeletePending, ToDelete, TableOf
    <3> QED
      BY <1>a, <2>1, <2>5, <3>1, MarkKept
  <2>6. CASE /\ midTable[n] # None /\ ClearMid(n, midTable[n])
             /\ midTable' = [midTable EXCEPT ![n] = None] /\ published' = published
    <3>1. midTable[n] \in Table /\ toDelete \in Seq(Entry)
      BY <2>6 DEF TypeInv, TypeOK
    <3>2. /\ toDelete' = Append(toDelete, [mid |-> n, table |-> midTable[n]])
          /\ mh' = "delete" <=> mh = "delete"
      BY <2>6 DEF ClearMid, Reliable
    <3>3. ASSUME NEW k \in Mid, Consumed(k)'
          PROVE  Consumed(k) \/ k = n
      BY <2>1, <2>6, <3>1, <3>3, ClearMidPending DEF Consumed, TypeInv
    <3>4. \A t \in Uploader : InBooking(t) => umid[t] # n
      BY <2>6 DEF MarkInv, Bookings
    <3>5. \A k \in Mid : k # n => midTable'[k] = midTable[k]
      BY <2>6 DEF TypeInv, TypeOK
    <3>6. Bookings'
      BY <2>1, <2>3, <2>4, <2>6, <3>4, <3>5, TableAssumption
      DEF MarkInv, Bookings, TypeInv, TypeOK
    <3>7. OwnRows' /\ NewUnmarked' /\ AckedGone'
      BY <2>1, <2>2, <3>3 DEF MarkInv, OwnRows, NewUnmarked, AckedGone, TableOf
    <3>8. OwnIds'
      BY <2>1, <2>6, <3>5 DEF MarkInv, OwnIds, TypeInv, TypeOK
    <3>9. ASSUME NEW r \in Row, db[r] = "stored", mid[r] # 0
          PROVE  Tracked(r)'
      <4>1. Tracked(r) /\ mid[r] \in Mid
        BY <1>b, <2>1, <3>9 DEF MarkInv, Session
      <4>2. ToBook(r)' <=> ToBook(r)
        BY <2>1 DEF ToBook, TableOf
      <4>3. /\ \A i \in DOMAIN toDelete :
                 i \in DOMAIN toDelete' /\ toDelete'[i] = toDelete[i]
            /\ Len(toDelete) + 1 \in DOMAIN toDelete'
            /\ toDelete'[Len(toDelete) + 1] = [mid |-> n, table |-> midTable[n]]
        BY <3>1, <3>2 DEF Entry
      <4>4. CASE ToDelete(r)
        BY <2>1, <3>2, <4>3, <4>4 DEF ToDelete, Tracked, TableOf
      <4>5. CASE ToBook(r) /\ mid[r] \in published
        BY <2>6, <4>2, <4>5, <2>1 DEF Tracked, TableOf
      <4>6. CASE /\ \E m \in out : m.mid = mid[r] /\ r \in m.rows
                 /\ midTable[mid[r]] = TableOf(r) \/ ToBook(r)
                 /\ mid[r] # n
        <5>1. \E m \in out' : m.mid = mid[r] /\ r \in m.rows
          BY <2>3, <4>6
        <5> QED
          BY <2>1, <3>5, <4>1, <4>2, <4>6, <5>1 DEF Tracked, TableOf
      <4>7. CASE mid[r] = n /\ (midTable[n] = TableOf(r) \/ ToBook(r))
        <5>1. ToBook(r) => umid[TableOf(r)] = n /\ InBooking(TableOf(r))
                           /\ TableOf(r) \in Uploader
          BY <4>7 DEF ToBook, InBooking
        <5>2. midTable[n] = TableOf(r)
          BY <3>4, <4>7, <5>1
        <5>3. ToDelete(r)'
          BY <2>1, <4>3, <4>7, <5>2 DEF ToDelete, TableOf
        <5> QED
          BY <5>3 DEF Tracked
      <4> QED
        BY <4>1, <4>4, <4>5, <4>6, <4>7 DEF Tracked
    <3> QED
      BY <2>1, <3>6, <3>7, <3>8, <3>9 DEF MarkInv
  <2>7. CASE /\ midTable[n] = None /\ published' = published \cup {n}
             /\ UNCHANGED <<midTable, toDelete, mh>>
    <3>1. \A k \in Mid : Consumed(k)' => Consumed(k) \/ k = n
      BY <2>1, <2>7 DEF Consumed, DeletePending
    <3>2. Bookings'
      <4>1. ASSUME NEW t \in Uploader, InBooking(t)
            PROVE  \/ umid[t] \in published'
                   \/ \E m \in out' : m.mid = umid[t] /\ m.rows = urows[t]
        BY <2>3, <2>7, <4>1 DEF MarkInv, Bookings
      <4> QED
        BY <2>1, <2>4, <2>7, <4>1 DEF MarkInv, Bookings
    <3>3. OwnRows' /\ NewUnmarked' /\ AckedGone' /\ OwnIds'
      BY <2>1, <2>2, <2>7, <3>1
      DEF MarkInv, OwnRows, NewUnmarked, AckedGone, OwnIds, TableOf
    <3>4. ASSUME NEW r \in Row, db[r] = "stored", mid[r] # 0
          PROVE  Tracked(r)'
      <4>1. Tracked(r) /\ mid[r] \in Mid
        BY <1>b, <2>1, <3>4 DEF MarkInv, Session
      <4>2. (ToBook(r)' <=> ToBook(r)) /\ (ToDelete(r)' <=> ToDelete(r))
        BY <2>1, <2>7 DEF ToBook, ToDelete, TableOf
      <4>3. CASE mid[r] = n
        <5>1. midTable[mid[r]] # TableOf(r)
          BY <2>7, <4>3 DEF TableOf, None
        <5> QED
          BY <2>1, <2>7, <4>1, <4>2, <4>3, <5>1 DEF Tracked, TableOf
      <4>4. CASE mid[r] # n
        BY <2>1, <2>3, <2>7, <4>1, <4>2, <4>4 DEF Tracked, TableOf
      <4> QED
        BY <4>3, <4>4
    <3> QED
      BY <2>1, <3>2, <3>3, <3>4 DEF MarkInv
  <2> QED
    BY <1>10, <2>5, <2>6, <2>7 DEF PubAck, ProcessPublishedMid
<1>11. ASSUME NEW t \in Uploader, Query(t) \/ Check(t) \/ CompressFail(t)
       PROVE  MarkInv'
  <2>1. /\ UNCHANGED <<dbVars, mhVars, netVars, brkVars, umid>>
        /\ upc[t] \notin {"update", "set"}
    BY <1>11 DEF Query, Check, CompressFail
  <2>2. /\ \A u \in Uploader \ {t} : upc'[u] = upc[u] /\ urows'[u] = urows[u]
        /\ upc'[t] \notin {"update", "set"}
        /\ urows'[t] \in {urows[t], {}, Batch(Uploadable(t))}
    BY <1>11, Objects
    DEF Query, Check, CompressFail, Goto, Continue, TypeInv, TypeOK
  <2>3. \A u \in Uploader : InBooking(u)' => InBooking(u) /\ u # t
    BY <2>1, <2>2 DEF InBooking
  <2>4. Bookings'
    BY <2>1, <2>2, <2>3 DEF MarkInv, Bookings
  <2>5. OwnRows'
    <3>1. \A r \in Batch(Uploadable(t)) : TableOf(r) = t
      BY DEF Batch, Uploadable
    <3> QED
      BY <2>1, <2>2, <3>1 DEF MarkInv, OwnRows, TableOf
  <2>6. \A k \in Mid : Consumed(k)' => Consumed(k)
    BY <2>1 DEF Consumed, DeletePending
  <2>7. OwnIds' /\ NewUnmarked' /\ AckedGone'
    BY <2>1, <2>6 DEF MarkInv, OwnIds, NewUnmarked, AckedGone
  <2>8. \A r \in Row : /\ ToBook(r) => ToBook(r)'
                       /\ ToDelete(r) => ToDelete(r)'
    BY <2>1, <2>2 DEF ToBook, ToDelete, TableOf
  <2>9. \A r \in Row : Tracked(r) => Tracked(r)'
    BY <2>1, <2>8 DEF Tracked, TableOf
  <2> QED
    BY <2>1, <2>4, <2>5, <2>7, <2>9 DEF MarkInv
<1>12. ASSUME NEW t \in Uploader, Send(t)
       PROVE  MarkInv'
  <2> DEFINE n == MidAfter(lastMid, 1)
             new == [mid |-> n, rows |-> urows[t], got |-> FALSE]
  <2>1. /\ upc[t] = "send" /\ lastMid' = n
        /\ UNCHANGED <<dbVars, mhVars, net, brkVars, urows>>
        /\ out' \in {out, out \cup {new}}
        /\ \/ /\ out' = out \cup {new} /\ net \in {"handshake", "up"}
              /\ upc' = [upc EXCEPT ![t] = "update"]
              /\ umid' = [umid EXCEPT ![t] = n]
           \/ upc' = [upc EXCEPT ![t] = "idle"] /\ umid' = umid
    BY <1>12 DEF Send, Goto, SocketOpen
  <2>2. n = lastMid + 1 /\ n \in Mid
    <3>1. MaxMid \in Nat
      BY SizeAssumption
    <3>2. ~ Wraps(lastMid, 1)
      <4>1. Wraps(lastMid, 1) => "wrap" \in hazard'
        BY <1>12 DEF Send
      <4> QED
        BY <4>1 DEF Broken
    <3> QED
      BY <1>a, <3>1, <3>2 DEF Wraps, MidAfter, Mid
  <2>3. /\ \A u \in Uploader \ {t} : upc'[u] = upc[u] /\ umid'[u] = umid[u]
        /\ upc'[t] \in {"update", "idle"}
    BY <2>1, Objects DEF TypeInv, TypeOK
  <2>4. /\ \A u \in Uploader : InBooking(u) => umid[u] # n
        /\ ~ Acked(n)
    BY <1>a, <2>2 DEF Safe, FreshMids
  <2>5. ASSUME upc'[t] = "update"
        PROVE  Bookings'
    <3>1. /\ new \in out' /\ umid'[t] = n /\ net \in {"handshake", "up"}
      BY <2>1, <2>5, Objects DEF TypeInv, TypeOK
    <3>2. midTable[n] = None
      BY <1>a, <2>2, <3>1 DEF MarkInv, OwnIds, Session
    <3>3. \A u \in Uploader : InBooking(u)' <=> InBooking(u) \/ u = t
      BY <2>1, <2>3, <2>5 DEF InBooking
    <3>4. ~ InBooking(t)
      BY <2>1 DEF InBooking
    <3>5. ASSUME NEW u \in Uploader, InBooking(u)'
          PROVE  /\ midTable'[umid'[u]] = None
                 /\ \/ umid'[u] \in published'
                    \/ \E m \in out' : m.mid = umid'[u] /\ m.rows = urows'[u]
      <4>1. CASE u = t
        BY <2>1, <3>1, <3>2, <4>1
      <4>2. CASE u # t
        BY <2>1, <2>3, <3>3, <3>5, <4>2 DEF MarkInv, Bookings
      <4> QED
        BY <4>1, <4>2
    <3>6. \A u, v \in Uploader :
            InBooking(u)' /\ InBooking(v)' /\ umid'[u] = umid'[v] => u = v
      BY <2>3, <2>4, <3>1, <3>3 DEF MarkInv, Bookings
    <3> QED
      BY <3>5, <3>6 DEF Bookings
  <2>6. ASSUME upc'[t] = "idle"
        PROVE  Bookings'
    <3>1. \A u \in Uploader : InBooking(u)' => InBooking(u) /\ u # t
      BY <2>1, <2>3, <2>6 DEF InBooking
    <3> QED
      BY <2>1, <2>3, <3>1 DEF MarkInv, Bookings
  <2>7. Bookings'
    BY <2>3, <2>5, <2>6
  <2>8. OwnRows' /\ NewUnmarked'
    BY <2>1 DEF MarkInv, OwnRows, NewUnmarked, TableOf
  <2>9. OwnIds'
    <3>1. \A k \in Mid : k \in Nat
      BY SizeAssumption DEF Mid
    <3> QED
      BY <1>a, <2>1, <2>2, <3>1 DEF MarkInv, OwnIds
  <2>10. AckedGone'
    <3>1. \A k \in Mid : Consumed(k)' => Consumed(k)
      BY <2>1 DEF Consumed, DeletePending
    <3>2. ~ Consumed(n)
      BY <1>c, <2>2, <2>4
    <3>3. \A m \in out' : m \in out \/ m.mid = n
      BY <2>1
    <3> QED
      BY <3>1, <3>2, <3>3 DEF MarkInv, AckedGone
  <2>11. \A r \in Row : /\ ToBook(r) => ToBook(r)'
                        /\ ToDelete(r) => ToDelete(r)'
    BY <2>1, <2>3 DEF ToBook, ToDelete, TableOf
  <2>12. \A r \in Row : Tracked(r) => Tracked(r)'
    BY <2>1, <2>11 DEF Tracked, TableOf
  <2> QED
    BY <2>1, <2>7, <2>8, <2>9, <2>10, <2>12 DEF MarkInv
<1>13. ASSUME NEW t \in Uploader, UpdateMid(t)
       PROVE  MarkInv'
  <2>1. /\ upc[t] = "update" /\ InBooking(t)
        /\ UNCHANGED <<db, mhVars, netVars, brkVars, urows, umid>>
    BY <1>13 DEF UpdateMid, InBooking
  <2>2. \A u \in Uploader \ {t} : upc'[u] = upc[u]
    BY <1>13, Objects DEF UpdateMid, Goto, TypeInv, TypeOK
  <2>3. \A u \in Uploader : InBooking(u)' => InBooking(u)
    BY <2>1, <2>2 DEF InBooking
  <2>4. Bookings' /\ OwnRows' /\ OwnIds'
    BY <2>1, <2>3 DEF MarkInv, Bookings, OwnRows, OwnIds, TableOf
  <2>5. AckedGone'
    BY <2>1 DEF MarkInv, AckedGone, Consumed, DeletePending
  <2>6. CASE mid' = mid
    <3>1. \A r \in Row : /\ ToBook(r) => ToBook(r)'
                         /\ ToDelete(r) => ToDelete(r)'
      BY <2>1, <2>2, <2>6 DEF ToBook, ToDelete, TableOf
    <3>2. \A r \in Row : Tracked(r) => Tracked(r)'
      BY <2>1, <2>6, <3>1 DEF Tracked, TableOf
    <3>3. NewUnmarked'
      BY <2>1, <2>6 DEF MarkInv, NewUnmarked
    <3> QED
      BY <2>1, <2>4, <2>5, <2>6, <3>2, <3>3 DEF MarkInv
  <2>7. CASE /\ mid' = [r \in Row |-> IF r \in urows[t] /\ db[r] # "gone"
                                      THEN umid[t] ELSE mid[r]]
             /\ upc' = [upc EXCEPT ![t] = "set"]
    <3>1. upc'[t] = "set"
      BY <2>7, Objects DEF TypeInv, TypeOK
    <3>2. NewUnmarked'
      BY <2>1, <2>7 DEF MarkInv, NewUnmarked, Known
    <3>3. ASSUME net' \in Session, NEW r \in Row, db'[r] = "stored", mid'[r] # 0
          PROVE  Tracked(r)'
      <4>1. CASE r \in urows[t]
        <5>1. mid'[r] = umid[t] /\ TableOf(r) = t
          BY <2>1, <2>7, <3>3, <4>1 DEF MarkInv, OwnRows
        <5>2. ToBook(r)'
          BY <2>1, <3>1, <5>1 DEF ToBook, TableOf
        <5>3. umid[t] \in published \/ \E m \in out : m.mid = umid[t] /\ m.rows = urows[t]
          BY <2>1 DEF MarkInv, Bookings
        <5> QED
          BY <2>1, <4>1, <5>1, <5>2, <5>3 DEF Tracked
      <4>2. CASE r \notin urows[t]
        <5>1. mid'[r] = mid[r] /\ mid[r] # 0 /\ db[r] = "stored"
          BY <2>1, <2>7, <3>3, <4>2
        <5>2. Tracked(r)
          BY <2>1, <3>3, <5>1 DEF MarkInv
        <5>3. /\ ToBook(r) => ToBook(r)'
              /\ ToDelete(r) => ToDelete(r)'
          BY <2>1, <2>2, <5>1 DEF ToBook, ToDelete, TableOf
        <5> QED
          BY <2>1, <5>1, <5>2, <5>3 DEF Tracked, TableOf
      <4> QED
        BY <4>1, <4>2
    <3> QED
      BY <2>4, <2>5, <3>2, <3>3 DEF MarkInv
  <2> QED
    BY <1>13, <2>6, <2>7 DEF UpdateMid, Goto
<1>14. ASSUME NEW t \in Uploader, Book(t)
       PROVE  MarkInv'
  <2> DEFINE n == umid[t]
  <2>1. /\ InBooking(t) /\ upc[t] = "set" /\ n \in Mid /\ t \in Table
        /\ SetMidTable(n, t)
        /\ UNCHANGED <<dbVars, cur, netVars, brkVars, urows, umid>>
    BY <1>14, TableAssumption DEF Book, InBooking, TypeInv, TypeOK
  <2>2. net \notin Preparing
    BY <2>1 DEF Safe, QuietStart
  <2>3. /\ \A u \in Uploader \ {t} : upc'[u] = upc[u]
        /\ upc'[t] \in {"query", "idle"}
    BY <1>14, <2>1, Objects DEF Book, Goto, Continue, TypeInv, TypeOK
  <2>4. \A u \in Uploader : InBooking(u)' => InBooking(u) /\ u # t
    BY <2>3 DEF InBooking
  <2>5. \A u \in Uploader : InBooking(u) /\ u # t => umid[u] # n
    BY <2>1 DEF MarkInv, Bookings
  <2>6. OwnRows' /\ NewUnmarked'
    BY <2>1 DEF MarkInv, OwnRows, NewUnmarked, TableOf
  <2>7. \A r \in Row : ToBook(r) /\ TableOf(r) # t => ToBook(r)' /\ mid[r] # n
    BY <2>1, <2>3, <2>5 DEF ToBook, TableOf, InBooking
  <2>8. \A r \in Row : ToBook(r) /\ TableOf(r) = t => mid[r] = n
    BY DEF ToBook
  <2>9. CASE n \in published /\ published' = published \ {n} /\ ClearMid(n, t)
             /\ midTable' = midTable
    <3>1. /\ toDelete' = Append(toDelete, [mid |-> n, table |-> t])
          /\ mh' = "delete" <=> mh = "delete"
          /\ toDelete \in Seq(Entry)
      BY <2>9 DEF ClearMid, Reliable, TypeInv, TypeOK
    <3>2. \A k \in Mid : Consumed(k)' => Consumed(k)
      <4>1. ASSUME NEW k \in Mid, Consumed(k)'
            PROVE  Consumed(k)
        BY <2>1, <2>2, <2>9, <4>1, ClearMidPending
        DEF Consumed, TypeInv, Preparing
      <4> QED
        BY <4>1
    <3>3. Bookings'
      BY <2>1, <2>4, <2>5, <2>9 DEF MarkInv, Bookings
    <3>4. OwnIds' /\ AckedGone'
      BY <2>1, <2>9, <3>2 DEF MarkInv, OwnIds, AckedGone
    <3>5. /\ \A i \in DOMAIN toDelete :
               i \in DOMAIN toDelete' /\ toDelete'[i] = toDelete[i]
          /\ Len(toDelete) + 1 \in DOMAIN toDelete'
          /\ toDelete'[Len(toDelete) + 1] = [mid |-> n, table |-> t]
      BY <2>1, <3>1 DEF Entry
    <3>6. ASSUME NEW r \in Row, Tracked(r)
          PROVE  Tracked(r)'
      <4>1. CASE ToDelete(r)
        <5>1. ToDelete(r)'
          BY <2>1, <3>1, <3>5, <4>1 DEF ToDelete, TableOf
        <5> QED
          BY <5>1 DEF Tracked
      <4>2. CASE ToBook(r) /\ TableOf(r) = t
        <5>1. ToDelete(r)'
          BY <2>1, <2>8, <3>5, <4>2 DEF ToDelete, TableOf
        <5> QED
          BY <5>1 DEF Tracked
      <4>3. CASE ToBook(r) /\ TableOf(r) # t
        BY <2>1, <2>7, <2>9, <3>6, <4>3, <4>1 DEF Tracked, TableOf
      <4>4. CASE ~ ToBook(r) /\ ~ ToDelete(r)
        BY <2>1, <2>9, <3>6, <4>4 DEF Tracked, TableOf
      <4> QED
        BY <4>1, <4>2, <4>3, <4>4
    <3> QED
      BY <2>1, <2>6, <3>3, <3>4, <3>6 DEF MarkInv
  <2>10. CASE n \notin published /\ midTable' = [midTable EXCEPT ![n] = t]
              /\ UNCHANGED <<published, toDelete, mh>>
    <3>1. \A k \in Mid : Consumed(k)' => Consumed(k)
      BY <2>1, <2>10 DEF Consumed, DeletePending
    <3>2. /\ midTable'[n] = t
          /\ \A k \in Mid : k # n => midTable'[k] = midTable[k]
      BY <2>1, <2>10 DEF TypeInv, TypeOK
    <3>3. \A u \in Uploader : umid[u] \in Mid
      BY Objects DEF TypeInv, TypeOK
    <3>4. Bookings'
      BY <2>1, <2>4, <2>5, <2>10, <3>2, <3>3 DEF MarkInv, Bookings
    <3>5. OwnIds'
      <4>1. n <= lastMid
        BY <2>1 DEF Safe, FreshMids
      <4> QED
        BY <2>1, <3>2, <4>1 DEF MarkInv, OwnIds
    <3>6. AckedGone'
      BY <2>1, <3>1 DEF MarkInv, AckedGone
    <3>7. \A r \in Row : ToDelete(r)' <=> ToDelete(r)
      BY <2>1, <2>10 DEF ToDelete, TableOf
    <3>8. ASSUME NEW r \in Row, Tracked(r), mid[r] \in Mid
          PROVE  Tracked(r)'
      <4>1. CASE ToBook(r) /\ TableOf(r) = t
        BY <2>1, <2>8, <2>10, <3>2, <3>7, <3>8, <4>1 DEF Tracked, TableOf
      <4>2. CASE ToBook(r) /\ TableOf(r) # t
        BY <2>1, <2>7, <2>10, <3>7, <3>8, <4>2 DEF Tracked, TableOf
      <4>3. CASE ~ ToBook(r)
        <5>1. midTable[n] = None
          BY <2>1 DEF MarkInv, Bookings
        <5>2. midTable[mid[r]] = TableOf(r) => mid[r] # n
          BY <5>1 DEF None, TableOf
        <5> QED
          BY <2>1, <3>2, <3>7, <3>8, <4>3, <5>2 DEF Tracked, TableOf
      <4> QED
        BY <4>1, <4>2, <4>3
    <3> QED
      BY <1>b, <2>1, <2>6, <3>4, <3>5, <3>6, <3>8 DEF MarkInv
  <2> QED
    BY <2>1, <2>9, <2>10 DEF SetMidTable
<1>15. CASE Crash
  <2>1. /\ out' = {} /\ net' = "init" /\ upc' = [t \in Table |-> "idle"]
        /\ urows' = [t \in Table |-> {}] /\ UNCHANGED dbVars
    BY <1>15 DEF Crash
  <2>2. \A t \in Uploader : ~ InBooking(t)' /\ urows'[t] = {}
    BY <2>1, Objects DEF InBooking
  <2>3. OwnIds' /\ AckedGone' /\ Bookings' /\ OwnRows'
    BY <2>1, <2>2 DEF OwnIds, AckedGone, Session, Bookings, OwnRows
  <2>4. NewUnmarked'
    BY <2>1 DEF MarkInv, NewUnmarked
  <2> QED
    BY <2>1, <2>3, <2>4 DEF MarkInv, Session
<1> QED
  BY <1>1, <1>2, <1>3, <1>4, <1>5, <1>6, <1>7, <1>8, <1>9, <1>10, <1>11,
     <1>12, <1>13, <1>14, <1>15
  DEF Next, MidThread, InitClient, Loop, Upload

\* The invariant with what carries a MID.
TrackInv == AllInv /\ (~ Broken /\ Reliable => MarkInv)

\* No row carries a MID that nobody knows: its message is under way, its
\* acknowledgement waits for SetMidTable, or its MID is queued for deletion,
\* while Put and DELETE work and the sessions are not mixed.
THEOREM NoRowForgotten == Spec => []NoMarkLost
<1>1. Init => TrackInv
  <2> SUFFICES ASSUME Init
               PROVE  MarkInv
    BY AllInit DEF TrackInv
  <2>1. \A t \in Uploader : ~ InBooking(t) /\ urows[t] = {}
    BY TableAssumption DEF Init, InBooking, Table
  <2>2. \A n \in Mid : ~ Consumed(n)
    BY DEF Init, Consumed, DeletePending
  <2>3. net \notin Session /\ net \notin {"resetAlert", "resetEvent"}
    BY DEF Init, Session
  <2>4. NewUnmarked
    BY DEF Init, NewUnmarked
  <2> QED
    BY <2>1, <2>2, <2>3, <2>4 DEF MarkInv, Bookings, OwnRows, OwnIds, AckedGone
<1>2. TrackInv /\ [Next]_vars => TrackInv'
  <2> SUFFICES ASSUME TrackInv, [Next]_vars
               PROVE  TrackInv'
    OBVIOUS
  <2>1. AllInv'
    BY AllStep DEF TrackInv
  <2>2. ASSUME ~ Broken', Reliable
        PROVE  MarkInv'
    <3>1. ~ Broken
      BY <2>2, BrokenStep
    <3>2. TypeInv /\ Known /\ MarkInv
      BY <2>2, <3>1 DEF TrackInv, AllInv
    <3>3. Safe
      BY <3>1 DEF TrackInv, AllInv, SafeBooking, Safe
    <3> QED
      BY <2>2, <3>2, <3>3, MarkStep
  <2>3. Reliable' <=> Reliable
    BY DEF Reliable
  <2> QED
    BY <2>1, <2>2, <2>3 DEF TrackInv
<1>3. TrackInv => NoMarkLost
  <2> SUFFICES ASSUME TrackInv, ~ Broken, Reliable, net \in Session,
                      NEW r \in Row, db[r] = "stored", mid[r] # 0
               PROVE
       \/ \E m \in out : m.mid = mid[r] /\ r \in m.rows
       \/ \E t \in Uploader : /\ upc[t] = "set"
                             /\ umid[t] = mid[r]
                             /\ mid[r] \in published
       \/ [mid |-> mid[r], table |-> TableOf(r)]
            \in Range(toDelete) \cup (IF mh = "delete" THEN {cur} ELSE {})
    BY DEF NoMarkLost, Reliable, Session
  <2>1. Tracked(r)
    BY DEF TrackInv, MarkInv
  <2>2. CASE ToDelete(r)
    <3>1. \A x \in Entry : x.mid = mid[r] /\ x.table = TableOf(r)
             => x = [mid |-> mid[r], table |-> TableOf(r)]
      BY DEF Entry
    <3>2. /\ cur \in Entry
          /\ \A i \in DOMAIN toDelete : toDelete[i] \in Entry
      BY DEF TrackInv, AllInv, TypeInv, TypeOK
    <3> QED
      BY <2>2, <3>1, <3>2 DEF ToDelete, Range
  <2>3. CASE ~ ToDelete(r)
    BY <2>1, <2>3 DEF Tracked, ToBook
  <2> QED
    BY <2>2, <2>3
<1> QED
  BY <1>1, <1>2, <1>3, PTL DEF Spec
=============================================================================
