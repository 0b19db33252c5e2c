---------------------------- MODULE StreamUpload ----------------------------
(***************************************************************************)
(* The stream upload of the device client: rows of the event and alert     *)
(* tables are published over MQTT, marked with the message id (MID) of the *)
(* publish, and deleted when the acknowledgement of that MID arrives.      *)
(*                                                                         *)
(* Threads: CMQTTUploader's event thread and alert thread, the MQTT        *)
(* network thread (CMQTTClient::Run with mosquitto's loop and callbacks),  *)
(* CMidHandler's deleting thread, and the data base thread that inserts.   *)
(***************************************************************************)
EXTENDS Integers, Sequences, FiniteSets, Functions

CONSTANTS
  Row,        \* rows ever inserted; a smaller number is an older timestamp
  AlertRow,   \* those of TABLE_ALERT_STORE, the others are TABLE_EVENT_STORE
  BatchRow,   \* event rows inserted with COL_BATCH_SUPPORT = 1
  Uploader,   \* the upload threads that run, named by the table they upload
  BatchSize,  \* rows bundled in one publish (EVENT_COUNT, uploadEventCount)
  MaxMid,     \* the largest message id, 65535 in mosquitto
  Topics,     \* topics subscribed on every CONNACK, each takes a message id
  Faults,     \* calls that may fail: see FaultKind
  MaxBreak    \* bound: connection losses and crashes of a behaviour

Table == {"event", "alert"}

FaultKind == {"compress", "publish", "update", "put", "delete", "init"}

ASSUME RowAssumption == Row \subseteq Nat /\ IsFiniteSet(Row)
ASSUME TableAssumption == /\ AlertRow \subseteq Row
                          /\ BatchRow \subseteq Row \ AlertRow
                          /\ Uploader \subseteq Table
ASSUME SizeAssumption == /\ BatchSize \in Nat \ {0}
                         /\ MaxMid \in Nat
                         /\ Topics \in Nat \ {0}
                         /\ Topics < MaxMid
                         /\ MaxBreak \in Nat
ASSUME FaultAssumption == Faults \subseteq FaultKind

Mid == 1 .. MaxMid
None == "none"

\* The ways the MID book-keeping can be disturbed; recorded in `hazard'.
HazardKind == {"late",    \* a session began while a publish was being booked
               "stale",   \* a session began with MIDs still to be deleted
               "wrap",    \* the 16 bit message id came round to 1
               "init",    \* InitMid could not reset the MID column
               "orphan"}  \* a message was sent whose rows keep MID 0

VARIABLES
  \* data base
  db,         \* row -> "new", "stored", "streamed" (stream_support 0), "gone"
  mid,        \* row -> COL_MID, 0 when the row is to be uploaded
  \* CMidHandler
  published,  \* m_setPublishedMidSet: acknowledged, table not known yet
  midTable,   \* m_mapMidDBTableMap: MID -> table, None when absent
  toDelete,   \* m_queMidTobeDeleted
  mh,         \* position of CMidHandler::Run
  cur,        \* the entry Run is deleting
  \* MQTT client and mosquitto
  net,        \* position of the network thread
  lastMid,    \* mosq->last_mid
  out,        \* mosq->msgs_out: messages not acknowledged yet
  \* broker and wire
  acks,       \* PUBACK / PUBCOMP under way to the client
  delivered,  \* rows whose data the broker has
  dup,        \* rows the broker has from two different messages
  \* upload threads
  upc,        \* thread -> position
  urows,      \* thread -> vecRowIDs
  umid,       \* thread -> nMid
  \* history and bound
  hazard, breaks

dbVars  == <<db, mid>>
mhVars  == <<published, midTable, toDelete, mh, cur>>
netVars == <<net, lastMid, out>>
brkVars == <<acks, delivered, dup>>
upVars  == <<upc, urows, umid>>
vars == <<db, mid, published, midTable, toDelete, mh, cur, net, lastMid, out,
          acks, delivered, dup, upc, urows, umid, hazard, breaks>>

Entry == [mid : Mid, table : Table]
Message == [mid : Mid, rows : SUBSET Row, got : BOOLEAN]

TableOf(r) == IF r \in AlertRow THEN "alert" ELSE "event"

\* m_bConnected: set by on_connect(0), reset by on_disconnect.
Connected == net \in {"up", "lost"}

\* mosq->sock is usable: send__publish puts the packet on the wire.
SocketOpen == net \in {"handshake", "up"}

Init ==
  /\ db = [r \in Row |-> "new"]
  /\ mid = [r \in Row |-> 0]
  /\ published = {}
  /\ midTable = [n \in Mid |-> None]
  /\ toDelete = <<>>
  /\ mh = "drain"
  /\ cur = [mid |-> 1, table |-> "event"]
  /\ net = "init"
  /\ lastMid = 0
  /\ out = {}
  /\ acks = {}
  /\ delivered = {}
  /\ dup = {}
  /\ upc = [t \in Table |-> "idle"]
  /\ urows = [t \in Table |-> {}]
  /\ umid = [t \in Table |-> 1]
  /\ hazard = {}
  /\ breaks = 0

-----------------------------------------------------------------------------
(* Data base thread                                                        *)

\* CDBTransport::InsertEvent: the row enters with MID 0.
Insert(r) ==
  /\ db[r] = "new"
  /\ db' = [db EXCEPT ![r] = "stored"]
  /\ UNCHANGED <<mid, mhVars, netVars, brkVars, upVars, hazard, breaks>>

-----------------------------------------------------------------------------
(* CMidHandler                                                             *)

\* ClearMid: queue the entry (Put may give up) and wake the deleting thread,
\* whose condition variable remembers nothing.
ClearMid(n, t) ==
  /\ \/ toDelete' = Append(toDelete, [mid |-> n, table |-> t])
     \/ "put" \in Faults /\ toDelete' = toDelete
  /\ mh' = IF mh = "wait" THEN "drain" ELSE mh

\* Variant (mutant of SetMidTable): the MID is booked without looking at
\* m_setPublishedMidSet first, so an early acknowledgement is forgotten.
SetMidTableNoClear(n, t) ==
  /\ published' = published \ {n}
  /\ midTable' = [midTable EXCEPT ![n] = t]
  /\ UNCHANGED <<toDelete, mh>>

\* Variant (mutant of SetMidTable): the rows are deleted once they are sent.
SetMidTableEager(n, t) ==
  /\ published' = published \ {n}
  /\ ClearMid(n, t)
  /\ UNCHANGED midTable

\* SetMidTable, under m_MapMutex.
SetMidTable(n, t) ==
  \/ /\ n \in published
     /\ published' = published \ {n}
     /\ ClearMid(n, t)
     /\ UNCHANGED midTable
  \/ /\ n \notin published
     /\ midTable' = [midTable EXCEPT ![n] = t]
     /\ UNCHANGED <<published, toDelete, mh>>

\* Variant (mutant of ProcessPublishedMid): every MID is noted as published and
\* a booked one stays in the map.
ProcessPublishedMidNoErase(n) ==
  /\ published' = published \cup {n}
  /\ IF midTable[n] # None THEN ClearMid(n, midTable[n])
                           ELSE UNCHANGED <<toDelete, mh>>
  /\ UNCHANGED midTable

\* ProcessPublishedMid, under m_MapMutex.
ProcessPublishedMid(n) ==
  \/ /\ midTable[n] # None
     /\ ClearMid(n, midTable[n])
     /\ midTable' = [midTable EXCEPT ![n] = None]
     /\ UNCHANGED published
  \/ /\ midTable[n] = None
     /\ published' = published \cup {n}
     /\ UNCHANGED <<midTable, toDelete, mh>>

\* Run: take the next entry, or find the queue empty and leave the loop.
Take ==
  /\ mh = "drain"
  /\ \/ /\ toDelete # <<>>
        /\ cur' = Head(toDelete)
        /\ toDelete' = Tail(toDelete)
        /\ mh' = "delete"
     \/ /\ toDelete = <<>>
        /\ mh' = "park"
        /\ UNCHANGED <<cur, toDelete>>
  /\ UNCHANGED <<dbVars, published, midTable, netVars, brkVars, upVars,
                 hazard, breaks>>

\* Run: m_QueueMutex is locked and ConditionWait entered; a broadcast made
\* since the queue was found empty has been missed.
Park ==
  /\ mh = "park"
  /\ mh' = "wait"
  /\ UNCHANGED <<dbVars, published, midTable, toDelete, cur, netVars, brkVars,
                 upVars, hazard, breaks>>

\* POSIX lets ConditionWait return without a broadcast.
SpuriousWake ==
  /\ mh = "wait"
  /\ mh' = "drain"
  /\ UNCHANGED <<dbVars, published, midTable, toDelete, cur, netVars, brkVars,
                 upVars, hazard, breaks>>

\* Rows the SQL condition COL_MID == n selects in table t.
Marked(n, t) == {r \in Row : /\ db[r] \in {"stored", "streamed"}
                             /\ TableOf(r) = t
                             /\ mid[r] = n}

\* The rows in S are removed; SQL keeps nothing of them.
Remove(S) == /\ db' = [r \in Row |-> IF r \in S THEN "gone" ELSE db[r]]
             /\ mid' = [r \in Row |-> IF r \in S THEN 0 ELSE mid[r]]

\* delete_events_from_db: Remove, then mark the batch rows as streamed. The
\* transaction is committed even when the second statement failed.
Delete ==
  /\ mh = "delete"
  /\ mh' = "drain"
  /\ LET hit == Marked(cur.mid, cur.table)
         keep == hit \cap BatchRow
     IN \/ /\ db' = [r \in Row |-> CASE r \in keep -> "streamed"
                                     [] r \in hit \ keep -> "gone"
                                     [] OTHER -> db[r]]
           /\ mid' = [r \in Row |-> IF r \in hit \ keep THEN 0 ELSE mid[r]]
        \/ "delete" \in Faults /\ Remove(hit \ keep)
        \/ "delete" \in Faults /\ UNCHANGED dbVars
  /\ UNCHANGED <<published, midTable, toDelete, cur, netVars, brkVars, upVars,
                 hazard, breaks>>

-----------------------------------------------------------------------------
(* MQTT network thread: CMQTTClient::Run                                   *)

Pending == toDelete # <<>> \/ mh = "delete"
InBooking(t) == upc[t] \in {"update", "set"}
Booking == \E t \in Uploader : InBooking(t)

\* InitClient: reinitialise destroys the messages not acknowledged and starts
\* the message ids at 1 again.
Reinitialise ==
  /\ net = "init"
  /\ net' = "clearSet"
  /\ lastMid' = 0
  /\ out' = {}
  /\ hazard' = hazard \cup (IF Booking THEN {"late"} ELSE {})
                      \cup (IF Pending THEN {"stale"} ELSE {})
  /\ UNCHANGED <<dbVars, mhVars, brkVars, upVars, breaks>>

\* The entries of the MIDs in S, smallest MID first.
Entries(S) ==
  [i \in 1 .. Cardinality(S) |->
     LET n == CHOOSE m \in S : Cardinality({k \in S : k < m}) = i - 1
     IN [mid |-> n, table |-> midTable[n]]]

\* Variant (mutant of InitMidClearSet): m_setPublishedMidSet is not cleared.
InitMidKeepSet ==
  /\ net = "clearSet"
  /\ net' = "clearMap"
  /\ UNCHANGED <<dbVars, mhVars, lastMid, out, brkVars, upVars, hazard, breaks>>

\* InitMid, without m_MapMutex: MIDs both acknowledged and mapped are queued
\* for deletion, then the set is cleared.
InitMidClearSet ==
  /\ net = "clearSet"
  /\ net' = "clearMap"
  /\ LET both == {n \in published : midTable[n] # None}
     IN /\ toDelete' = toDelete \o Entries(both)
        /\ mh' = IF both # {} /\ mh = "wait" THEN "drain" ELSE mh
  /\ published' = {}
  /\ UNCHANGED <<dbVars, midTable, cur, lastMid, out, brkVars, upVars, hazard,
                 breaks>>

\* InitMid: m_mapMidDBTableMap.clear().
InitMidClearMap ==
  /\ net = "clearMap"
  /\ net' = "resetAlert"
  /\ midTable' = [n \in Mid |-> None]
  /\ UNCHANGED <<dbVars, published, toDelete, mh, cur, lastMid, out, brkVars,
                 upVars, hazard, breaks>>

\* Variant (mutant of InitMidReset): the MIDs of the last session stay.
InitMidNoReset(t) ==
  /\ net = IF t = "alert" THEN "resetAlert" ELSE "resetEvent"
  /\ net' = IF t = "alert" THEN "resetEvent" ELSE "connect"
  /\ UNCHANGED <<dbVars, mhVars, lastMid, out, brkVars, upVars, hazard, breaks>>

\* InitMid: set COL_MID to 0 in one table; the result is only logged.
InitMidReset(t) ==
  /\ net = IF t = "alert" THEN "resetAlert" ELSE "resetEvent"
  /\ net' = IF t = "alert" THEN "resetEvent" ELSE "connect"
  /\ \/ /\ mid' = [r \in Row |-> IF TableOf(r) = t THEN 0 ELSE mid[r]]
        /\ UNCHANGED hazard
     \/ /\ "init" \in Faults
        /\ UNCHANGED mid
        /\ hazard' = hazard \cup {"init"}
  /\ UNCHANGED <<db, mhVars, lastMid, out, brkVars, upVars, breaks>>

\* connect(): the TCP connection is made, loop_forever starts.
Connect ==
  /\ net = "connect"
  /\ net' = "handshake"
  /\ UNCHANGED <<dbVars, mhVars, lastMid, out, brkVars, upVars, hazard, breaks>>

\* connect() failed: InitClient returns non-zero and is called again.
ConnectFail ==
  /\ net = "connect"
  /\ net' = "init"
  /\ UNCHANGED <<dbVars, mhVars, lastMid, out, brkVars, upVars, hazard, breaks>>

\* Variant (mutant of MidAfter): 0 is not skipped.
MidAfterZero(n, k) == (n + k) % (MaxMid + 1)

\* The id k ids after n: last_mid is incremented and skips 0.
MidAfter(n, k) == IF n + k > MaxMid THEN n + k - MaxMid ELSE n + k
Wraps(n, k) == n + k > MaxMid

\* on_connect(0): connected, the topics are subscribed.
Connack ==
  /\ net = "handshake"
  /\ net' = "up"
  /\ lastMid' = MidAfter(lastMid, Topics)
  /\ hazard' = hazard \cup (IF Wraps(lastMid, Topics) THEN {"wrap"} ELSE {})
  /\ UNCHANGED <<dbVars, mhVars, out, brkVars, upVars, breaks>>

\* CONNACK with an error or a loss before CONNACK: bad credentials end
\* loop_forever (disconnect()), the other errors are retried by mosquitto.
Refused ==
  /\ net = "handshake"
  /\ net' \in {"init", "retry"}
  /\ UNCHANGED <<dbVars, mhVars, lastMid, out, brkVars, upVars, hazard, breaks>>

\* The socket is closed; acknowledgements under way are lost, and m_bConnected
\* still reads true until on_disconnect runs.
SocketLost ==
  /\ net = "up"
  /\ breaks < MaxBreak
  /\ breaks' = breaks + 1
  /\ net' = "lost"
  /\ acks' = {}
  /\ UNCHANGED <<dbVars, mhVars, lastMid, out, delivered, dup, upVars, hazard>>

\* on_disconnect, then mosquitto reconnects by itself, or loop_forever returns
\* (a fatal error or disconnect() was called) and InitClient runs again.
OnDisconnect ==
  /\ net = "lost"
  /\ net' \in {"init", "retry"}
  /\ UNCHANGED <<dbVars, mhVars, lastMid, out, brkVars, upVars, hazard, breaks>>

\* mosquitto_reconnect: same instance, same message ids, messages kept.
Reconnect ==
  /\ net = "retry"
  /\ net' = "handshake"
  /\ UNCHANGED <<dbVars, mhVars, lastMid, out, brkVars, upVars, hazard, breaks>>

\* PUBACK / PUBCOMP: message__delete finds the message and on_publish runs, or
\* the id is unknown and no callback is made.
PubAck(n) ==
  /\ net = "up"
  /\ n \in acks
  /\ acks' = acks \ {n}
  /\ \/ /\ \E m \in out : m.mid = n /\ out' = out \ {m}
        /\ ProcessPublishedMid(n)
     \/ /\ \A m \in out : m.mid # n
        /\ UNCHANGED <<out, published, midTable, toDelete, mh>>
  /\ UNCHANGED <<dbVars, cur, net, lastMid, delivered, dup, upVars, hazard,
                 breaks>>

-----------------------------------------------------------------------------
(* Broker                                                                  *)

\* The broker gets a message, for the first time or resent after a reconnect,
\* and acknowledges it.
Deliver(m) ==
  /\ net = "up"
  /\ m.mid \notin acks
  /\ acks' = acks \cup {m.mid}
  /\ delivered' = delivered \cup m.rows
  /\ dup' = IF m.got THEN dup ELSE dup \cup (m.rows \cap delivered)
  /\ out' = (out \ {m}) \cup {[m EXCEPT !.got = TRUE]}
  /\ UNCHANGED <<dbVars, mhVars, net, lastMid, upVars, hazard, breaks>>

-----------------------------------------------------------------------------
(* Upload threads: UploadEvents (t = "event"), UploadAlerts (t = "alert")   *)

\* Variant (mutant of Uploadable): the condition COL_MID == 0 is missing.
UploadableAnyMid(t) == {r \in Row : db[r] = "stored" /\ TableOf(r) = t}

\* The rows GetStreamingEventsFromDB selects for table t: MID 0, stream
\* support, oldest first, at most BatchSize.
Uploadable(t) == {r \in Row : /\ db[r] = "stored"
                              /\ TableOf(r) = t
                              /\ mid[r] = 0}
Batch(S) == {r \in S : Cardinality({q \in S : q < r}) < BatchSize}

\* Where the do-while loop goes: alerts until none is left, events while the
\* batch was full.
Continue(t) == IF t = "alert" \/ Cardinality(urows[t]) = BatchSize
               THEN "query" ELSE "idle"

Goto(t, p) == upc' = [upc EXCEPT ![t] = p]

\* The upload starts when the client is connected, and queries the table.
Query(t) ==
  /\ \/ upc[t] = "idle" /\ Connected
     \/ upc[t] = "query"
  /\ IF Uploadable(t) # {}
     THEN /\ Goto(t, "check")
          /\ urows' = [urows EXCEPT ![t] = Batch(Uploadable(t))]
     ELSE /\ upc[t] = "query"
          /\ Goto(t, "idle")
          /\ urows' = [urows EXCEPT ![t] = {}]
  /\ UNCHANGED <<dbVars, mhVars, netVars, brkVars, umid, hazard, breaks>>

\* GzipMsg failed: the events stay and the loop condition is evaluated.
CompressFail(t) ==
  /\ "compress" \in Faults
  /\ t = "event"
  /\ upc[t] = "check"
  /\ Goto(t, Continue(t))
  /\ UNCHANGED <<dbVars, mhVars, netVars, brkVars, urows, umid, hazard, breaks>>

\* PublishMessage reads m_bConnected.
Check(t) ==
  /\ upc[t] = "check"
  /\ Goto(t, IF Connected THEN "send" ELSE "idle")
  /\ UNCHANGED <<dbVars, mhVars, netVars, brkVars, urows, umid, hazard, breaks>>

\* mosquitto_publish: a fresh id, the message is queued, then sent. With the
\* socket closed the call fails but the message stays queued for the next
\* connection; an early failure queues nothing.
Send(t) ==
  LET n == MidAfter(lastMid, 1)
      wrap == IF Wraps(lastMid, 1) THEN {"wrap"} ELSE {}
  IN /\ upc[t] = "send"
     /\ lastMid' = n
     /\ \/ /\ out' = out \cup {[mid |-> n, rows |-> urows[t], got |-> FALSE]}
           /\ IF SocketOpen
              THEN /\ Goto(t, "update")
                   /\ umid' = [umid EXCEPT ![t] = n]
                   /\ hazard' = hazard \cup wrap
              ELSE /\ Goto(t, "idle")
                   /\ hazard' = hazard \cup wrap \cup {"orphan"}
                   /\ UNCHANGED umid
        \/ /\ "publish" \in Faults
           /\ Goto(t, "idle")
           /\ hazard' = hazard \cup wrap
           /\ UNCHANGED <<out, umid>>
     /\ UNCHANGED <<dbVars, mhVars, net, brkVars, urows, breaks>>

\* update_mid: the rows still in the table are marked, whatever their MID.
UpdateMid(t) ==
  /\ upc[t] = "update"
  /\ \/ /\ mid' = [r \in Row |-> IF r \in urows[t] /\ db[r] # "gone"
                                 THEN umid[t] ELSE mid[r]]
        /\ Goto(t, "set")
        /\ UNCHANGED hazard
     \/ /\ "update" \in Faults
        /\ Goto(t, "idle")
        /\ hazard' = hazard \cup {"orphan"}
        /\ UNCHANGED mid
  /\ UNCHANGED <<db, mhVars, netVars, brkVars, urows, umid, breaks>>

\* SetMidTable books the MID; the loop goes on.
Book(t) ==
  /\ upc[t] = "set"
  /\ SetMidTable(umid[t], t)
  /\ Goto(t, Continue(t))
  /\ UNCHANGED <<dbVars, cur, netVars, brkVars, urows, umid, hazard, breaks>>

-----------------------------------------------------------------------------
\* The process dies: the tables survive, all else starts again.
Crash ==
  /\ breaks < MaxBreak
  /\ breaks' = breaks + 1
  /\ published' = {}
  /\ midTable' = [n \in Mid |-> None]
  /\ toDelete' = <<>>
  /\ mh' = "drain"
  /\ net' = "init"
  /\ lastMid' = 0
  /\ out' = {}
  /\ acks' = {}
  /\ upc' = [t \in Table |-> "idle"]
  /\ urows' = [t \in Table |-> {}]
  /\ UNCHANGED <<dbVars, cur, delivered, dup, umid, hazard>>

Upload(t) == Query(t) \/ Check(t) \/ Send(t) \/ UpdateMid(t) \/ Book(t)
MidThread == Take \/ Park \/ Delete
InitClient == \/ Reinitialise \/ InitMidClearSet \/ InitMidClearMap
              \/ \E t \in Table : InitMidReset(t)
Loop == OnDisconnect \/ Reconnect

Next ==
  \/ \E r \in Row : Insert(r)
  \/ MidThread \/ SpuriousWake
  \/ InitClient \/ Connect \/ ConnectFail \/ Connack \/ Refused
  \/ SocketLost \/ Loop
  \/ \E n \in Mid : PubAck(n)
  \/ \E m \in out : Deliver(m)
  \/ \E t \in Uploader : Upload(t) \/ CompressFail(t)
  \/ Crash

Spec == Init /\ [][Next]_vars

\* Every thread runs, the broker answers, and a connection that is attempted
\* again and again is made in the end. Connection losses and crashes are
\* bounded by MaxBreak: the link is stable in the end.
Fairness ==
  /\ \A t \in Uploader : WF_vars(Upload(t))
  /\ WF_vars(MidThread)
  /\ WF_vars(InitClient) /\ WF_vars(Loop)
  /\ SF_vars(Connect) /\ SF_vars(Connack)
  /\ \A n \in Mid : WF_vars(PubAck(n))
  /\ WF_vars(\E m \in out : Deliver(m))

FairSpec == Spec /\ Fairness
-----------------------------------------------------------------------------
(* Properties                                                              *)

\* The types of the variables; the message ids in use are those mosquitto can
\* hand out and the positions are those of the threads' code.
TypeOK ==
  /\ db \in [Row -> {"new", "stored", "streamed", "gone"}]
  /\ mid \in [Row -> 0 .. MaxMid]
  /\ published \subseteq Mid
  /\ midTable \in [Mid -> Table \cup {None}]
  /\ toDelete \in Seq(Entry)
  /\ mh \in {"drain", "delete", "park", "wait"}
  /\ cur \in Entry
  /\ net \in {"init", "clearSet", "clearMap", "resetAlert", "resetEvent",
              "connect", "handshake", "up", "lost", "retry"}
  /\ lastMid \in 0 .. MaxMid
  /\ out \subseteq Message
  /\ acks \subseteq Mid
  /\ delivered \subseteq Row
  /\ dup \subseteq Row
  /\ upc \in [Table -> {"idle", "query", "check", "send", "update", "set"}]
  /\ urows \in [Table -> SUBSET Row]
  /\ umid \in [Table -> Mid]
  /\ hazard \subseteq HazardKind
  /\ breaks \in 0 .. MaxBreak

\* A MID is never both acknowledged and mapped to a table: SetMidTable and
\* ProcessPublishedMid each consume the other's record under m_MapMutex, so
\* the loop of InitMid that queues such MIDs has nothing to do.
MidInOnePlace == \A n \in published : midTable[n] = None

\* The MID book-keeping was disturbed in a way that can mix two sessions.
Broken == hazard \cap {"late", "stale", "wrap", "init"} # {}

Cleared == {r \in Row : db[r] \in {"streamed", "gone"}}

\* At least once: as long as no session began in the middle of a booking or of
\* a deletion, message ids did not wrap and InitMid reset the column, a row
\* leaves the upload (delete_events_from_db) only after the broker has it.
NoLoss == ~ Broken => Cleared \subseteq delivered

\* While every publish was booked, the messages mosquitto holds carry
\* different rows: a row under way is not bundled in a second message.
NoRowInFlightTwice ==
  ~ Broken /\ "orphan" \notin hazard
     => \A m1, m2 \in out : m1 # m2 => m1.rows \cap m2.rows = {}

\* No row is forgotten with a MID that keeps it from the upload: its message is
\* unacknowledged, or the acknowledgement came and its thread has still to call
\* SetMidTable, or the MID is queued for deletion. Not so while a session is
\* being initialised, or when Put or a DELETE failed.
NoMarkLost ==
  /\ ~ Broken
  /\ Faults \cap {"put", "delete"} = {}
  /\ net \in {"connect", "handshake", "up", "lost", "retry"}
  => \A r \in Row : db[r] = "stored" /\ mid[r] # 0 =>
       \/ \E m \in out : m.mid = mid[r] /\ r \in m.rows
       \/ \E t \in Uploader : /\ upc[t] = "set"
                             /\ umid[t] = mid[r]
                             /\ mid[r] \in published
       \/ [mid |-> mid[r], table |-> TableOf(r)]
            \in Range(toDelete) \cup (IF mh = "delete" THEN {cur} ELSE {})

\* Without a loss of the connection or the process, and with every publish
\* booked, the broker gets no row in two messages: what update_mid marked is not
\* selected again, whichever call fails, until InitMid resets the column.
OnlyLossesRepeat ==
  ~ Broken /\ breaks = 0 /\ "orphan" \notin hazard => dup = {}

\* A row in the data base is delivered in the end, whatever connections and
\* processes die, unless the book-keeping was disturbed on the way.
EventuallyDelivered ==
  \A r \in Row : db[r] = "stored" ~> r \in delivered \/ Broken

\* What CMidHandler.cpp:90-94 says of InitMid: the book-keeping is cleared at
\* every re-connection "to avoid clearing of valid packets in next connection".
\* It forgets m_queMidTobeDeleted: an entry of the last session deletes rows
\* the new session published under the same MID.
StaleEntryHarmless ==
  hazard \subseteq {"stale", "orphan"} => Cleared \subseteq delivered

\* The uploader implements its contract: see UploadContract.
Contract == INSTANCE UploadContract WITH
              pending <- {r \in Row : db[r] = "stored"},
              cleared <- Cleared,
              broken  <- Broken
Refines == Contract!ASpec
-----------------------------------------------------------------------------
(* The inductive invariant behind NoLoss: an acknowledgement that has been *)
(* sent, noted or queued for deletion speaks of delivered rows only.       *)

Session == {"connect", "handshake", "up", "lost", "retry"}
Preparing == {"clearSet", "clearMap", "resetAlert", "resetEvent", "connect"}

DeletePending(n) == \/ \E i \in DOMAIN toDelete : toDelete[i].mid = n
                    \/ mh = "delete" /\ cur.mid = n

\* In "clearSet" the set still holds ids of the last session.
Acked(n) == \/ n \in acks
            \/ n \in published /\ net # "clearSet"
            \/ DeletePending(n)

\* No two messages share an id, and every id in use was handed out.
FreshMids ==
  /\ \A m \in out : m.mid <= lastMid
  /\ \A m1, m2 \in out : m1.mid = m2.mid => m1 = m2
  /\ \A n \in Mid : Acked(n) => n <= lastMid
  /\ \A t \in Uploader : InBooking(t) => umid[t] <= lastMid

\* A session begins with nothing booked or queued, and resets every row.
QuietStart ==
  /\ net \in Preparing =>
       /\ \A t \in Uploader : ~ InBooking(t)
       /\ \A n \in Mid : ~ DeletePending(n)
  /\ net = "resetEvent" => \A r \in Row : TableOf(r) = "alert" => mid[r] = 0

\* What carries a MID is delivered or carried by the message of that MID.
Carried ==
  /\ net \in Session =>
       \A r \in Row : mid[r] # 0 =>
         r \in delivered \/ \E m \in out : m.mid = mid[r] /\ r \in m.rows
  /\ \A t \in Uploader : InBooking(t) =>
       \A r \in urows[t] :
         r \in delivered \/ \E m \in out : m.mid = umid[t] /\ r \in m.rows

\* What carries an acknowledged MID is delivered.
AckSound ==
  \A n \in Mid : Acked(n) =>
    /\ \A r \in Row : mid[r] = n => r \in delivered
    /\ \A m \in out : m.mid = n => m.rows \subseteq delivered
    /\ \A t \in Uploader : InBooking(t) /\ umid[t] = n
                              => urows[t] \subseteq delivered

\* The strengthening of NoLoss that every step preserves.
SafeBooking ==
  /\ net # "up" => acks = {}
  /\ ~ Broken => /\ FreshMids
                 /\ QuietStart
                 /\ Carried
                 /\ AckSound
                 /\ Cleared \subseteq delivered
=============================================================================
