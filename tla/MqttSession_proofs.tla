-------------------------- MODULE MqttSession_proofs --------------------------
(***************************************************************************)
(* Proofs about MqttSession: the types, and from one inductive invariant   *)
(* that a connection shown as complete is one and that the client's last   *)
(* word to the device is not that of a living connection.                  *)
(***************************************************************************)
EXTENDS MqttSession, TLAPS

\* What a session of the client's thread is: it exists only in the loop of the
\* library, over an open socket, and its topics are counted as they are
\* acknowledged.
SessionInv ==
  /\ connected => at \in {"subscribing", "looping", "down"} /\ ~asked
  /\ connected /\ at # "down" => socket = "open"
  /\ connected /\ at = "looping" =>
       toSubscribe = 1 + services /\ acked + unanswered = 1 + services
  /\ at = "subscribing" => connected /\ acked = 0 /\ unanswered = 0
  /\ ~connected => acked = 0 \/ at = "down"
  /\ ~connected \/ at = "down" => unanswered = 0
  /\ at \in {"checking", "looping", "subscribing"} => socket = "open"

\* What is shown in a session and outside of one.
ShownInv ==
  /\ connected => shown # "disconnected"
  /\ ~connected => shown \in {"disconnected", "tearing"}
  /\ at = "subscribing" => shown # "complete"
  /\ connected /\ at = "looping" /\ shown = "complete" => acked = 1 + services

\* What is on its way to the device.
ToldInv ==
  /\ ~connected => telling["client"] \in {"no", "set", "disconnected", "tearing"}
  /\ ~connected /\ telling["client"] = "no" =>
       told \in {"disconnected", "tearing"} \/ crossed
  /\ telling["monitor"] \in {"disconnected", "pending", "complete"} => crossed
  /\ at = "done" => telling["client"] = "no"

Inv == TypeOK /\ SessionInv /\ ShownInv /\ ToldInv

\* The types, in two halves.
TypeA ==
  /\ at \in Place /\ services \in 0..MaxServices /\ connected \in BOOLEAN
  /\ toSubscribe \in 0..MaxServices + 1 /\ acked \in 0..MaxServices + 1
  /\ asked \in BOOLEAN /\ unanswered \in 0..MaxServices + 1
  /\ told \in Status /\ breaks \in 0..MaxBreaks
TypeB ==
  /\ stopReq \in BOOLEAN /\ shutdown \in BOOLEAN /\ shown \in Status
  /\ telling \in [Thread -> Status \cup {"no", "set"}]
  /\ mon \in {"idle", "flagged", "tearing", "stopping", "done"}
  /\ request \in BOOLEAN /\ socket \in {"none", "opening", "open"}
  /\ bye \in BOOLEAN /\ missed \in BOOLEAN /\ crossed \in BOOLEAN

-----------------------------------------------------------------------------
\* The bounds, and what is counted up to them.
LEMMA Bounds ==
  /\ MaxServices \in Nat /\ MaxBreaks \in Nat
  /\ 0 \in 0..MaxServices + 1 /\ 1 \in 0..MaxServices + 1
  /\ 0 \in 0..MaxServices /\ 0 \in 0..MaxBreaks
  /\ \A n \in 0..MaxBreaks : n < MaxBreaks => n + 1 \in 0..MaxBreaks
<1>1. MaxServices \in Nat /\ MaxBreaks \in Nat
  BY SessionAssumption
<1> QED
  BY <1>1

\* Every step keeps the types of the client's thread and the broker.
LEMMA TypeAStep ==
  ASSUME Inv, [Next]_vars PROVE TypeA'
<1> USE SessionAssumption
<1>0. TypeA /\ TypeB /\ SessionInv /\ ShownInv /\ ToldInv
  BY DEF Inv, TypeOK, TypeA, TypeB
<1> USE DEF TypeA, TypeB, SessionInv, ShownInv, ToldInv, Place, Thread, Status
<1>1. CASE ReadStatus("client")
  BY <1>0, <1>1 DEF ReadStatus, client, shared, library, outside
<1>2. CASE ReadStatus("monitor")
  BY <1>0, <1>2 DEF ReadStatus, client, shared, library, outside
<1>3. CASE DeliverStatus("client")
  BY <1>0, <1>3 DEF DeliverStatus, client, shared, library, outside
<1>4. CASE DeliverStatus("monitor")
  BY <1>0, <1>4 DEF DeliverStatus, client, shared, library, outside
<1>5. CASE StartRun
  BY <1>0, <1>5 DEF StartRun, From, client, shared, library, outside
<1>6. CASE InitRun
  BY <1>0, <1>6 DEF InitRun, From, client, shared, library, outside
<1>7. CASE RunOrLeave
  BY <1>0, <1>7 DEF RunOrLeave, From, Stopping, client, shared, library, outside
<1>8. CASE GetCredentials
  BY <1>0, <1>8, Bounds DEF GetCredentials, From, Stopping, client, shared, library, outside
<1>9. CASE Dial
  BY <1>0, <1>9 DEF Dial, client, shared, library, outside
<1>10. CASE DialSucceeds
  BY <1>0, <1>10 DEF DialSucceeds, client, shared, library, outside
<1>11. CASE EnterLoop
  BY <1>0, <1>11 DEF EnterLoop, From, Stopping, client, shared, library, outside
<1>12. CASE SubscribeTopics
  BY <1>0, <1>12 DEF SubscribeTopics, From, client, shared, library, outside
<1>13. CASE ByeWritten
  BY <1>0, <1>13, Bounds DEF ByeWritten, From, client, shared, library, outside
<1>14. CASE OnDisconnect
  BY <1>0, <1>14, Bounds DEF OnDisconnect, From, Broadcast, client, shared, library, outside
<1>15. CASE Retry
  BY <1>0, <1>15 DEF Retry, From, client, shared, library, outside
<1>16. CASE Accepted
  BY <1>0, <1>16 DEF Accepted, From, Broadcast, client, shared, library, outside
<1>17. CASE Subscribed
  BY <1>0, <1>17 DEF Subscribed, From, Broadcast, client, shared, library, outside
<1>18. CASE DialFails
  BY <1>0, <1>18, Bounds DEF DialFails, client, shared, library, outside
<1>19. CASE Refused
  BY <1>0, <1>19, Bounds DEF Refused, From, client, shared, library, outside
<1>20. CASE Lost
  BY <1>0, <1>20, Bounds DEF Lost, From, client, shared, library, outside
<1>21. CASE NotifyShutdown
  BY <1>0, <1>21 DEF NotifyShutdown, client, shared, library, outside
<1>22. CASE TearDown
  BY <1>0, <1>22 DEF TearDown, Broadcast, client, shared, library, outside
<1>23. CASE StopClient
  BY <1>0, <1>23 DEF StopClient, client, shared, library, outside
<1>24. CASE Disconnect
  BY <1>0, <1>24 DEF Disconnect, client, shared, library, outside
<1>25. CASE UNCHANGED vars
  BY <1>0, <1>25 DEF vars, client, shared, library, outside
<1> HIDE DEF TypeA, TypeB, SessionInv, ShownInv, ToldInv
<1> QED
  BY <1>1, <1>2, <1>3, <1>4, <1>5, <1>6, <1>7, <1>8, <1>9, <1>10, <1>11, <1>12, <1>13, <1>14, <1>15, <1>16, <1>17, <1>18, <1>19, <1>20, <1>21, <1>22, <1>23, <1>24, <1>25
  DEF Next, Client, Telling, Connecting, Answer, Failure, Monitor

\* Every step keeps the types of the flags, the library and the history.
LEMMA TypeBStep ==
  ASSUME Inv, [Next]_vars PROVE TypeB'
<1> USE SessionAssumption
<1>0. TypeA /\ TypeB /\ SessionInv /\ ShownInv /\ ToldInv
  BY DEF Inv, TypeOK, TypeA, TypeB
<1> USE DEF TypeA, TypeB, SessionInv, ShownInv, ToldInv, Place, Thread, Status
<1>1. CASE ReadStatus("client")
  BY <1>0, <1>1 DEF ReadStatus, client, shared, library, outside
<1>2. CASE ReadStatus("monitor")
  BY <1>0, <1>2 DEF ReadStatus, client, shared, library, outside
<1>3. CASE DeliverStatus("client")
  BY <1>0, <1>3 DEF DeliverStatus, client, shared, library, outside
<1>4. CASE DeliverStatus("monitor")
  BY <1>0, <1>4 DEF DeliverStatus, client, shared, library, outside
<1>5. CASE StartRun
  BY <1>0, <1>5 DEF StartRun, From, client, shared, library, outside
<1>6. CASE InitRun
  BY <1>0, <1>6 DEF InitRun, From, client, shared, library, outside
<1>7. CASE RunOrLeave
  BY <1>0, <1>7 DEF RunOrLeave, From, Stopping, client, shared, library, outside
<1>8. CASE GetCredentials
  <2>1. UNCHANGED <<shared, missed, crossed>>
    BY <1>8 DEF GetCredentials
  <2>2. UNCHANGED library \/ 
        (socket' = "none" /\ request' = FALSE /\ bye' = FALSE)
    BY <1>8 DEF GetCredentials
  <2> QED
    <3>1. CASE UNCHANGED library
      BY <1>0, <2>1, <3>1 DEF shared, library
    <3>2. CASE socket' = "none" /\ request' = FALSE /\ bye' = FALSE
      BY <1>0, <2>1, <3>2 DEF shared
    <3> QED
      BY <2>2, <3>1, <3>2
<1>9. CASE Dial
  BY <1>0, <1>9 DEF Dial, client, shared, library, outside
<1>10. CASE DialSucceeds
  BY <1>0, <1>10 DEF DialSucceeds, client, shared, library, outside
<1>11. CASE EnterLoop
  BY <1>0, <1>11 DEF EnterLoop, From, Stopping, client, shared, library, outside
<1>12. CASE SubscribeTopics
  BY <1>0, <1>12 DEF SubscribeTopics, From, client, shared, library, outside
<1>13. CASE ByeWritten
  BY <1>0, <1>13 DEF ByeWritten, From, client, shared, library, outside
<1>14. CASE OnDisconnect
  BY <1>0, <1>14 DEF OnDisconnect, From, Broadcast, client, shared, library, outside
<1>15. CASE Retry
  BY <1>0, <1>15 DEF Retry, From, client, shared, library, outside
<1>16. CASE Accepted
  BY <1>0, <1>16 DEF Accepted, From, Broadcast, client, shared, library, outside
<1>17. CASE Subscribed
  BY <1>0, <1>17 DEF Subscribed, From, Broadcast, client, shared, library, outside
<1>18. CASE DialFails
  BY <1>0, <1>18 DEF DialFails, client, shared, library, outside
<1>19. CASE Refused
  BY <1>0, <1>19 DEF Refused, From, client, shared, library, outside
<1>20. CASE Lost
  BY <1>0, <1>20 DEF Lost, From, client, shared, library, outside
<1>21. CASE NotifyShutdown
  BY <1>0, <1>21 DEF NotifyShutdown, client, shared, library, outside
<1>22. CASE TearDown
  BY <1>0, <1>22 DEF TearDown, Broadcast, client, shared, library, outside
<1>23. CASE StopClient
  BY <1>0, <1>23 DEF StopClient, client, shared, library, outside
<1>24. CASE Disconnect
  BY <1>0, <1>24 DEF Disconnect, client, shared, library, outside
<1>25. CASE UNCHANGED vars
  BY <1>0, <1>25 DEF vars, client, shared, library, outside
<1> HIDE DEF TypeA, TypeB, SessionInv, ShownInv, ToldInv
<1> QED
  BY <1>1, <1>2, <1>3, <1>4, <1>5, <1>6, <1>7, <1>8, <1>9, <1>10, <1>11, <1>12, <1>13, <1>14, <1>15, <1>16, <1>17, <1>18, <1>19, <1>20, <1>21, <1>22, <1>23, <1>24, <1>25
  DEF Next, Client, Telling, Connecting, Answer, Failure, Monitor

\* Every step keeps what a session is.
LEMMA SessionStep ==
  ASSUME Inv, [Next]_vars PROVE SessionInv'
<1> USE SessionAssumption
<1>0. TypeA /\ TypeB /\ SessionInv /\ ShownInv /\ ToldInv
  BY DEF Inv, TypeOK, TypeA, TypeB
<1> USE DEF TypeA, TypeB, SessionInv, ShownInv, ToldInv, Place, Thread, Status
<1>1. CASE ReadStatus("client")
  BY <1>0, <1>1 DEF ReadStatus, client, shared, library, outside
<1>2. CASE ReadStatus("monitor")
  BY <1>0, <1>2 DEF ReadStatus, client, shared, library, outside
<1>3. CASE DeliverStatus("client")
  BY <1>0, <1>3 DEF DeliverStatus, client, shared, library, outside
<1>4. CASE DeliverStatus("monitor")
  BY <1>0, <1>4 DEF DeliverStatus, client, shared, library, outside
<1>5. CASE StartRun
  BY <1>0, <1>5 DEF StartRun, From, client, shared, library, outside
<1>6. CASE InitRun
  BY <1>0, <1>6 DEF InitRun, From, client, shared, library, outside
<1>7. CASE RunOrLeave
  BY <1>0, <1>7 DEF RunOrLeave, From, Stopping, client, shared, library, outside
<1>8. CASE GetCredentials
  BY <1>0, <1>8 DEF GetCredentials, From, Stopping, client, shared, library, outside
<1>9. CASE Dial
  BY <1>0, <1>9 DEF Dial, client, shared, library, outside
<1>10. CASE DialSucceeds
  BY <1>0, <1>10 DEF DialSucceeds, client, shared, library, outside
<1>11. CASE EnterLoop
  BY <1>0, <1>11 DEF EnterLoop, From, Stopping, client, shared, library, outside
<1>12. CASE SubscribeTopics
  BY <1>0, <1>12 DEF SubscribeTopics, From, client, shared, library, outside
<1>13. CASE ByeWritten
  BY <1>0, <1>13 DEF ByeWritten, From, client, shared, library, outside
<1>14. CASE OnDisconnect
  <2>1. /\ at = "down" /\ at' \in {"retry", "top"} /\ connected' = FALSE /\ acked' = 0
        /\ UNCHANGED <<services, library, outside>>
    BY <1>14 DEF OnDisconnect, From
  <2>2. unanswered = 0
    BY <1>0, <2>1
  <2> QED
    BY <1>0, <2>1, <2>2 DEF library, outside
<1>15. CASE Retry
  BY <1>0, <1>15 DEF Retry, From, client, shared, library, outside
<1>16. CASE Accepted
  BY <1>0, <1>16 DEF Accepted, From, Broadcast, client, shared, library, outside
<1>17. CASE Subscribed
  BY <1>0, <1>17 DEF Subscribed, From, Broadcast, client, shared, library, outside
<1>18. CASE DialFails
  BY <1>0, <1>18 DEF DialFails, client, shared, library, outside
<1>19. CASE Refused
  BY <1>0, <1>19 DEF Refused, From, client, shared, library, outside
<1>20. CASE Lost
  BY <1>0, <1>20 DEF Lost, From, client, shared, library, outside
<1>21. CASE NotifyShutdown
  BY <1>0, <1>21 DEF NotifyShutdown, client, shared, library, outside
<1>22. CASE TearDown
  BY <1>0, <1>22 DEF TearDown, Broadcast, client, shared, library, outside
<1>23. CASE StopClient
  BY <1>0, <1>23 DEF StopClient, client, shared, library, outside
<1>24. CASE Disconnect
  BY <1>0, <1>24 DEF Disconnect, client, shared, library, outside
<1>25. CASE UNCHANGED vars
  BY <1>0, <1>25 DEF vars, client, shared, library, outside
<1> HIDE DEF TypeA, TypeB, SessionInv, ShownInv, ToldInv
<1> QED
  BY <1>1, <1>2, <1>3, <1>4, <1>5, <1>6, <1>7, <1>8, <1>9, <1>10, <1>11, <1>12, <1>13, <1>14, <1>15, <1>16, <1>17, <1>18, <1>19, <1>20, <1>21, <1>22, <1>23, <1>24, <1>25
  DEF Next, Client, Telling, Connecting, Answer, Failure, Monitor

\* Every step keeps what is shown in and outside of a session.
LEMMA ShownStep ==
  ASSUME Inv, [Next]_vars PROVE ShownInv'
<1> USE SessionAssumption
<1>0. TypeA /\ TypeB /\ SessionInv /\ ShownInv /\ ToldInv
  BY DEF Inv, TypeOK, TypeA, TypeB
<1> USE DEF TypeA, TypeB, SessionInv, ShownInv, ToldInv, Place, Thread, Status
<1>1. CASE ReadStatus("client")
  BY <1>0, <1>1 DEF ReadStatus, client, shared, library, outside
<1>2. CASE ReadStatus("monitor")
  BY <1>0, <1>2 DEF ReadStatus, client, shared, library, outside
<1>3. CASE DeliverStatus("client")
  BY <1>0, <1>3 DEF DeliverStatus, client, shared, library, outside
<1>4. CASE DeliverStatus("monitor")
  BY <1>0, <1>4 DEF DeliverStatus, client, shared, library, outside
<1>5. CASE StartRun
  BY <1>0, <1>5 DEF StartRun, From, client, shared, library, outside
<1>6. CASE InitRun
  BY <1>0, <1>6 DEF InitRun, From, client, shared, library, outside
<1>7. CASE RunOrLeave
  BY <1>0, <1>7 DEF RunOrLeave, From, Stopping, client, shared, library, outside
<1>8. CASE GetCredentials
  BY <1>0, <1>8 DEF GetCredentials, From, Stopping, client, shared, library, outside
<1>9. CASE Dial
  BY <1>0, <1>9 DEF Dial, client, shared, library, outside
<1>10. CASE DialSucceeds
  BY <1>0, <1>10 DEF DialSucceeds, client, shared, library, outside
<1>11. CASE EnterLoop
  BY <1>0, <1>11 DEF EnterLoop, From, Stopping, client, shared, library, outside
<1>12. CASE SubscribeTopics
  BY <1>0, <1>12 DEF SubscribeTopics, From, client, shared, library, outside
<1>13. CASE ByeWritten
  BY <1>0, <1>13 DEF ByeWritten, From, client, shared, library, outside
<1>14. CASE OnDisconnect
  BY <1>0, <1>14 DEF OnDisconnect, From, Broadcast, client, shared, library, outside
<1>15. CASE Retry
  BY <1>0, <1>15 DEF Retry, From, client, shared, library, outside
<1>16. CASE Accepted
  BY <1>0, <1>16 DEF Accepted, From, Broadcast, client, shared, library, outside
<1>17. CASE Subscribed
  BY <1>0, <1>17 DEF Subscribed, From, Broadcast, client, shared, library, outside
<1>18. CASE DialFails
  BY <1>0, <1>18 DEF DialFails, client, shared, library, outside
<1>19. CASE Refused
  BY <1>0, <1>19 DEF Refused, From, client, shared, library, outside
<1>20. CASE Lost
  BY <1>0, <1>20 DEF Lost, From, client, shared, library, outside
<1>21. CASE NotifyShutdown
  BY <1>0, <1>21 DEF NotifyShutdown, client, shared, library, outside
<1>22. CASE TearDown
  BY <1>0, <1>22 DEF TearDown, Broadcast, client, shared, library, outside
<1>23. CASE StopClient
  BY <1>0, <1>23 DEF StopClient, client, shared, library, outside
<1>24. CASE Disconnect
  BY <1>0, <1>24 DEF Disconnect, client, shared, library, outside
<1>25. CASE UNCHANGED vars
  BY <1>0, <1>25 DEF vars, client, shared, library, outside
<1> HIDE DEF TypeA, TypeB, SessionInv, ShownInv, ToldInv
<1> QED
  BY <1>1, <1>2, <1>3, <1>4, <1>5, <1>6, <1>7, <1>8, <1>9, <1>10, <1>11, <1>12, <1>13, <1>14, <1>15, <1>16, <1>17, <1>18, <1>19, <1>20, <1>21, <1>22, <1>23, <1>24, <1>25
  DEF Next, Client, Telling, Connecting, Answer, Failure, Monitor

\* Every step keeps what is on its way to the device.
LEMMA ToldStep ==
  ASSUME Inv, [Next]_vars PROVE ToldInv'
<1> USE SessionAssumption
<1>0. TypeA /\ TypeB /\ SessionInv /\ ShownInv /\ ToldInv
  BY DEF Inv, TypeOK, TypeA, TypeB
<1> USE DEF TypeA, TypeB, SessionInv, ShownInv, ToldInv, Place, Thread, Status
<1>1. CASE ReadStatus("client")
  BY <1>0, <1>1 DEF ReadStatus, client, shared, library, outside
<1>2. CASE ReadStatus("monitor")
  BY <1>0, <1>2 DEF ReadStatus, client, shared, library, outside
<1>3. CASE DeliverStatus("client")
  BY <1>0, <1>3 DEF DeliverStatus, client, shared, library, outside
<1>4. CASE DeliverStatus("monitor")
  BY <1>0, <1>4 DEF DeliverStatus, client, shared, library, outside
<1>5. CASE StartRun
  BY <1>0, <1>5 DEF StartRun, From, client, shared, library, outside
<1>6. CASE InitRun
  BY <1>0, <1>6 DEF InitRun, From, client, shared, library, outside
<1>7. CASE RunOrLeave
  BY <1>0, <1>7 DEF RunOrLeave, From, Stopping, client, shared, library, outside
<1>8. CASE GetCredentials
  BY <1>0, <1>8 DEF GetCredentials, From, Stopping, client, shared, library, outside
<1>9. CASE Dial
  BY <1>0, <1>9 DEF Dial, client, shared, library, outside
<1>10. CASE DialSucceeds
  BY <1>0, <1>10 DEF DialSucceeds, client, shared, library, outside
<1>11. CASE EnterLoop
  BY <1>0, <1>11 DEF EnterLoop, From, Stopping, client, shared, library, outside
<1>12. CASE SubscribeTopics
  BY <1>0, <1>12 DEF SubscribeTopics, From, client, shared, library, outside
<1>13. CASE ByeWritten
  BY <1>0, <1>13 DEF ByeWritten, From, client, shared, library, outside
<1>14. CASE OnDisconnect
  BY <1>0, <1>14 DEF OnDisconnect, From, Broadcast, client, shared, library, outside
<1>15. CASE Retry
  BY <1>0, <1>15 DEF Retry, From, client, shared, library, outside
<1>16. CASE Accepted
  BY <1>0, <1>16 DEF Accepted, From, Broadcast, client, shared, library, outside
<1>17. CASE Subscribed
  BY <1>0, <1>17 DEF Subscribed, From, Broadcast, client, shared, library, outside
<1>18. CASE DialFails
  BY <1>0, <1>18 DEF DialFails, client, shared, library, outside
<1>19. CASE Refused
  BY <1>0, <1>19 DEF Refused, From, client, shared, library, outside
<1>20. CASE Lost
  BY <1>0, <1>20 DEF Lost, From, client, shared, library, outside
<1>21. CASE NotifyShutdown
  BY <1>0, <1>21 DEF NotifyShutdown, client, shared, library, outside
<1>22. CASE TearDown
  BY <1>0, <1>22 DEF TearDown, Broadcast, client, shared, library, outside
<1>23. CASE StopClient
  BY <1>0, <1>23 DEF StopClient, client, shared, library, outside
<1>24. CASE Disconnect
  BY <1>0, <1>24 DEF Disconnect, client, shared, library, outside
<1>25. CASE UNCHANGED vars
  BY <1>0, <1>25 DEF vars, client, shared, library, outside
<1> HIDE DEF TypeA, TypeB, SessionInv, ShownInv, ToldInv
<1> QED
  BY <1>1, <1>2, <1>3, <1>4, <1>5, <1>6, <1>7, <1>8, <1>9, <1>10, <1>11, <1>12, <1>13, <1>14, <1>15, <1>16, <1>17, <1>18, <1>19, <1>20, <1>21, <1>22, <1>23, <1>24, <1>25
  DEF Next, Client, Telling, Connecting, Answer, Failure, Monitor

\* The initial states satisfy the inductive invariant.
LEMMA InvInit == Init => Inv
<1> SUFFICES ASSUME Init PROVE Inv
  OBVIOUS
<1>1. TypeA
  BY Bounds DEF Init, TypeA, Place, Status
<1>2. TypeB
  BY DEF Init, TypeB, Thread, Status
<1>3. SessionInv /\ ShownInv
  BY DEF Init, SessionInv, ShownInv
<1>4. ToldInv
  BY DEF Init, ToldInv, Thread
<1> QED
  BY <1>1, <1>2, <1>3, <1>4 DEF Inv, TypeOK, TypeA, TypeB

\* The inductive invariant holds in every state, whatever the number of
\* services and of failures.
THEOREM Invariance == Spec => []Inv
<1>1. Inv /\ [Next]_vars => Inv'
  BY TypeAStep, TypeBStep, SessionStep, ShownStep, ToldStep
  DEF Inv, TypeOK, TypeA, TypeB
<1> QED
  BY InvInit, <1>1, PTL DEF Spec

\* The types hold in every state.
THEOREM Typed == Spec => []TypeOK
<1>1. Inv => TypeOK
  BY DEF Inv
<1> QED
  BY Invariance, <1>1, PTL

\* A connection shown as complete is one: every subscription of the session is
\* acknowledged, by the broker, in that session.
THEOREM ShownCompleteIsReal == Spec => []CompleteIsReal
<1>1. Inv => CompleteIsReal
  <2> SUFFICES ASSUME Inv, shown = "complete", at # "down"
               PROVE  /\ connected /\ socket = "open" /\ at = "looping"
                      /\ acked = 1 + services /\ unanswered = 0
    BY DEF CompleteIsReal
  <2>1. connected /\ at = "looping" /\ socket = "open"
    BY DEF Inv, TypeOK, SessionInv, ShownInv
  <2>2. acked = 1 + services
    BY <2>1 DEF Inv, ShownInv
  <2>3. acked + unanswered = 1 + services
    BY <2>1 DEF Inv, SessionInv
  <2>4. acked \in Nat /\ unanswered \in Nat /\ services \in Nat
    BY SessionAssumption DEF Inv, TypeOK
  <2> QED
    BY <2>1, <2>2, <2>3, <2>4
<1> QED
  BY Invariance, <1>1, PTL

\* Once the client's thread is gone nobody is told, or can see, a connection.
THEOREM LastWordIsNoConnection == Spec => []LastWord
<1>1. Inv => LastWord
  BY DEF Inv, TypeOK, SessionInv, ToldInv, LastWord
<1> QED
  BY Invariance, <1>1, PTL
=============================================================================
