---------------------------- MODULE MqttSession -----------------------------
(***************************************************************************)
(* The session of the MQTT client with the broker and how a shutdown ends  *)
(* it: the thread of CMQTTClient / CIgniteMQTTClient, the loop of the MQTT *)
(* library it runs in, and the shutdown monitor, which calls               *)
(* NotifyShutdown on a thread of its own while the client's thread may be  *)
(* anywhere.                                                               *)
(*                                                                         *)
(* The client's thread asks for a token, connects, and stays in            *)
(* mosquitto_loop_forever, which connects again by itself whenever the     *)
(* connection is gone.  on_connect, on_subscribe and on_disconnect run on  *)
(* that thread.  The connection status is written to m_eLastBroadcasted,   *)
(* read again for the payload, and then sent to the device: three steps,   *)
(* which the monitor's broadcast may cross.  How a token is got, and that  *)
(* a refused one is dropped, is the subject of Activation; what is         *)
(* published, of StreamUpload.                                             *)
(***************************************************************************)
EXTENDS Naturals

CONSTANTS
  MaxServices,   \* services whose topic may be configured beside "config"
  MaxBreaks      \* bound: failed or lost connections

ASSUME SessionAssumption == {MaxServices, MaxBreaks} \subseteq Nat

VARIABLES
  \* the client's thread
  at,            \* where it is
  services,      \* size of m_mapFeaturesTopicMap, from the configuration
  connected,     \* m_bConnected
  toSubscribe, acked,  \* m_nNoOfTopicsToSubscribe, m_nNoOfTopicSubAckRcvd
  \* shared with the monitor
  stopReq,       \* m_bStopClientReq
  shutdown,      \* m_bIsShutDownInitiated
  shown,         \* m_eLastBroadcasted
  telling,       \* how far each thread is in a broadcast
  mon,           \* where the monitor is in NotifyShutdown, "idle" before it
  \* the library
  request,       \* request_disconnect
  socket,        \* none, being connected, or connected
  bye,           \* a DISCONNECT waits to be written
  \* the broker and the device
  asked,         \* CONNECT is sent and not answered
  unanswered,    \* SUBSCRIBEs of this connection not yet acknowledged
  told,          \* the last connection status the device was sent
  breaks,
  \* history
  missed,        \* disconnect() was called between the check and the dialling
  crossed        \* the monitor read the client thread's status for its own

client == <<at, services, connected, toSubscribe, acked>>
shared == <<stopReq, shutdown, shown, telling, mon>>
library == <<request, socket, bye>>
outside == <<asked, unanswered, told, breaks, missed, crossed>>
vars == <<client, shared, library, outside>>

Status == {"disconnected", "pending", "complete", "tearing"}
Thread == {"client", "monitor"}
Place == {"starting", "registering", "top", "token", "connecting", "checking",
          "looping", "subscribing", "down", "retry", "reconnecting", "done"}

Init == /\ at = "starting" /\ services \in 0..MaxServices
        /\ connected = FALSE /\ toSubscribe = 0 /\ acked = 0
        /\ stopReq = FALSE /\ shutdown = FALSE /\ shown = "disconnected"
        /\ telling = [t \in Thread |-> "no"] /\ mon = "idle"
        /\ request = FALSE /\ socket = "none" /\ bye = FALSE
        /\ asked = FALSE /\ unanswered = 0 /\ told = "disconnected"
        /\ breaks = 0 /\ missed = FALSE /\ crossed = FALSE

-----------------------------------------------------------------------------
(* The connection status.                                                  *)

\* Variant: no other status is shown once the connection is being torn down.
BroadcastUntilTearing(t, s) ==
  IF shown \in {s, "tearing"} THEN UNCHANGED <<shown, telling>>
  ELSE shown' = s /\ telling' = [telling EXCEPT ![t] = "set"]

\* The test and the write of m_eLastBroadcasted.
Broadcast(t, s) ==
  IF shown = s THEN UNCHANGED <<shown, telling>>
  ELSE shown' = s /\ telling' = [telling EXCEPT ![t] = "set"]

\* jsonStatus["status"] = m_eLastBroadcasted.
ReadStatus(t) ==
  /\ telling[t] = "set"
  /\ telling' = [telling EXCEPT ![t] = shown]
  /\ crossed' = (crossed \/ (t = "monitor" /\ shown # "tearing"))
  /\ UNCHANGED <<client, stopReq, shutdown, shown, mon, library, asked,
                 unanswered, told, breaks, missed>>

\* DeliverMQTTConnectionStatusToDevice.
DeliverStatus(t) ==
  /\ telling[t] \in Status
  /\ told' = telling[t]
  /\ telling' = [telling EXCEPT ![t] = "no"]
  /\ UNCHANGED <<client, stopReq, shutdown, shown, mon, library, asked,
                 unanswered, breaks, missed, crossed>>

-----------------------------------------------------------------------------
(* The client's thread, outside the loop of the library.                   *)

\* The thread goes on at p once its broadcast, if any, is over.
From(p) == at = p /\ telling["client"] = "no"

\* Run resets the request to stop before it registers for the shutdown.
StartRun ==
  /\ From("starting")
  /\ stopReq' = FALSE
  /\ at' = "registering"
  /\ UNCHANGED <<services, connected, toSubscribe, acked, shutdown, shown,
                 telling, mon, library, outside>>

InitRun ==
  /\ From("registering")
  /\ at' = "top"
  /\ UNCHANGED <<services, connected, toSubscribe, acked, shared, library,
                 outside>>

Stopping == stopReq \/ shutdown

\* The loop of Run; ExitRun answers the monitor.  A request to stop without a
\* shutdown is slept over.
RunOrLeave ==
  /\ From("top")
  /\ \/ shutdown /\ at' = "done"
     \/ ~Stopping /\ at' = "token"
  /\ UNCHANGED <<services, connected, toSubscribe, acked, shared, library,
                 outside>>

\* InitClient up to connect(): a token, then a client made anew.
GetCredentials ==
  /\ From("token")
  /\ \/ Stopping /\ at' = "top" /\ UNCHANGED library
     \/ /\ ~Stopping
        /\ at' = "connecting"
        /\ request' = FALSE /\ bye' = FALSE /\ socket' = "none"
  /\ asked' = FALSE /\ unanswered' = 0
  /\ UNCHANGED <<services, connected, toSubscribe, acked, shared, told, breaks,
                 missed, crossed>>

\* connect() and mosquitto_reconnect: packets left over are dropped and a
\* socket is made.  Only connect() withdraws an earlier disconnect().
Dial ==
  /\ at \in {"connecting", "reconnecting"} /\ socket = "none"
  /\ socket' = "opening" /\ bye' = FALSE
  /\ request' = (request /\ at = "reconnecting")
  /\ UNCHANGED <<client, shared, outside>>

\* The socket is connected and CONNECT is sent.
DialSucceeds ==
  /\ at \in {"connecting", "reconnecting"} /\ socket = "opening"
  /\ socket' = "open" /\ asked' = TRUE
  /\ at' = IF at = "connecting" THEN "checking" ELSE "looping"
  /\ UNCHANGED <<services, connected, toSubscribe, acked, shared, request, bye,
                 unanswered, told, breaks, missed, crossed>>

\* It is not: InitClient is tried again after a second, and so is the
\* reconnect, after the delay of the library.
DialFails ==
  /\ at \in {"connecting", "reconnecting"} /\ socket = "opening"
  /\ breaks < MaxBreaks /\ breaks' = breaks + 1
  /\ socket' = "none"
  /\ at' = IF at = "connecting" THEN "token" ELSE "retry"
  /\ UNCHANGED <<services, connected, toSubscribe, acked, shared, request, bye,
                 asked, unanswered, told, missed, crossed>>

\* Variant: the flags are not looked at again after connect().
EnterLoopUnchecked ==
  /\ From("checking")
  /\ at' = "looping"
  /\ UNCHANGED <<services, connected, toSubscribe, acked, shared, library,
                 outside>>

\* Initialize looks at the flags again before it enters the loop.
EnterLoop ==
  /\ From("checking")
  /\ at' = IF Stopping THEN "top" ELSE "looping"
  /\ UNCHANGED <<services, connected, toSubscribe, acked, shared, library,
                 outside>>

-----------------------------------------------------------------------------
(* The loop of the library and the callbacks.                              *)

\* CONNACK with code 0: on_connect up to its broadcast.
Accepted ==
  /\ From("looping") /\ asked
  /\ asked' = FALSE
  /\ connected' = TRUE /\ toSubscribe' = 0 /\ acked' = 0
  /\ Broadcast("client", "pending")
  /\ at' = "subscribing"
  /\ UNCHANGED <<services, stopReq, shutdown, mon, library, unanswered, told,
                 breaks, missed, crossed>>

\* Variant: a service's topic is counted once more when it is subscribed to.
SubscribeTopicsCountedTwice ==
  /\ From("subscribing")
  /\ toSubscribe' = 1 + 2 * services
  /\ unanswered' = 1 + services
  /\ at' = "looping"
  /\ UNCHANGED <<services, connected, acked, shared, library, asked, told,
                 breaks, missed, crossed>>

\* The rest of on_connect.
SubscribeTopics ==
  /\ From("subscribing")
  /\ toSubscribe' = 1 + services
  /\ unanswered' = 1 + services
  /\ at' = "looping"
  /\ UNCHANGED <<services, connected, acked, shared, library, asked, told,
                 breaks, missed, crossed>>

\* Variant: the first acknowledgement completes the connection.
SubscribedOne ==
  /\ From("looping") /\ unanswered > 0
  /\ unanswered' = unanswered - 1 /\ acked' = acked + 1
  /\ Broadcast("client", "complete")
  /\ UNCHANGED <<at, services, connected, toSubscribe, stopReq, shutdown, mon,
                 library, asked, told, breaks, missed, crossed>>

\* SUBACK: on_subscribe.
Subscribed ==
  /\ From("looping") /\ unanswered > 0
  /\ unanswered' = unanswered - 1 /\ acked' = acked + 1
  /\ IF toSubscribe # 0 /\ acked' = toSubscribe
     THEN Broadcast("client", "complete") ELSE UNCHANGED <<shown, telling>>
  /\ UNCHANGED <<at, services, connected, toSubscribe, stopReq, shutdown, mon,
                 library, asked, told, breaks, missed, crossed>>

\* CONNACK with code 2, 4 or 5: on_connect drops the token and disconnects,
\* and the library closes the socket.
Refused ==
  /\ From("looping") /\ asked
  /\ breaks < MaxBreaks /\ breaks' = breaks + 1
  /\ connected' = FALSE /\ request' = TRUE
  /\ asked' = FALSE /\ socket' = "none" /\ bye' = FALSE
  /\ at' = "down"
  /\ UNCHANGED <<services, toSubscribe, acked, shared, unanswered, told, missed,
                 crossed>>

\* CONNACK with another code, or the connection is gone: the socket is closed.
Lost ==
  /\ From("looping")
  /\ breaks < MaxBreaks /\ breaks' = breaks + 1
  /\ asked' = FALSE /\ unanswered' = 0 /\ socket' = "none" /\ bye' = FALSE
  /\ at' = "down"
  /\ UNCHANGED <<services, connected, toSubscribe, acked, shared, request, told,
                 missed, crossed>>

\* DISCONNECT is written and the socket closed.
ByeWritten ==
  /\ From("looping") /\ bye
  /\ asked' = FALSE /\ unanswered' = 0 /\ socket' = "none" /\ bye' = FALSE
  /\ at' = "down"
  /\ UNCHANGED <<services, connected, toSubscribe, acked, shared, request, told,
                 breaks, missed, crossed>>

\* on_disconnect.  The loop of the library ends with an error it holds fatal,
\* as of TLS or of the protocol.
OnDisconnect ==
  /\ From("down")
  /\ connected' = FALSE /\ toSubscribe' = 0 /\ acked' = 0
  /\ Broadcast("client", "disconnected")
  /\ at' \in {"retry", "top"}
  /\ UNCHANGED <<services, stopReq, shutdown, mon, library, outside>>

\* loop_forever after its delay: it ends if disconnect() was called.
Retry ==
  /\ From("retry")
  /\ at' = IF request THEN "top" ELSE "reconnecting"
  /\ UNCHANGED <<services, connected, toSubscribe, acked, shared, library,
                 outside>>

-----------------------------------------------------------------------------
(* NotifyShutdown, on the monitor's thread.                                *)

\* Only a registered client is notified.
NotifyShutdown ==
  /\ mon = "idle" /\ at \notin {"starting", "registering"}
  /\ shutdown' = TRUE
  /\ mon' = "flagged"
  /\ UNCHANGED <<client, stopReq, shown, telling, library, outside>>

TearDown ==
  /\ mon = "flagged"
  /\ Broadcast("monitor", "tearing")
  /\ mon' = "tearing"
  /\ UNCHANGED <<client, stopReq, shutdown, library, outside>>

StopClient ==
  /\ mon = "tearing" /\ telling["monitor"] = "no"
  /\ stopReq' = TRUE
  /\ mon' = "stopping"
  /\ UNCHANGED <<client, shutdown, shown, telling, library, outside>>

\* disconnect(): without a socket it only leaves the request.
Disconnect ==
  /\ mon = "stopping"
  /\ request' = TRUE
  /\ bye' = (socket # "none")
  /\ missed' = (at = "reconnecting" /\ socket = "none")
  /\ mon' = "done"
  /\ UNCHANGED <<client, stopReq, shutdown, shown, telling, socket, asked,
                 unanswered, told, breaks, crossed>>

-----------------------------------------------------------------------------
Telling(t) == ReadStatus(t) \/ DeliverStatus(t)
Connecting == GetCredentials \/ Dial \/ DialSucceeds \/ EnterLoop
Answer == Accepted \/ Subscribed
Client == \/ Telling("client") \/ StartRun \/ InitRun \/ RunOrLeave \/ Connecting
          \/ SubscribeTopics \/ ByeWritten \/ OnDisconnect \/ Retry
Failure == DialFails \/ Refused \/ Lost
Monitor == Telling("monitor") \/ TearDown \/ StopClient \/ Disconnect

Next == Client \/ Answer \/ Failure \/ NotifyShutdown \/ Monitor

Spec == Init /\ [][Next]_vars

\* The threads go on, a socket is connected or refused within its timeout, and
\* the broker answers.  Nothing says that a connection is ever lost.
FairSpec ==
  /\ Spec
  /\ WF_vars(Client) /\ WF_vars(Answer) /\ WF_vars(Monitor)
  /\ WF_vars(ByeWritten)

-----------------------------------------------------------------------------
\* Every variable has its type: the client's counters never pass the topics it
\* can have (m_nNoOfTopicsToSubscribe, m_nNoOfTopicSubAckRcvd).
TypeOK ==
  /\ at \in Place /\ services \in 0..MaxServices /\ connected \in BOOLEAN
  /\ toSubscribe \in 0..MaxServices + 1 /\ acked \in 0..MaxServices + 1
  /\ stopReq \in BOOLEAN /\ shutdown \in BOOLEAN /\ shown \in Status
  /\ telling \in [Thread -> Status \cup {"no", "set"}]
  /\ mon \in {"idle", "flagged", "tearing", "stopping", "done"}
  /\ request \in BOOLEAN /\ socket \in {"none", "opening", "open"}
  /\ bye \in BOOLEAN /\ asked \in BOOLEAN /\ unanswered \in 0..MaxServices + 1
  /\ told \in Status /\ breaks \in 0..MaxBreaks
  /\ missed \in BOOLEAN /\ crossed \in BOOLEAN

\* While "complete" is shown, and the thread has not yet to handle the end of
\* the connection, the session is up and the broker has acknowledged every
\* subscription made in it: no acknowledgement of an earlier connection, and
\* no topic still to be counted, makes a session look complete.
CompleteIsReal ==
  (shown = "complete" /\ at # "down") =>
    /\ connected /\ socket = "open"
    /\ at = "looping" /\ acked = 1 + services /\ unanswered = 0

\* When the thread is gone, the uploaders see no connection and the last
\* status the device was sent is not that of a living connection, whatever
\* was in flight when the shutdown began; only if the monitor read another
\* status than its own may it be.
LastWord ==
  at = "done" =>
    /\ ~connected
    /\ telling["client"] = "no"
    /\ told \in {"disconnected", "tearing"} \/ crossed

\* A shutdown ends the client's thread wherever it finds it; only if it falls
\* between the last check of the library and its dialling does the thread go
\* on, for as long as the connection made then lasts.
StopEnds == shutdown ~> (at = "done" \/ (missed /\ socket = "open"))

\* Once connections hold, the client comes to a complete session, and the
\* device is told so, unless it is shut down.
Completes ==
  <>shutdown \/ <>[](shown = "complete" /\ told = "complete" /\ connected)
=============================================================================
