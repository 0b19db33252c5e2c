--------------------------- MODULE UploadRequests ---------------------------
(***************************************************************************)
(* What starts, suspends and ends the uploads: the two threads of          *)
(* CMQTTUploader, the callers of TriggerAlertsUpload, the reduction of a   *)
(* data base over its limit, which suspends the uploads meanwhile, and the *)
(* shutdown.                                                               *)
(*                                                                         *)
(* The event thread comes round by itself.  The alert thread sleeps in a   *)
(* Wait without a predicate, so a Notify that comes before the sleep is    *)
(* lost, and a wake-up needs no Notify.                                    *)
(* Every test of a flag is a step: it may change before the next.  What a  *)
(* batch is and how it is booked is the subject of StreamUpload; here rows *)
(* are only counted.                                                       *)
(***************************************************************************)
EXTENDS Integers

CONSTANTS
  Tries,         \* RETRY_COUNT
  Batch,         \* rows in a full batch
  MaxRows,       \* bound: rows stored
  MaxBreaks,     \* bound: losses of the connection
  MaxFaults,     \* bound: batches that fail over a live connection
  MaxReductions  \* bound: reductions of the data base

ASSUME RequestsAssumption ==
  /\ {Tries, Batch} \subseteq Nat \ {0}
  /\ {MaxRows, MaxBreaks, MaxFaults, MaxReductions} \subseteq Nat

Table == {"alert", "topiced", "event"}
Caller == {"writer", "network"}
Uploader == {"alert", "event"}

VARIABLES
  \* CMQTTUploader
  alert,             \* where the alert thread is
  event, phase,      \* where the event thread is, and with which rows
  alertsAvailable,   \* m_bAlertsAvailable
  suspended,         \* m_bUploadSuspended
  shutdownRequested, \* m_bShutdownRequested
  tries,             \* nCount of ProcessAlertUploads
  \* those who call them
  calling,           \* where each caller is in TriggerAlertsUpload
  reduction,         \* where the reduction of the data base is
  stopping,          \* where the monitor is in NotifyShutdown
  \* rows and connection
  pending,           \* rows of each kind not published yet
  stored, connected, breaks, faults, reductions,
  \* history
  passes,            \* rounds of uploads begun since the suspension
  late,              \* batches of each kind published since the shutdown
  gaveUp             \* the last try of the alert thread failed over a live
                     \* connection

flags == <<alertsAvailable, suspended, shutdownRequested, tries>>
callers == <<calling, reduction, reductions, stopping>>
world == <<stored, connected, breaks>>
uploads == <<pending, faults, late>>
vars == <<alert, event, phase, flags, callers, world, uploads, passes, gaveUp>>

Init == /\ alert = "off" /\ event = "off" /\ phase = "topiced"
        /\ alertsAvailable = TRUE /\ suspended = FALSE
        /\ shutdownRequested = FALSE /\ tries = 0
        /\ calling = [c \in Caller |-> "idle"]
        /\ reduction = "idle" /\ reductions = 0
        /\ stopping = "idle"
        /\ pending = [t \in Table |-> 0] /\ stored = 0
        /\ connected = FALSE /\ breaks = 0 /\ faults = 0
        /\ passes = [u \in Uploader |-> 0] /\ late = [t \in Table |-> 0]
        /\ gaveUp = FALSE

-----------------------------------------------------------------------------
(* A batch.                                                                *)

Rows(t) == IF pending[t] < Batch THEN pending[t] ELSE Batch

\* Publish and booking of a batch.
Published(t) ==
  /\ connected
  /\ pending' = [pending EXCEPT ![t] = @ - Rows(t)]
  /\ late' = IF shutdownRequested THEN [late EXCEPT ![t] = @ + 1] ELSE late
  /\ UNCHANGED faults

\* The publish or the booking fails; without a connection it always does.
Failed ==
  /\ \/ ~connected /\ UNCHANGED faults
     \/ connected /\ faults < MaxFaults /\ faults' = faults + 1
  /\ UNCHANGED <<pending, late>>

\* One more round of u is counted while the uploads are suspended.
CountPass(u) ==
  passes' = IF suspended /\ passes[u] < 3 THEN [passes EXCEPT ![u] = @ + 1]
            ELSE passes

-----------------------------------------------------------------------------
(* The alert thread: RequestAlertsUpload.                                  *)

AlertElse == <<event, phase, callers, world>>

\* The loop's condition and the test of m_bAlertsAvailable.
TestAlerts ==
  /\ alert = "flag"
  /\ alert' = IF shutdownRequested THEN "done"
              ELSE IF alertsAvailable THEN "suspension" ELSE "wait"
  /\ UNCHANGED <<AlertElse, flags, uploads, passes, gaveUp>>

WaitForAlerts ==
  /\ alert = "wait"
  /\ alert' = "asleep"
  /\ UNCHANGED <<AlertElse, flags, uploads, passes, gaveUp>>

\* A condition variable may wake its waiter by itself.
WakeAlert ==
  /\ alert = "asleep"
  /\ alert' = "suspension"
  /\ UNCHANGED <<AlertElse, flags, uploads, passes, gaveUp>>

\* Variant: a suspension that is over when the thread has slept is not looked
\* at again.
CheckAlertSuspensionOnce ==
  /\ alert = "suspension"
  /\ alert' = "link"
  /\ UNCHANGED <<AlertElse, flags, uploads, passes, gaveUp>>

\* Suspended or without a connection it sleeps a while and starts over.
CheckAlertSuspension ==
  /\ alert = "suspension"
  /\ alert' = IF suspended /\ ~shutdownRequested THEN "flag" ELSE "link"
  /\ UNCHANGED <<AlertElse, flags, uploads, passes, gaveUp>>

CheckAlertLink ==
  /\ alert = "link"
  /\ alert' = IF connected THEN "clear" ELSE "flag"
  /\ UNCHANGED <<AlertElse, flags, uploads, passes, gaveUp>>

\* The flag is cleared before the alerts are looked for.
ClearAlerts ==
  /\ alert = "clear"
  /\ alertsAvailable' = FALSE /\ tries' = 0 /\ gaveUp' = FALSE
  /\ CountPass("alert")
  /\ alert' = "try"
  /\ UNCHANGED <<AlertElse, suspended, shutdownRequested, uploads>>

\* Variant: the flag is cleared when the alerts are done with.
TryAlertsThenClear ==
  /\ alert = "try"
  /\ \/ /\ tries < Tries /\ ~shutdownRequested
        /\ alert' = IF connected THEN "query" ELSE "try"
        /\ tries' = tries + 1 /\ UNCHANGED alertsAvailable
     \/ /\ tries = Tries \/ shutdownRequested
        /\ alert' = IF shutdownRequested THEN "done" ELSE "flag"
        /\ alertsAvailable' = FALSE /\ UNCHANGED tries
  /\ UNCHANGED <<AlertElse, suspended, shutdownRequested, uploads, passes,
                 gaveUp>>

\* Variant: one try too many.
TryAlertsOnceMore ==
  /\ alert = "try"
  /\ \/ /\ tries <= Tries /\ ~shutdownRequested
        /\ alert' = IF connected THEN "query" ELSE "try"
        /\ tries' = tries + 1
     \/ /\ tries > Tries \/ shutdownRequested
        /\ alert' = IF shutdownRequested THEN "done" ELSE "flag"
        /\ UNCHANGED tries
  /\ UNCHANGED <<AlertElse, alertsAvailable, suspended, shutdownRequested,
                 uploads, passes, gaveUp>>

\* ProcessAlertUploads: all its tries are made, a second apart, whether or not
\* one succeeds; without a connection a try is over at once.
TryAlerts ==
  /\ alert = "try"
  /\ \/ /\ tries < Tries /\ ~shutdownRequested
        /\ alert' = IF connected THEN "query" ELSE "try"
        /\ tries' = tries + 1
     \/ /\ tries = Tries \/ shutdownRequested
        /\ alert' = IF shutdownRequested THEN "done" ELSE "flag"
        /\ UNCHANGED tries
  /\ UNCHANGED <<AlertElse, alertsAvailable, suspended, shutdownRequested,
                 uploads, passes, gaveUp>>

\* Variant: the loop of UploadAlerts goes on until no alert is left.
QueryAlertsToTheEnd ==
  /\ alert = "query"
  /\ alert' = IF pending["alert"] = 0 THEN "try" ELSE "publish"
  /\ UNCHANGED <<AlertElse, flags, uploads, passes, gaveUp>>

\* UploadAlerts: the condition of its loop and the query.
QueryAlerts ==
  /\ alert = "query"
  /\ alert' = IF shutdownRequested \/ pending["alert"] = 0 THEN "try"
              ELSE "publish"
  /\ UNCHANGED <<AlertElse, flags, uploads, passes, gaveUp>>

PublishAlerts ==
  /\ alert = "publish"
  /\ \/ Published("alert") /\ alert' = "query" /\ UNCHANGED gaveUp
     \/ Failed /\ alert' = "try" /\ gaveUp' = (connected /\ tries = Tries)
  /\ UNCHANGED <<AlertElse, flags, passes>>

-----------------------------------------------------------------------------
(* The event thread: Run and StartEventsUpload.                            *)

EventElse == <<flags, callers, world, gaveUp>>

\* Run registers, starts the MQTT client, and a timer the alert thread.
StartUploader ==
  /\ event = "off"
  /\ event' = "loop" /\ alert' = "flag"
  /\ UNCHANGED <<phase, EventElse, uploads, passes>>

\* Variant: the request to shut down is not looked at between two rounds.
EventLoopForever ==
  /\ event = "loop"
  /\ event' = "suspension"
  /\ UNCHANGED <<alert, phase, EventElse, uploads, passes>>

\* Nothing is requested between two rounds: the shutdown ends the thread, or
\* else WaitForNextUploadRequest returns when the period is over or the
\* shutdown ends it.
EventLoop ==
  /\ event = "loop"
  /\ event' = IF shutdownRequested THEN "done" ELSE "suspension"
  /\ UNCHANGED <<alert, phase, EventElse, uploads, passes>>

\* It stays here, a period at a time, while the uploads are suspended.
CheckEventSuspension ==
  /\ event = "suspension"
  /\ ~suspended \/ shutdownRequested
  /\ event' = "trigger"
  /\ UNCHANGED <<alert, phase, EventElse, uploads, passes>>

\* TriggerEventUploads: the topiced events, then the others.
TriggerEventUploads ==
  /\ event = "trigger"
  /\ IF connected THEN CountPass("event") /\ event' = "query"
     ELSE event' = "loop" /\ UNCHANGED passes
  /\ phase' = "topiced"
  /\ UNCHANGED <<alert, EventElse, uploads>>

\* After the topiced events, or on their error, come the others; each of the
\* two asks for the connection again.
NextPhase ==
  IF phase = "topiced" THEN event' = "query" /\ phase' = "event"
  ELSE event' = "loop" /\ UNCHANGED phase

QueryEvents ==
  /\ event = "query"
  /\ IF connected /\ pending[phase] > 0 THEN event' = "publish" /\ UNCHANGED phase
     ELSE NextPhase
  /\ UNCHANGED <<alert, EventElse, uploads, passes>>

\* A full batch is followed by another one, but not once the shutdown is
\* requested; one of events that cannot be compressed is tried again.
PublishEvents ==
  /\ event = "publish"
  /\ \/ /\ Published(phase)
        /\ IF Rows(phase) = Batch /\ ~shutdownRequested
           THEN event' = "query" /\ UNCHANGED phase ELSE NextPhase
     \/ Failed /\ NextPhase
     \/ /\ phase = "event" /\ Rows(phase) = Batch /\ ~shutdownRequested
        /\ connected /\ Failed
        /\ event' = "query" /\ UNCHANGED phase
  /\ UNCHANGED <<alert, EventElse, passes>>

-----------------------------------------------------------------------------
(* The callers of TriggerAlertsUpload.                                     *)

CallElse == <<event, phase, suspended, shutdownRequested, tries,
              reduction, reductions, stopping, faults, late, passes, gaveUp>>

\* A row is inserted; an alert is announced by the thread that stored it.
Store(t) ==
  /\ stored < MaxRows /\ stored' = stored + 1
  /\ calling["writer"] = "idle"
  /\ pending' = [pending EXCEPT ![t] = @ + 1]
  /\ calling' = IF t = "alert" THEN [calling EXCEPT !["writer"] = "flag"]
                ELSE calling
  /\ UNCHANGED <<CallElse, alert, alertsAvailable, connected, breaks>>

\* Variant: nobody is told that the connection is back.
ConnectQuietly ==
  /\ ~connected /\ calling["network"] = "idle"
  /\ connected' = TRUE
  /\ UNCHANGED <<CallElse, alert, alertsAvailable, stored, pending, breaks,
                 calling>>

\* on_connect.
Connect ==
  /\ ~connected /\ calling["network"] = "idle"
  /\ connected' = TRUE
  /\ calling' = [calling EXCEPT !["network"] = "flag"]
  /\ UNCHANGED <<CallElse, alert, alertsAvailable, stored, pending, breaks>>

\* on_disconnect.
Disconnect ==
  /\ connected /\ calling["network"] = "idle"
  /\ breaks < MaxBreaks /\ breaks' = breaks + 1
  /\ connected' = FALSE
  /\ UNCHANGED <<CallElse, alert, alertsAvailable, stored, pending, calling>>

\* AlertUpload sets the flag, then notifies.
AnnounceAlert(c) ==
  /\ calling[c] = "flag"
  /\ alertsAvailable' = TRUE
  /\ calling' = [calling EXCEPT ![c] = "notify"]
  /\ UNCHANGED <<CallElse, alert, world, pending>>

\* ConditionBroadcast: it wakes the alert thread if it sleeps already.
Awoken == IF alert = "asleep" THEN "suspension" ELSE alert

NotifyAlert(c) ==
  /\ calling[c] = "notify"
  /\ alert' = Awoken
  /\ calling' = [calling EXCEPT ![c] = "idle"]
  /\ UNCHANGED <<CallElse, alertsAvailable, world, pending>>

-----------------------------------------------------------------------------
(* The reduction of the data base.                                         *)

ReductionElse == <<alert, event, phase, alertsAvailable, shutdownRequested,
                   tries, calling, stopping, world, uploads, gaveUp>>

SuspendUploads ==
  /\ reduction = "idle" /\ reductions < MaxReductions
  /\ reductions' = reductions + 1
  /\ suspended' = TRUE
  /\ passes' = [u \in Uploader |-> 0]
  /\ reduction' = "reducing"
  /\ UNCHANGED ReductionElse

ResumeUploads ==
  /\ reduction = "reducing"
  /\ suspended' = FALSE
  /\ passes' = [u \in Uploader |-> 0]
  /\ reduction' = "idle"
  /\ UNCHANGED <<ReductionElse, reductions>>

-----------------------------------------------------------------------------
(* NotifyShutdown of CMQTTUploader.                                        *)

StopElse == <<event, phase, alertsAvailable, suspended, tries, calling,
              reduction, reductions, world, uploads, passes, gaveUp>>

RequestShutdown ==
  /\ stopping = "idle" /\ event # "off"
  /\ shutdownRequested' = TRUE
  /\ stopping' = "flagged"
  /\ UNCHANGED <<StopElse, alert>>

\* Notify(eTT_ALERT) and NotifySuspended; the latter only cuts sleeps short.
NotifyUploader ==
  /\ stopping = "flagged"
  /\ alert' = Awoken
  /\ stopping' = "done"
  /\ UNCHANGED <<StopElse, shutdownRequested>>

-----------------------------------------------------------------------------
AlertThread ==
  \/ TestAlerts \/ WaitForAlerts \/ CheckAlertSuspension \/ CheckAlertLink
  \/ ClearAlerts \/ TryAlerts \/ QueryAlerts \/ PublishAlerts
EventThread ==
  \/ StartUploader \/ EventLoop \/ CheckEventSuspension
  \/ TriggerEventUploads \/ QueryEvents \/ PublishEvents
Call(c) == AnnounceAlert(c) \/ NotifyAlert(c)
World == (\E t \in Table : Store(t)) \/ Connect \/ Disconnect

Next == \/ AlertThread \/ EventThread \/ World \/ WakeAlert
        \/ \E c \in Caller : Call(c)
        \/ SuspendUploads \/ ResumeUploads
        \/ RequestShutdown \/ NotifyUploader

Spec == Init /\ [][Next]_vars

\* Every thread goes on, a reduction ends, and the client connects again.
FairSpec ==
  /\ Spec
  /\ WF_vars(AlertThread) /\ WF_vars(EventThread)
  /\ \A c \in Caller : WF_vars(Call(c))
  /\ WF_vars(ResumeUploads) /\ WF_vars(Connect)
  /\ WF_vars(NotifyUploader)

-----------------------------------------------------------------------------
\* Every variable has its type: a published batch never takes more rows than
\* there are (UploadAlerts, UploadTopicedEvents, UploadEvents).
TypeOK ==
  /\ alert \in {"off", "flag", "wait", "asleep", "suspension", "link", "clear",
                "try", "query", "publish", "done"}
  /\ event \in {"off", "loop", "suspension", "trigger", "query",
                "publish", "done"}
  /\ phase \in {"topiced", "event"}
  /\ alertsAvailable \in BOOLEAN /\ suspended \in BOOLEAN
  /\ shutdownRequested \in BOOLEAN /\ tries \in 0..Tries
  /\ calling \in [Caller -> {"idle", "flag", "notify"}]
  /\ reduction \in {"idle", "reducing"} /\ reductions \in 0..MaxReductions
  /\ stopping \in {"idle", "flagged", "done"}
  /\ pending \in [Table -> Nat] /\ stored \in 0..MaxRows
  /\ connected \in BOOLEAN /\ breaks \in 0..MaxBreaks /\ faults \in 0..MaxFaults
  /\ passes \in [Uploader -> 0..3] /\ late \in [Table -> Nat]
  /\ gaveUp \in BOOLEAN

\* The uploads are suspended at once only in name: each thread may still begin
\* one round it had decided on, and one more when the shutdown ends its wait;
\* beyond that no round begins until the uploads are resumed.
SuspensionHolds ==
  suspended => \A u \in Uploader : passes[u] <= IF shutdownRequested THEN 2 ELSE 1

\* Once the shutdown is requested each kind of row is published in one more
\* batch at most, by whichever thread, also by the alert thread, which nobody
\* waits for: the data base is closed soon after.
ShutdownIsBrief == \A t \in Table : late[t] <= 1

\* The alert thread sleeps although there is something to upload: the
\* announcement came between its test of the flag and its sleep, or every try
\* has failed.
Overslept == alert = "asleep" /\ (alertsAvailable \/ gaveUp)

\* With a connection, alerts in the data base and no shutdown, somebody still
\* knows of the alerts: the flag, a caller about to set it, or a round that has
\* not looked for the last time - or every try of the last round has failed.
\* The flag is cleared before the query and set after the insertion or the
\* connection, each by another thread (RequestAlertsUpload, AlertUpload).
NoAlertForgotten ==
  connected /\ pending["alert"] > 0 /\ ~shutdownRequested =>
    \/ alertsAvailable
    \/ \E c \in Caller : calling[c] = "flag"
    \/ alert \in {"query", "publish"}
    \/ alert = "try" /\ tries < Tries
    \/ gaveUp

\* In the end every row stored is published, whatever suspensions and losses
\* of the connection came in between; alerts may be left only by an alert
\* thread that overslept.
AllUploaded ==
  <>shutdownRequested \/
  <>[](/\ pending["topiced"] = 0 /\ pending["event"] = 0
       /\ pending["alert"] = 0 \/ Overslept)

\* A shutdown ends the event thread, for which it waits, suspended or not, and
\* the alert thread, for which it does not, unless that overslept the notice.
EndsOnShutdown ==
  shutdownRequested ~>
    (event = "done" /\ alert \in {"done", "asleep"})
=============================================================================
