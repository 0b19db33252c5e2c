------------------------ MODULE UploadRequests_proofs ------------------------
(***************************************************************************)
(* Proofs about UploadRequests: the types, and from one inductive          *)
(* invariant that a suspension lets at most one round more begin, two at a *)
(* shutdown, and that each kind of row is published in at most one batch   *)
(* more once the shutdown is requested.  On top of it, that no alert is    *)
(* forgotten while there is a connection.                                  *)
(***************************************************************************)
EXTENDS UploadRequests, TLAPS

\* Where the threads may still publish after the request to shut down, their
\* batch is not published yet.
BriefInv ==
  /\ ~shutdownRequested => \A t \in Table : late[t] = 0
  /\ alert = "publish" => late["alert"] = 0
  /\ event \in {"suspension", "trigger"} =>
       late["topiced"] = 0 /\ late["event"] = 0
  /\ event \in {"query", "publish"} =>
       late["event"] = 0 /\ (phase = "topiced" => late["topiced"] = 0)
  /\ ShutdownIsBrief

\* Where the threads may still begin a round, they have begun one less since
\* the suspension.
AlertInv ==
  /\ event = "off" => alert = "off"
  /\ suspended =>
    /\ passes["alert"] <= 2
    /\ ~shutdownRequested => passes["alert"] <= 1
    /\ alert \in {"off", "flag", "wait", "asleep", "suspension", "link",
                  "clear"} => passes["alert"] <= 1
    /\ ~shutdownRequested /\ alert \in {"link", "clear"} =>
         passes["alert"] = 0
EventInv ==
  suspended =>
    /\ passes["event"] <= 2
    /\ ~shutdownRequested => passes["event"] <= 1
    /\ event \in {"suspension", "trigger"} => passes["event"] <= 1
    /\ ~shutdownRequested /\ event = "trigger" => passes["event"] = 0

Inv == TypeOK /\ BriefInv /\ AlertInv /\ EventInv

\* The types, in three parts.
TypeA ==
  /\ alert \in {"off", "flag", "wait", "asleep", "suspension", "link", "clear",
                "try", "query", "publish", "done"}
  /\ event \in {"off", "loop", "suspension", "trigger", "query",
                "publish", "done"}
  /\ phase \in {"topiced", "event"}
  /\ tries \in 0..Tries
TypeB ==
  /\ alertsAvailable \in BOOLEAN /\ suspended \in BOOLEAN
  /\ shutdownRequested \in BOOLEAN
  /\ reduction \in {"idle", "reducing"} /\ reductions \in 0..MaxReductions
  /\ stopping \in {"idle", "flagged", "done"}
  /\ stored \in 0..MaxRows /\ connected \in BOOLEAN
  /\ breaks \in 0..MaxBreaks /\ faults \in 0..MaxFaults /\ gaveUp \in BOOLEAN
TypeC ==
  /\ calling \in [Caller -> {"idle", "flag", "notify"}]
  /\ pending \in [Table -> Nat] /\ passes \in [Uploader -> 0..3]
  /\ late \in [Table -> Nat]

-----------------------------------------------------------------------------
\* The bounds, and what is counted up to them.
LEMMA Bounds ==
  /\ Tries \in Nat /\ Batch \in Nat /\ MaxRows \in Nat /\ MaxBreaks \in Nat
  /\ MaxFaults \in Nat /\ MaxReductions \in Nat
  /\ 0 \in 0..Tries /\ 0 \in 0..MaxRows /\ 0 \in 0..MaxBreaks
  /\ 0 \in 0..MaxFaults /\ 0 \in 0..MaxReductions
  /\ \A N \in Nat : \A n \in 0..N : n < N => n + 1 \in 0..N
<1>1. /\ Tries \in Nat /\ Batch \in Nat /\ MaxRows \in Nat /\ MaxBreaks \in Nat
      /\ MaxFaults \in Nat /\ MaxReductions \in Nat
  BY RequestsAssumption
<1> QED
  BY <1>1

\* The types are the three parts.
LEMMA Parts == TypeOK <=> TypeA /\ TypeB /\ TypeC
BY DEF TypeOK, TypeA, TypeB, TypeC

\* A batch takes rows that are there.
LEMMA RowsThere ==
  ASSUME TypeOK, NEW t \in Table PROVE pending[t] - Rows(t) \in Nat
<1>1. pending[t] \in Nat /\ Batch \in Nat
  BY RequestsAssumption DEF TypeOK
<1> QED
  BY <1>1 DEF Rows

\* Every step keeps the types of where the uploader's threads are.
LEMMA TypeAStep ==
  ASSUME Inv, [Next]_vars PROVE TypeA'
<1>0. TypeA /\ TypeB /\ TypeC
  BY Parts DEF Inv
<1> USE DEF TypeA, TypeB, TypeC
<1>1. CASE TestAlerts
  BY <1>0, <1>1 DEF TestAlerts, AlertElse, flags, callers, world, uploads
<1>2. CASE WaitForAlerts
  BY <1>0, <1>2 DEF WaitForAlerts, AlertElse, flags, callers, world, uploads
<1>3. CASE CheckAlertSuspension
  BY <1>0, <1>3 DEF CheckAlertSuspension, AlertElse, flags, callers, world, uploads
<1>4. CASE CheckAlertLink
  BY <1>0, <1>4 DEF CheckAlertLink, AlertElse, flags, callers, world, uploads
<1>5. CASE ClearAlerts
  BY <1>0, <1>5, Bounds DEF ClearAlerts, AlertElse, CountPass, flags, callers, world, uploads
<1>6. CASE TryAlerts
  BY <1>0, <1>6, Bounds DEF TryAlerts, AlertElse, flags, callers, world, uploads
<1>7. CASE QueryAlerts
  BY <1>0, <1>7 DEF QueryAlerts, AlertElse, flags, callers, world, uploads
<1>8. CASE PublishAlerts
  BY <1>0, <1>8 DEF PublishAlerts, AlertElse, Published, Failed, flags, callers, world, uploads
<1>9. CASE StartUploader
  BY <1>0, <1>9 DEF StartUploader, EventElse, flags, callers, world, uploads
<1>10. CASE EventLoop
  BY <1>0, <1>10 DEF EventLoop, EventElse, flags, callers, world, uploads
<1>11. CASE CheckEventSuspension
  BY <1>0, <1>11 DEF CheckEventSuspension, EventElse, flags, callers, world, uploads
<1>12. CASE TriggerEventUploads
  BY <1>0, <1>12 DEF TriggerEventUploads, EventElse, CountPass, flags, callers, world, uploads
<1>13. CASE QueryEvents
  BY <1>0, <1>13 DEF QueryEvents, EventElse, NextPhase, flags, callers, world, uploads
<1>14. CASE PublishEvents
  BY <1>0, <1>14 DEF PublishEvents, EventElse, Published, Failed, NextPhase, flags, callers, world, uploads
<1>15. CASE WakeAlert
  BY <1>0, <1>15 DEF WakeAlert, AlertElse, flags, callers, world, uploads
<1>16. ASSUME NEW c \in Caller, NotifyAlert(c) PROVE TypeA'
  BY <1>0, <1>16 DEF NotifyAlert, CallElse, Awoken, flags, callers, world, uploads
<1>17. CASE NotifyUploader
  BY <1>0, <1>17 DEF NotifyUploader, StopElse, Awoken, flags, callers, world, uploads
<1>18. CASE UNCHANGED <<alert, event, phase, tries>>
  BY <1>0, <1>18
<1>19. ASSUME NEW t \in Table, Store(t) PROVE TypeA'
  BY <1>18, <1>19 DEF Store, CallElse, flags, callers, world, uploads
<1>20. CASE Connect
  BY <1>18, <1>20 DEF Connect, CallElse, flags, callers, world, uploads
<1>21. CASE Disconnect
  BY <1>18, <1>21 DEF Disconnect, CallElse, flags, callers, world, uploads
<1>22. ASSUME NEW c \in Caller, AnnounceAlert(c) PROVE TypeA'
  BY <1>18, <1>22 DEF AnnounceAlert, CallElse, flags, callers, world, uploads
<1>23. CASE SuspendUploads
  BY <1>18, <1>23 DEF SuspendUploads, ReductionElse, flags, callers, world, uploads
<1>24. CASE ResumeUploads
  BY <1>18, <1>24 DEF ResumeUploads, ReductionElse, flags, callers, world, uploads
<1>25. CASE RequestShutdown
  BY <1>18, <1>25 DEF RequestShutdown, StopElse, flags, callers, world, uploads
<1>26. CASE UNCHANGED vars
  BY <1>0, <1>26 DEF vars, flags, callers, world, uploads
<1> HIDE DEF TypeA, TypeB, TypeC
<1> QED
  BY <1>1, <1>2, <1>3, <1>4, <1>5, <1>6, <1>7, <1>8, <1>9, <1>10, <1>11,
     <1>12, <1>13, <1>14, <1>15, <1>16, <1>17, <1>18, <1>19, <1>20, <1>21,
     <1>22, <1>23, <1>24, <1>25, <1>26
  DEF Next, AlertThread, EventThread, World, Call

\* Every step keeps the types of the flags and the counters.
LEMMA TypeBStep ==
  ASSUME Inv, [Next]_vars PROVE TypeB'
<1>0. TypeA /\ TypeB /\ TypeC
  BY Parts DEF Inv
<1> USE DEF TypeA, TypeB, TypeC
<1>1. CASE TestAlerts
  BY <1>0, <1>1 DEF TestAlerts, AlertElse, flags, callers, world, uploads
<1>2. CASE WaitForAlerts
  BY <1>0, <1>2 DEF WaitForAlerts, AlertElse, flags, callers, world, uploads
<1>3. CASE CheckAlertSuspension
  BY <1>0, <1>3 DEF CheckAlertSuspension, AlertElse, flags, callers, world, uploads
<1>4. CASE CheckAlertLink
  BY <1>0, <1>4 DEF CheckAlertLink, AlertElse, flags, callers, world, uploads
<1>5. CASE ClearAlerts
  BY <1>0, <1>5 DEF ClearAlerts, AlertElse, CountPass, flags, callers, world, uploads
<1>6. CASE TryAlerts
  BY <1>0, <1>6 DEF TryAlerts, AlertElse, flags, callers, world, uploads
<1>7. CASE QueryAlerts
  BY <1>0, <1>7 DEF QueryAlerts, AlertElse, flags, callers, world, uploads
<1>8. CASE PublishAlerts
  <2>1. faults' \in 0..MaxFaults
    BY <1>0, <1>8, Bounds DEF PublishAlerts, Published, Failed
  <2>2. gaveUp' \in BOOLEAN
    BY <1>0, <1>8 DEF PublishAlerts
  <2> QED
    BY <1>0, <1>8, <2>1, <2>2 DEF PublishAlerts, AlertElse, flags, callers, world
<1>9. CASE StartUploader
  BY <1>0, <1>9 DEF StartUploader, EventElse, flags, callers, world, uploads
<1>10. CASE EventLoop
  BY <1>0, <1>10 DEF EventLoop, EventElse, flags, callers, world, uploads
<1>11. CASE CheckEventSuspension
  BY <1>0, <1>11 DEF CheckEventSuspension, EventElse, flags, callers, world, uploads
<1>12. CASE TriggerEventUploads
  BY <1>0, <1>12 DEF TriggerEventUploads, EventElse, CountPass, flags, callers, world, uploads
<1>13. CASE QueryEvents
  BY <1>0, <1>13 DEF QueryEvents, EventElse, NextPhase, flags, callers, world, uploads
<1>14. CASE PublishEvents
  <2>1. faults' \in 0..MaxFaults
    BY <1>0, <1>14, Bounds DEF PublishEvents, Published, Failed
  <2> QED
    BY <1>0, <1>14, <2>1 DEF PublishEvents, EventElse, flags, callers, world
<1>15. ASSUME NEW t \in Table, Store(t) PROVE TypeB'
  BY <1>0, <1>15, Bounds DEF Store, CallElse, flags, callers, world, uploads
<1>16. CASE Connect
  BY <1>0, <1>16 DEF Connect, CallElse, flags, callers, world, uploads
<1>17. CASE Disconnect
  BY <1>0, <1>17, Bounds DEF Disconnect, CallElse, flags, callers, world, uploads
<1>18. CASE WakeAlert
  BY <1>0, <1>18 DEF WakeAlert, AlertElse, flags, callers, world, uploads
<1>19. ASSUME NEW c \in Caller, AnnounceAlert(c) PROVE TypeB'
  BY <1>0, <1>19 DEF AnnounceAlert, CallElse, flags, callers, world, uploads
<1>20. ASSUME NEW c \in Caller, NotifyAlert(c) PROVE TypeB'
  BY <1>0, <1>20 DEF NotifyAlert, CallElse, Awoken, flags, callers, world, uploads
<1>21. CASE SuspendUploads
  BY <1>0, <1>21, Bounds DEF SuspendUploads, ReductionElse, flags, callers, world, uploads
<1>22. CASE ResumeUploads
  BY <1>0, <1>22 DEF ResumeUploads, ReductionElse, flags, callers, world, uploads
<1>23. CASE RequestShutdown
  BY <1>0, <1>23 DEF RequestShutdown, StopElse, flags, callers, world, uploads
<1>24. CASE NotifyUploader
  BY <1>0, <1>24 DEF NotifyUploader, StopElse, Awoken, flags, callers, world, uploads
<1>25. CASE UNCHANGED vars
  BY <1>0, <1>25 DEF vars, flags, callers, world, uploads
<1> HIDE DEF TypeA, TypeB, TypeC
<1> QED
  BY <1>1, <1>2, <1>3, <1>4, <1>5, <1>6, <1>7, <1>8, <1>9, <1>10, <1>11,
     <1>12, <1>13, <1>14, <1>15, <1>16, <1>17, <1>18, <1>19, <1>20, <1>21,
     <1>22, <1>23, <1>24, <1>25
  DEF Next, AlertThread, EventThread, World, Call

\* Every step keeps the types of the rows and the rounds counted.
LEMMA TypeCStep ==
  ASSUME Inv, [Next]_vars PROVE TypeC'
<1>0. TypeA /\ TypeB /\ TypeC
  BY Parts DEF Inv
<1> USE DEF TypeA, TypeB, TypeC
<1>1. CASE ClearAlerts
  <2>1. passes' \in [Uploader -> 0..3]
    BY <1>0, <1>1 DEF ClearAlerts, CountPass, Uploader
  <2> QED
    BY <1>0, <1>1, <2>1 DEF ClearAlerts, AlertElse, callers, uploads
<1>2. CASE PublishAlerts
  <2>1. \/ UNCHANGED <<pending, late>>
        \/ /\ pending' = [pending EXCEPT !["alert"] = @ - Rows("alert")]
           /\ late' = late \/ late' = [late EXCEPT !["alert"] = @ + 1]
    BY <1>2 DEF PublishAlerts, Published, Failed
  <2>2. pending["alert"] - Rows("alert") \in Nat
    BY <1>0, Parts, RowsThere DEF Table
  <2>3. UNCHANGED <<calling, passes>>
    BY <1>2 DEF PublishAlerts, AlertElse, callers
  <2> QED
    BY <1>0, <2>1, <2>2, <2>3 DEF Table
<1>3. CASE TriggerEventUploads
  <2>1. passes' \in [Uploader -> 0..3]
    BY <1>0, <1>3 DEF TriggerEventUploads, CountPass, Uploader
  <2> QED
    BY <1>0, <1>3, <2>1 DEF TriggerEventUploads, EventElse, callers, uploads
<1>4. CASE PublishEvents
  <2>1. \/ UNCHANGED <<pending, late>>
        \/ /\ pending' = [pending EXCEPT ![phase] = @ - Rows(phase)]
           /\ late' = late \/ late' = [late EXCEPT ![phase] = @ + 1]
    BY <1>4 DEF PublishEvents, Published, Failed
  <2>2. pending[phase] - Rows(phase) \in Nat
    BY <1>0, Parts, RowsThere DEF Table
  <2>3. UNCHANGED <<calling, passes>>
    BY <1>4 DEF PublishEvents, EventElse, callers
  <2> QED
    BY <1>0, <2>1, <2>2, <2>3 DEF Table
<1>5. ASSUME NEW t \in Table, Store(t) PROVE TypeC'
  <2>1. pending[t] + 1 \in Nat
    BY <1>0
  <2>2. calling' \in [Caller -> {"idle", "flag", "notify"}]
    BY <1>0, <1>5 DEF Store, Caller
  <2>3. UNCHANGED <<passes, late>>
    BY <1>5 DEF Store, CallElse
  <2> QED
    BY <1>0, <1>5, <2>1, <2>2, <2>3 DEF Store
<1>6. CASE Connect
  BY <1>0, <1>6 DEF Connect, CallElse, flags, callers, world, uploads
<1>7. ASSUME NEW c \in Caller, AnnounceAlert(c) PROVE TypeC'
  BY <1>0, <1>7 DEF AnnounceAlert, CallElse, flags, callers, world, uploads
<1>8. ASSUME NEW c \in Caller, NotifyAlert(c) PROVE TypeC'
  BY <1>0, <1>8 DEF NotifyAlert, CallElse, Awoken, flags, callers, world, uploads
<1>9. CASE SuspendUploads
  BY <1>0, <1>9 DEF SuspendUploads, ReductionElse, flags, callers, world, uploads
<1>10. CASE ResumeUploads
  BY <1>0, <1>10 DEF ResumeUploads, ReductionElse, flags, callers, world, uploads
<1>11. CASE UNCHANGED <<calling, pending, passes, late>>
  BY <1>0, <1>11
<1>12. CASE TestAlerts
  BY <1>11, <1>12 DEF TestAlerts, AlertElse, flags, callers, world, uploads
<1>13. CASE WaitForAlerts
  BY <1>11, <1>13 DEF WaitForAlerts, AlertElse, flags, callers, world, uploads
<1>14. CASE CheckAlertSuspension
  BY <1>11, <1>14 DEF CheckAlertSuspension, AlertElse, flags, callers, world, uploads
<1>15. CASE CheckAlertLink
  BY <1>11, <1>15 DEF CheckAlertLink, AlertElse, flags, callers, world, uploads
<1>16. CASE TryAlerts
  BY <1>11, <1>16 DEF TryAlerts, AlertElse, flags, callers, world, uploads
<1>17. CASE QueryAlerts
  BY <1>11, <1>17 DEF QueryAlerts, AlertElse, flags, callers, world, uploads
<1>18. CASE StartUploader
  BY <1>11, <1>18 DEF StartUploader, EventElse, flags, callers, world, uploads
<1>19. CASE EventLoop
  BY <1>11, <1>19 DEF EventLoop, EventElse, flags, callers, world, uploads
<1>20. CASE CheckEventSuspension
  BY <1>11, <1>20 DEF CheckEventSuspension, EventElse, flags, callers, world, uploads
<1>21. CASE QueryEvents
  BY <1>11, <1>21 DEF QueryEvents, EventElse, flags, callers, world, uploads
<1>22. CASE Disconnect
  BY <1>11, <1>22 DEF Disconnect, CallElse, flags, callers, world, uploads
<1>23. CASE WakeAlert
  BY <1>11, <1>23 DEF WakeAlert, AlertElse, flags, callers, world, uploads
<1>24. CASE RequestShutdown
  BY <1>11, <1>24 DEF RequestShutdown, StopElse, flags, callers, world, uploads
<1>25. CASE NotifyUploader
  BY <1>11, <1>25 DEF NotifyUploader, StopElse, flags, callers, world, uploads
<1>26. CASE UNCHANGED vars
  BY <1>0, <1>26 DEF vars, flags, callers, world, uploads
<1> HIDE DEF TypeA, TypeB, TypeC
<1> QED
  BY <1>1, <1>2, <1>3, <1>4, <1>5, <1>6, <1>7, <1>8, <1>9, <1>10, <1>11,
     <1>12, <1>13, <1>14, <1>15, <1>16, <1>17, <1>18, <1>19, <1>20, <1>21,
     <1>22, <1>23, <1>24, <1>25, <1>26
  DEF Next, AlertThread, EventThread, World, Call

\* Every step keeps what is published at a shutdown.
LEMMA BriefStep ==
  ASSUME Inv, [Next]_vars PROVE BriefInv'
<1>0. TypeA /\ TypeB /\ TypeC /\ BriefInv
  BY Parts DEF Inv
<1> USE DEF TypeA, TypeB, TypeC, BriefInv, ShutdownIsBrief, Table
<1>1. CASE TestAlerts
  BY <1>0, <1>1 DEF TestAlerts, AlertElse, flags, callers, world, uploads
<1>2. CASE WaitForAlerts
  BY <1>0, <1>2 DEF WaitForAlerts, AlertElse, flags, callers, world, uploads
<1>3. CASE CheckAlertSuspension
  BY <1>0, <1>3 DEF CheckAlertSuspension, AlertElse, flags, callers, world, uploads
<1>4. CASE CheckAlertLink
  BY <1>0, <1>4 DEF CheckAlertLink, AlertElse, flags, callers, world, uploads
<1>5. CASE ClearAlerts
  BY <1>0, <1>5 DEF ClearAlerts, AlertElse, CountPass, flags, callers, world, uploads
<1>6. CASE TryAlerts
  BY <1>0, <1>6 DEF TryAlerts, AlertElse, flags, callers, world, uploads
<1>7. CASE QueryAlerts
  BY <1>0, <1>7 DEF QueryAlerts, AlertElse, flags, callers, world, uploads
<1>8. CASE PublishAlerts
  BY <1>0, <1>8 DEF PublishAlerts, AlertElse, Published, Failed, flags, callers, world, uploads
<1>9. CASE StartUploader
  BY <1>0, <1>9 DEF StartUploader, EventElse, flags, callers, world, uploads
<1>10. CASE EventLoop
  BY <1>0, <1>10 DEF EventLoop, EventElse, flags, callers, world, uploads
<1>11. CASE CheckEventSuspension
  BY <1>0, <1>11 DEF CheckEventSuspension, EventElse, flags, callers, world, uploads
<1>12. CASE TriggerEventUploads
  BY <1>0, <1>12 DEF TriggerEventUploads, EventElse, CountPass, flags, callers, world, uploads
<1>13. CASE QueryEvents
  BY <1>0, <1>13 DEF QueryEvents, EventElse, NextPhase, flags, callers, world, uploads
<1>14. CASE PublishEvents
  BY <1>0, <1>14 DEF PublishEvents, EventElse, Published, Failed, NextPhase, flags, callers, world, uploads
<1>15. CASE WakeAlert
  BY <1>0, <1>15 DEF WakeAlert, AlertElse, flags, callers, world, uploads
<1>16. ASSUME NEW c \in Caller, NotifyAlert(c) PROVE BriefInv'
  BY <1>0, <1>16 DEF NotifyAlert, CallElse, Awoken, flags, callers, world, uploads
<1>17. CASE RequestShutdown
  BY <1>0, <1>17 DEF RequestShutdown, StopElse, flags, callers, world, uploads
<1>18. CASE NotifyUploader
  BY <1>0, <1>18 DEF NotifyUploader, StopElse, Awoken, flags, callers, world, uploads
<1>19. CASE UNCHANGED <<alert, event, phase, late, shutdownRequested>>
  BY <1>0, <1>19
<1>20. ASSUME NEW t \in Table, Store(t) PROVE BriefInv'
  BY <1>19, <1>20 DEF Store, CallElse, flags, callers, world, uploads
<1>21. CASE Connect
  BY <1>19, <1>21 DEF Connect, CallElse, flags, callers, world, uploads
<1>22. CASE Disconnect
  BY <1>19, <1>22 DEF Disconnect, CallElse, flags, callers, world, uploads
<1>23. ASSUME NEW c \in Caller, AnnounceAlert(c) PROVE BriefInv'
  BY <1>19, <1>23 DEF AnnounceAlert, CallElse, flags, callers, world, uploads
<1>24. CASE SuspendUploads
  BY <1>19, <1>24 DEF SuspendUploads, ReductionElse, flags, callers, world, uploads
<1>25. CASE ResumeUploads
  BY <1>19, <1>25 DEF ResumeUploads, ReductionElse, flags, callers, world, uploads
<1>26. CASE UNCHANGED vars
  BY <1>0, <1>26 DEF vars, flags, callers, world, uploads
<1> HIDE DEF TypeA, TypeB, TypeC, BriefInv, ShutdownIsBrief, Table
<1> QED
  BY <1>1, <1>2, <1>3, <1>4, <1>5, <1>6, <1>7, <1>8, <1>9, <1>10, <1>11,
     <1>12, <1>13, <1>14, <1>15, <1>16, <1>17, <1>18, <1>19, <1>20, <1>21,
     <1>22, <1>23, <1>24, <1>25, <1>26
  DEF Next, AlertThread, EventThread, World, Call

\* Every step keeps how many rounds the alert thread begins.
LEMMA AlertStep ==
  ASSUME Inv, [Next]_vars PROVE AlertInv'
<1>0. TypeA /\ TypeB /\ TypeC /\ AlertInv
  BY Parts DEF Inv
<1> USE DEF TypeA, TypeB, TypeC, AlertInv, Uploader
<1>1. CASE TestAlerts
  BY <1>0, <1>1 DEF TestAlerts, AlertElse, flags, callers, world, uploads
<1>2. CASE WaitForAlerts
  BY <1>0, <1>2 DEF WaitForAlerts, AlertElse, flags, callers, world, uploads
<1>3. CASE CheckAlertSuspension
  BY <1>0, <1>3 DEF CheckAlertSuspension, AlertElse, flags, callers, world, uploads
<1>4. CASE CheckAlertLink
  BY <1>0, <1>4 DEF CheckAlertLink, AlertElse, flags, callers, world, uploads
<1>5. CASE ClearAlerts
  BY <1>0, <1>5 DEF ClearAlerts, AlertElse, CountPass, flags, callers, world, uploads
<1>6. CASE TryAlerts
  BY <1>0, <1>6 DEF TryAlerts, AlertElse, flags, callers, world, uploads
<1>7. CASE QueryAlerts
  BY <1>0, <1>7 DEF QueryAlerts, AlertElse, flags, callers, world, uploads
<1>8. CASE PublishAlerts
  BY <1>0, <1>8 DEF PublishAlerts, AlertElse, Published, Failed, flags, callers, world, uploads
<1>9. CASE StartUploader
  BY <1>0, <1>9 DEF StartUploader, EventElse, flags, callers, world, uploads
<1>10. CASE EventLoop
  BY <1>0, <1>10 DEF EventLoop, EventElse, flags, callers, world, uploads
<1>11. CASE CheckEventSuspension
  BY <1>0, <1>11 DEF CheckEventSuspension, EventElse, flags, callers, world, uploads
<1>12. CASE TriggerEventUploads
  BY <1>0, <1>12 DEF TriggerEventUploads, EventElse, CountPass, flags, callers, world, uploads
<1>13. CASE QueryEvents
  BY <1>0, <1>13 DEF QueryEvents, EventElse, NextPhase, flags, callers, world, uploads
<1>14. CASE PublishEvents
  BY <1>0, <1>14 DEF PublishEvents, EventElse, Published, Failed, NextPhase, flags, callers, world, uploads
<1>15. CASE WakeAlert
  BY <1>0, <1>15 DEF WakeAlert, AlertElse, flags, callers, world, uploads
<1>16. ASSUME NEW c \in Caller, NotifyAlert(c) PROVE AlertInv'
  BY <1>0, <1>16 DEF NotifyAlert, CallElse, Awoken, flags, callers, world, uploads
<1>17. CASE SuspendUploads
  BY <1>0, <1>17 DEF SuspendUploads, ReductionElse, flags, callers, world, uploads
<1>18. CASE ResumeUploads
  BY <1>0, <1>18 DEF ResumeUploads, ReductionElse, flags, callers, world, uploads
<1>19. CASE RequestShutdown
  BY <1>0, <1>19 DEF RequestShutdown, StopElse, flags, callers, world, uploads
<1>20. CASE NotifyUploader
  BY <1>0, <1>20 DEF NotifyUploader, StopElse, Awoken, flags, callers, world, uploads
<1>21. CASE UNCHANGED <<alert, event, passes, suspended, shutdownRequested>>
  BY <1>0, <1>21
<1>22. ASSUME NEW t \in Table, Store(t) PROVE AlertInv'
  BY <1>21, <1>22 DEF Store, CallElse, flags, callers, world, uploads
<1>23. CASE Connect
  BY <1>21, <1>23 DEF Connect, CallElse, flags, callers, world, uploads
<1>24. CASE Disconnect
  BY <1>21, <1>24 DEF Disconnect, CallElse, flags, callers, world, uploads
<1>25. ASSUME NEW c \in Caller, AnnounceAlert(c) PROVE AlertInv'
  BY <1>21, <1>25 DEF AnnounceAlert, CallElse, flags, callers, world, uploads
<1>26. CASE UNCHANGED vars
  BY <1>0, <1>26 DEF vars, flags, callers, world, uploads
<1> HIDE DEF TypeA, TypeB, TypeC, AlertInv, Uploader
<1> QED
  BY <1>1, <1>2, <1>3, <1>4, <1>5, <1>6, <1>7, <1>8, <1>9, <1>10, <1>11,
     <1>12, <1>13, <1>14, <1>15, <1>16, <1>17, <1>18, <1>19, <1>20, <1>21,
     <1>22, <1>23, <1>24, <1>25, <1>26
  DEF Next, AlertThread, EventThread, World, Call

\* Every step keeps how many rounds the event thread begins.
LEMMA EventStep ==
  ASSUME Inv, [Next]_vars PROVE EventInv'
<1>0. TypeA /\ TypeB /\ TypeC /\ EventInv
  BY Parts DEF Inv
<1> USE DEF TypeA, TypeB, TypeC, EventInv, Uploader
<1>1. CASE ClearAlerts
  BY <1>0, <1>1 DEF ClearAlerts, AlertElse, CountPass, flags, callers, world, uploads
<1>2. CASE StartUploader
  BY <1>0, <1>2 DEF StartUploader, EventElse, flags, callers, world, uploads
<1>3. CASE EventLoop
  BY <1>0, <1>3 DEF EventLoop, EventElse, flags, callers, world, uploads
<1>4. CASE CheckEventSuspension
  BY <1>0, <1>4 DEF CheckEventSuspension, EventElse, flags, callers, world, uploads
<1>5. CASE TriggerEventUploads
  BY <1>0, <1>5 DEF TriggerEventUploads, EventElse, CountPass, flags, callers, world, uploads
<1>6. CASE QueryEvents
  BY <1>0, <1>6 DEF QueryEvents, EventElse, NextPhase, flags, callers, world, uploads
<1>7. CASE PublishEvents
  BY <1>0, <1>7 DEF PublishEvents, EventElse, Published, Failed, NextPhase, flags, callers, world, uploads
<1>8. CASE SuspendUploads
  BY <1>0, <1>8 DEF SuspendUploads, ReductionElse, flags, callers, world, uploads
<1>9. CASE ResumeUploads
  BY <1>0, <1>9 DEF ResumeUploads, ReductionElse, flags, callers, world, uploads
<1>10. CASE RequestShutdown
  BY <1>0, <1>10 DEF RequestShutdown, StopElse, flags, callers, world, uploads
<1>11. CASE UNCHANGED <<event, passes, suspended, shutdownRequested>>
  BY <1>0, <1>11
<1>12. CASE TestAlerts
  BY <1>11, <1>12 DEF TestAlerts, AlertElse, flags, callers, world, uploads
<1>13. CASE WaitForAlerts
  BY <1>11, <1>13 DEF WaitForAlerts, AlertElse, flags, callers, world, uploads
<1>14. CASE CheckAlertSuspension
  BY <1>11, <1>14 DEF CheckAlertSuspension, AlertElse, flags, callers, world, uploads
<1>15. CASE CheckAlertLink
  BY <1>11, <1>15 DEF CheckAlertLink, AlertElse, flags, callers, world, uploads
<1>16. CASE TryAlerts
  BY <1>11, <1>16 DEF TryAlerts, AlertElse, flags, callers, world, uploads
<1>17. CASE QueryAlerts
  BY <1>11, <1>17 DEF QueryAlerts, AlertElse, flags, callers, world, uploads
<1>18. CASE PublishAlerts
  BY <1>11, <1>18 DEF PublishAlerts, AlertElse, flags, callers, world, uploads
<1>19. ASSUME NEW t \in Table, Store(t) PROVE EventInv'
  BY <1>11, <1>19 DEF Store, CallElse, flags, callers, world, uploads
<1>20. CASE Connect
  BY <1>11, <1>20 DEF Connect, CallElse, flags, callers, world, uploads
<1>21. CASE Disconnect
  BY <1>11, <1>21 DEF Disconnect, CallElse, flags, callers, world, uploads
<1>22. CASE WakeAlert
  BY <1>11, <1>22 DEF WakeAlert, AlertElse, flags, callers, world, uploads
<1>23. ASSUME NEW c \in Caller, AnnounceAlert(c) PROVE EventInv'
  BY <1>11, <1>23 DEF AnnounceAlert, CallElse, flags, callers, world, uploads
<1>24. ASSUME NEW c \in Caller, NotifyAlert(c) PROVE EventInv'
  BY <1>11, <1>24 DEF NotifyAlert, CallElse, flags, callers, world, uploads
<1>25. CASE NotifyUploader
  BY <1>11, <1>25 DEF NotifyUploader, StopElse, flags, callers, world, uploads
<1>26. CASE UNCHANGED vars
  BY <1>0, <1>26 DEF vars, flags, callers, world, uploads
<1> HIDE DEF TypeA, TypeB, TypeC, EventInv, Uploader
<1> QED
  BY <1>1, <1>2, <1>3, <1>4, <1>5, <1>6, <1>7, <1>8, <1>9, <1>10, <1>11,
     <1>12, <1>13, <1>14, <1>15, <1>16, <1>17, <1>18, <1>19, <1>20, <1>21,
     <1>22, <1>23, <1>24, <1>25, <1>26
  DEF Next, AlertThread, EventThread, World, Call

\* The initial states satisfy the inductive invariant.
LEMMA InvInit == Init => Inv
<1> SUFFICES ASSUME Init PROVE Inv
  OBVIOUS
<1>1. TypeA
  BY Bounds DEF Init, TypeA
<1>2. TypeB
  BY Bounds DEF Init, TypeB
<1>3. TypeC
  BY DEF Init, TypeC, Table
<1>4. BriefInv
  BY DEF Init, BriefInv, ShutdownIsBrief, Table
<1>5. AlertInv /\ EventInv
  BY DEF Init, AlertInv, EventInv
<1> QED
  BY <1>1, <1>2, <1>3, <1>4, <1>5, Parts DEF Inv

\* The inductive invariant holds in every state, whatever the number of tries,
\* rows, faults and reductions and the size of a batch.
THEOREM Invariance == Spec => []Inv
<1>1. Inv /\ [Next]_vars => Inv'
  <2> SUFFICES ASSUME Inv, [Next]_vars PROVE Inv'
    OBVIOUS
  <2>1. TypeOK'
    BY TypeAStep, TypeBStep, TypeCStep
    DEF TypeOK, TypeA, TypeB, TypeC
  <2> QED
    BY <2>1, BriefStep, AlertStep, EventStep DEF Inv
<1> QED
  BY InvInit, <1>1, PTL DEF Spec

\* The types hold in every state.
THEOREM Typed == Spec => []TypeOK
<1>1. Inv => TypeOK
  BY DEF Inv
<1> QED
  BY Invariance, <1>1, PTL

\* Once the shutdown is requested each kind of row is published in at most one
\* batch more (NotifyShutdown, UploadAlerts, UploadEvents).
THEOREM ShutdownBrief == Spec => []ShutdownIsBrief
<1>1. Inv => ShutdownIsBrief
  BY DEF Inv, BriefInv
<1> QED
  BY Invariance, <1>1, PTL

\* While the uploads are suspended each thread begins one round at most, two at
\* a shutdown (SuspendUpload, RequestAlertsUpload, StartEventsUpload).
THEOREM SuspensionLimitsRounds == Spec => []SuspensionHolds
<1>1. Inv => SuspensionHolds
  BY DEF Inv, AlertInv, EventInv, SuspensionHolds, Uploader, TypeOK
<1> QED
  BY Invariance, <1>1, PTL

-----------------------------------------------------------------------------
\* Every step keeps that somebody knows of the alerts: only ClearAlerts takes
\* the flag down, and it begins a round; an alert that is stored later, or a
\* connection that comes back later, has a caller of its own.
LEMMA ForgottenStep ==
  ASSUME Inv, NoAlertForgotten, [Next]_vars PROVE NoAlertForgotten'
<1>0. TypeA /\ TypeB /\ TypeC /\ Tries \in Nat /\ 0 < Tries
  BY Parts, RequestsAssumption DEF Inv
<1> USE DEF NoAlertForgotten, TypeA, TypeB, TypeC, Caller, Table
<1>1. CASE TestAlerts
  BY <1>0, <1>1 DEF TestAlerts, AlertElse, flags, callers, world, uploads
<1>2. CASE WaitForAlerts
  BY <1>0, <1>2 DEF WaitForAlerts, AlertElse, flags, callers, world, uploads
<1>3. CASE CheckAlertSuspension
  BY <1>0, <1>3 DEF CheckAlertSuspension, AlertElse, flags, callers, world, uploads
<1>4. CASE CheckAlertLink
  BY <1>0, <1>4 DEF CheckAlertLink, AlertElse, flags, callers, world, uploads
<1>5. CASE ClearAlerts
  BY <1>0, <1>5 DEF ClearAlerts
<1>6. CASE TryAlerts
  BY <1>0, <1>6 DEF TryAlerts, AlertElse, flags, callers, world, uploads
<1>7. CASE QueryAlerts
  <2>1. tries < Tries \/ tries = Tries
    BY <1>0
  <2> QED
    BY <1>0, <1>7, <2>1 DEF QueryAlerts, AlertElse, flags, callers, world, uploads
<1>8. CASE PublishAlerts
  <2>1. UNCHANGED <<connected, tries, shutdownRequested>>
    BY <1>8 DEF PublishAlerts, AlertElse, flags, world
  <2>2. \/ alert' = "query"
        \/ alert' = "try" /\ gaveUp' = (connected /\ tries = Tries)
    BY <1>8 DEF PublishAlerts
  <2>3. tries < Tries \/ tries = Tries
    BY <1>0
  <2> QED
    BY <1>0, <2>1, <2>2, <2>3
<1>9. CASE StartUploader
  <2>1. alert = "off"
    BY <1>9 DEF StartUploader, Inv, AlertInv
  <2> QED
    BY <1>0, <1>9, <2>1 DEF StartUploader, EventElse, flags, callers, world, uploads
<1>10. CASE EventLoop
  BY <1>0, <1>10 DEF EventLoop, EventElse, flags, callers, world, uploads
<1>11. CASE CheckEventSuspension
  BY <1>0, <1>11 DEF CheckEventSuspension, EventElse, flags, callers, world, uploads
<1>12. CASE TriggerEventUploads
  BY <1>0, <1>12 DEF TriggerEventUploads, EventElse, flags, callers, world, uploads
<1>13. CASE QueryEvents
  BY <1>0, <1>13 DEF QueryEvents, EventElse, flags, callers, world, uploads
<1>14. CASE PublishEvents
  <2>1. pending'["alert"] = pending["alert"]
    BY <1>0, <1>14 DEF PublishEvents, Published, Failed
  <2> QED
    BY <1>0, <1>14, <2>1 DEF PublishEvents, EventElse, flags, callers, world
<1>15. ASSUME NEW t \in Table, Store(t) PROVE NoAlertForgotten'
  <2>1. CASE t = "alert"
    <3>1. calling'["writer"] = "flag"
      BY <1>0, <1>15, <2>1 DEF Store
    <3> QED
      BY <3>1
  <2>2. CASE t # "alert"
    <3>1. pending'["alert"] = pending["alert"] /\ calling' = calling
      BY <1>0, <1>15, <2>2 DEF Store
    <3> QED
      BY <1>0, <1>15, <3>1 DEF Store, CallElse
  <2> QED
    BY <2>1, <2>2
<1>16. CASE Connect
  <2>1. calling'["network"] = "flag"
    BY <1>0, <1>16 DEF Connect
  <2> QED
    BY <2>1
<1>17. CASE Disconnect
  BY <1>17 DEF Disconnect
<1>18. CASE WakeAlert
  BY <1>0, <1>18 DEF WakeAlert, AlertElse, flags, callers, world, uploads
<1>19. ASSUME NEW c \in Caller, AnnounceAlert(c) PROVE NoAlertForgotten'
  BY <1>19 DEF AnnounceAlert
<1>20. ASSUME NEW c \in Caller, NotifyAlert(c) PROVE NoAlertForgotten'
  <2>1. \A d \in Caller : calling[d] = "flag" => calling'[d] = "flag"
    BY <1>0, <1>20 DEF NotifyAlert
  <2> QED
    BY <1>0, <1>20, <2>1 DEF NotifyAlert, CallElse, Awoken, world
<1>21. CASE SuspendUploads
  BY <1>0, <1>21 DEF SuspendUploads, ReductionElse, world, uploads
<1>22. CASE ResumeUploads
  BY <1>0, <1>22 DEF ResumeUploads, ReductionElse, world, uploads
<1>23. CASE RequestShutdown
  BY <1>23 DEF RequestShutdown
<1>24. CASE NotifyUploader
  BY <1>0, <1>24 DEF NotifyUploader, StopElse, Awoken, world, uploads
<1>25. CASE UNCHANGED vars
  BY <1>0, <1>25 DEF vars, flags, callers, world, uploads
<1> HIDE DEF NoAlertForgotten, TypeA, TypeB, TypeC, Caller, Table
<1> QED
  BY <1>1, <1>2, <1>3, <1>4, <1>5, <1>6, <1>7, <1>8, <1>9, <1>10, <1>11,
     <1>12, <1>13, <1>14, <1>15, <1>16, <1>17, <1>18, <1>19, <1>20, <1>21,
     <1>22, <1>23, <1>24, <1>25
  DEF Next, AlertThread, EventThread, World, Call

\* While connected no alert is left in the data base without the flag, a caller
\* or a round that knows of it, but for a round all of whose tries have failed
\* (AlertUpload, RequestAlertsUpload, ProcessAlertUploads).
THEOREM AlertsKnown == Spec => []NoAlertForgotten
<1>1. Init => NoAlertForgotten
  BY DEF Init, NoAlertForgotten
<1>2. Inv /\ NoAlertForgotten /\ [Next]_vars => NoAlertForgotten'
  BY ForgottenStep
<1> QED
  BY <1>1, <1>2, Invariance, PTL DEF Spec

\* The alert thread sleeps over stored alerts only if it overslept or somebody
\* is about to wake it: the safety half of AllUploaded.
THEOREM SleepExcused ==
  Spec => [](alert = "asleep" /\ connected /\ pending["alert"] > 0
             /\ ~shutdownRequested =>
               Overslept \/ \E c \in Caller : calling[c] = "flag")
<1>1. NoAlertForgotten =>
        (alert = "asleep" /\ connected /\ pending["alert"] > 0
         /\ ~shutdownRequested =>
           Overslept \/ \E c \in Caller : calling[c] = "flag")
  BY DEF NoAlertForgotten, Overslept
<1> QED
  BY <1>1, AlertsKnown, PTL
=============================================================================
