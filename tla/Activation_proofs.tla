-------------------------- MODULE Activation_proofs --------------------------
(***************************************************************************)
(* What Activation keeps for every set of device ids, every configuration  *)
(* of the back-off and every number of faults: where credentials and       *)
(* tokens are held, whose events are stored, what is reported, and how     *)
(* many attempts a state lets through.  The parts of the invariant are     *)
(* proved one by one, each from the parts before it that it needs, with    *)
(* one step per action.                                                    *)
(***************************************************************************)
EXTENDS Activation, TLAPS

-----------------------------------------------------------------------------
(* Which steps touch what.                                                 *)

\* The steps that touch the store.
StoreSteps ==
  \/ Proceed \/ RequestAccepted \/ SetLastDeviceId \/ SetPasscode
  \/ PersistStatus \/ ResetCount \/ DropLogin \/ DropPasscode \/ EventStored
  \/ EventsUploaded \/ BeginTxn \/ EndTxn \/ Crash \/ Start
  \/ (\E h \in Handler : ClearActivationStatus(h) \/ SetDisassociated(h)
                      \/ RestartAnalytics(h))

\* The steps that touch the client's thread.
ClientSteps ==
  \/ Proceed \/ TooEarly \/ ReportBackoff \/ TimeReached \/ ClientChecksState
  \/ RequestFails \/ RequestRejected \/ CalculateNextRetry
  \/ ConstructorReports \/ RequestAccepted \/ SetLastDeviceId \/ SetPasscode
  \/ PersistStatus \/ ResetIncrement \/ ResetState \/ ResetCount
  \/ CallGetToken \/ GetToken \/ LoginRejected \/ LoginError \/ LoginFails
  \/ DropLogin \/ DropPasscode \/ Refused \/ Unreachable \/ SessionLost
  \/ Crash \/ Start \/ TokenExpires
  \/ (reporting["client"] = NoCall /\ (LoginAccepted \/ Connected))
  \/ (\E h \in Handler : RestartAnalytics(h))

\* The steps that touch what is reported.
ReportSteps ==
  \/ ReportBackoff \/ ClientChecksState \/ RequestFails \/ RequestRejected
  \/ ConstructorReports \/ PersistStatus \/ LoginRejected \/ LoginFails
  \/ Refused \/ EventHandled \/ Crash
  \/ (reporting["client"] = NoCall /\ LoginAccepted)
  \/ (\E h \in Handler : RestartAnalytics(h))
  \/ (\E t \in Thread : WriteReason(t) \/ WriteState(t))

\* The steps that touch the back-off.
BackoffSteps ==
  \/ Proceed \/ ClientChecksState \/ RequestFails \/ RequestRejected
  \/ CalculateNextRetry \/ ResetIncrement \/ ResetState \/ EventNoted
  \/ EventHandled \/ Crash
  \/ (\E h \in Handler : RestartAnalytics(h))

\* The steps that touch the handlers.
HandlerSteps ==
  \/ SetLastDeviceId \/ EventArrives \/ EventNoted \/ EventHandled
  \/ DisassociationRequest \/ Crash
  \/ (\E h \in Handler : ClearActivationStatus(h) \/ SetDisassociated(h)
                      \/ RestartAnalytics(h))

\* The steps that touch the surroundings.
OutsideSteps ==
  \/ RequestRejected \/ LoginError \/ SessionLost \/ BeginTxn \/ Crash
  \/ TokenExpires \/ AssociationChanges \/ NetworkLost \/ NetworkBack
  \/ VinKnown
  \/ (\E h \in Handler : RestartAnalytics(h))

\* No other step touches the store.
LEMMA StoreKept == [Next]_vars => StoreSteps \/ UNCHANGED store
  BY DEF StoreSteps, vars, Next, Client, Activating, LoggingIn, Connecting,
     Events, Handling, Outside, TooEarly, ReportBackoff, TimeReached,
     ClientChecksState, RequestFails, RequestRejected, CalculateNextRetry,
     ConstructorReports, ResetIncrement, ResetState, CallGetToken, GetToken,
     LoginAccepted, LoginRejected, LoginError, LoginFails, Connected, Refused,
     Unreachable, SessionLost, WriteReason, WriteState, EventArrives,
     EventNoted, EventHandled, DisassociationRequest, TokenExpires,
     AssociationChanges, NetworkLost, NetworkBack, VinKnown, inside

\* No other step touches the client's thread.
LEMMA ClientKept == [Next]_vars => ClientSteps \/ UNCHANGED client
  BY DEF ClientSteps, vars, Next, Client, Activating, LoggingIn, Connecting,
     Events, Handling, Outside, WriteReason, WriteState, EventArrives,
     EventNoted, EventHandled, EventStored, EventsUploaded, BeginTxn, EndTxn,
     DisassociationRequest, ClearActivationStatus, SetDisassociated,
     AssociationChanges, NetworkLost, NetworkBack, VinKnown, inside, client

\* No other step touches what is reported.
LEMMA ReportKept == [Next]_vars => ReportSteps \/ UNCHANGED report
  BY DEF ReportSteps, vars, Next, Client, Activating, LoggingIn, Connecting,
     Events, Handling, Outside, Proceed, TooEarly, TimeReached,
     CalculateNextRetry, RequestAccepted, SetLastDeviceId, SetPasscode,
     ResetIncrement, ResetState, ResetCount, CallGetToken, GetToken,
     LoginError, DropLogin, DropPasscode, Connected, Unreachable, SessionLost,
     EventArrives, EventNoted, EventStored, EventsUploaded, BeginTxn, EndTxn,
     DisassociationRequest, ClearActivationStatus, SetDisassociated, Start,
     TokenExpires, AssociationChanges, NetworkLost, NetworkBack, VinKnown,
     Writes, inside, Thread, report

\* No other step touches the back-off.
LEMMA BackoffKept == [Next]_vars => BackoffSteps \/ UNCHANGED backoff
  BY DEF BackoffSteps, vars, Next, Client, Activating, LoggingIn, Connecting,
     Events, Handling, Outside, TooEarly, ReportBackoff, TimeReached,
     ConstructorReports, RequestAccepted, SetLastDeviceId, SetPasscode,
     PersistStatus, ResetCount, CallGetToken, GetToken, LoginAccepted,
     LoginRejected, LoginError, LoginFails, DropLogin, DropPasscode,
     Connected, Refused, Unreachable, SessionLost, WriteReason, WriteState,
     EventArrives, EventStored, EventsUploaded, BeginTxn, EndTxn,
     DisassociationRequest, ClearActivationStatus, SetDisassociated, Start,
     TokenExpires, AssociationChanges, NetworkLost, NetworkBack, VinKnown,
     Writes, inside, backoff

\* No other step touches the handlers.
LEMMA HandlerKept == [Next]_vars => HandlerSteps \/ UNCHANGED handlers
  BY DEF HandlerSteps, vars, Next, Client, Activating, LoggingIn, Connecting,
     Events, Handling, Outside, Proceed, TooEarly, ReportBackoff, TimeReached,
     ClientChecksState, RequestFails, RequestRejected, CalculateNextRetry,
     ConstructorReports, RequestAccepted, SetPasscode, PersistStatus,
     ResetIncrement, ResetState, ResetCount, CallGetToken, GetToken,
     LoginAccepted, LoginRejected, LoginError, LoginFails, DropLogin,
     DropPasscode, Connected, Refused, Unreachable, SessionLost, WriteReason,
     WriteState, EventStored, EventsUploaded, BeginTxn, EndTxn, Start,
     TokenExpires, AssociationChanges, NetworkLost, NetworkBack, VinKnown,
     Writes, inside, handlers

\* No other step touches the surroundings.
LEMMA OutsideKept == [Next]_vars => OutsideSteps \/ UNCHANGED outside
  BY DEF OutsideSteps, vars, Next, Client, Activating, LoggingIn, Connecting,
     Events, Handling, Outside, Proceed, TooEarly, ReportBackoff, TimeReached,
     ClientChecksState, RequestFails, CalculateNextRetry, ConstructorReports,
     RequestAccepted, SetLastDeviceId, SetPasscode, PersistStatus,
     ResetIncrement, ResetState, ResetCount, CallGetToken, GetToken,
     LoginAccepted, LoginRejected, LoginFails, DropLogin, DropPasscode,
     Connected, Refused, Unreachable, WriteReason, WriteState, EventArrives,
     EventNoted, EventHandled, EventStored, EventsUploaded, EndTxn,
     DisassociationRequest, ClearActivationStatus, SetDisassociated, Start,
     Writes, outside

-----------------------------------------------------------------------------
(* Types.                                                                  *)

\* The states that have a limit, and what follows each.
LEMMA Limits ==
  /\ DOMAIN Limit = {"initial", "high", "normal", "overHigh"}
  /\ DOMAIN Following = DOMAIN Limit
  /\ \A s \in DOMAIN Limit : /\ Limit[s] \in Nat \ {0}
                             /\ Following[s] \in BackoffState
<1>1. DOMAIN Limit = {"initial", "high", "normal", "overHigh"}
  BY DEF Limit
<1>2. DOMAIN Following = DOMAIN Limit
  BY DEF Following
<1>3. \A s \in DOMAIN Limit : Limit[s] \in Nat \ {0}
  BY <1>1, LimitAssumption DEF Limit
<1>4. \A s \in DOMAIN Limit : Following[s] \in BackoffState
  BY <1>1 DEF Following, BackoffState, Over
<1> QED
  BY <1>1, <1>2, <1>3, <1>4

\* The state Reset goes back to is one.
LEMMA InitialIsState == "initial" \in BackoffState
  BY DEF BackoffState

\* TryStateChange yields a state (NextState).
LEMMA NextStateType ==
  ASSUME state \in BackoffState
  PROVE  NextState \in BackoffState
  BY Limits DEF NextState, BackoffState, Over

\* A call of SetActivationState notes values of the right types.
LEMMA ReportNotes ==
  ASSUME ReportType, NEW t \in Thread, NEW new \in BOOLEAN, NEW why \in Reason,
         Report(t, new, why)
  PROVE  /\ active' \in BOOLEAN /\ reason' \in Reason
         /\ reporting' \in [Thread -> Call]
<1>1. [step |-> "send", state |-> new, reason |-> why] \in Call
  BY DEF Call
<1> QED
  BY <1>1 DEF Report, ReportType

\* Every step keeps the types of the store.
LEMMA StoreStep ==
  ASSUME StoreType, OutsideType, [Next]_vars
  PROVE  StoreType'
<1> USE DEF store, StoreType, Store, OutsideType, MaybeDevice
<1>1. CASE Proceed
  BY BoundAssumption, DeviceAssumption, <1>1 DEF Proceed, Write, Goes
<1>2. CASE RequestAccepted
  BY BoundAssumption, DeviceAssumption, <1>2
  DEF RequestAccepted, Writes, Write, Goes
<1>3. CASE SetLastDeviceId
  BY BoundAssumption, DeviceAssumption, <1>3 DEF SetLastDeviceId, Write, Goes
<1>4. CASE SetPasscode
  BY BoundAssumption, DeviceAssumption, <1>4
  DEF SetPasscode, Writes, Write, Goes
<1>5. CASE PersistStatus
  BY BoundAssumption, DeviceAssumption, <1>5
  DEF PersistStatus, Write, Report, Goes
<1>6. CASE ResetCount
  BY BoundAssumption, DeviceAssumption, <1>6
  DEF ResetCount, Write, ActivateReturns, Goes, Returns
<1>7. CASE DropLogin
  BY BoundAssumption, DeviceAssumption, <1>7
  DEF DropLogin, Writes, Write, Goes
<1>8. CASE DropPasscode
  BY BoundAssumption, DeviceAssumption, <1>8 DEF DropPasscode, Write
<1>9. CASE EventStored
  BY BoundAssumption, DeviceAssumption, <1>9 DEF EventStored, Write
<1>10. CASE EventsUploaded
  BY BoundAssumption, DeviceAssumption, <1>10 DEF EventsUploaded, Write
<1>11. CASE BeginTxn
  BY BoundAssumption, DeviceAssumption, <1>11 DEF BeginTxn, Windows, Window
<1>12. CASE EndTxn
  BY BoundAssumption, DeviceAssumption, <1>12 DEF EndTxn
<1>13. ASSUME NEW h \in Handler, ClearActivationStatus(h)
      PROVE  StoreType'
  BY BoundAssumption, DeviceAssumption, <1>13 DEF ClearActivationStatus, Write
<1>14. ASSUME NEW h \in Handler, SetDisassociated(h)
      PROVE  StoreType'
  BY BoundAssumption, DeviceAssumption, <1>14 DEF SetDisassociated, Write
<1>15. ASSUME NEW h \in Handler, RestartAnalytics(h)
      PROVE  StoreType'
  BY BoundAssumption, DeviceAssumption, <1>15
  DEF RestartAnalytics, ProcessEnds
<1>16. CASE Crash
  BY BoundAssumption, DeviceAssumption, <1>16 DEF Crash, ProcessEnds
<1>17. CASE Start
  <2>1. Empty \in Store
    BY BoundAssumption DEF Empty
  <2>2. CASE conf.disassociated
    BY <2>1, <2>2, <1>17 DEF Start, Write
  <2>3. CASE ~conf.disassociated
    BY <2>3, <1>17 DEF Start
  <2> QED
    BY <2>2, <2>3
<1>18. CASE UNCHANGED <<store>>
  BY <1>18
<1> HIDE DEF store, StoreType, Store, OutsideType, MaybeDevice
<1> QED
  BY StoreKept, <1>1, <1>2, <1>3, <1>4, <1>5, <1>6, <1>7, <1>8, <1>9, <1>10,
     <1>11, <1>12, <1>13, <1>14, <1>15, <1>16, <1>17, <1>18
  DEF StoreSteps

\* Every step keeps the types of the client's thread.
LEMMA ClientStep ==
  ASSUME ClientType, StoreType, [Next]_vars
  PROVE  ClientType'
<1> USE DEF client, ClientType, StoreType, Store, MaybeDevice
<1>1. CASE Proceed
  BY <1>1 DEF Proceed, Write, Goes
<1>2. CASE TooEarly
  BY <1>2 DEF TooEarly, Goes
<1>3. CASE ReportBackoff
  BY <1>3 DEF ReportBackoff, ActivateReturns, Goes, Returns, Report
<1>4. CASE TimeReached
  BY <1>4 DEF TimeReached, Goes
<1>5. CASE ClientChecksState
  BY <1>5
  DEF ClientChecksState, CheckCurrentState, ActivateReturns, Goes, Returns,
     Report
<1>6. CASE RequestFails
  BY <1>6 DEF RequestFails, Report, Goes
<1>7. CASE RequestRejected
  BY <1>7 DEF RequestRejected, Report, Goes
<1>8. CASE CalculateNextRetry
  BY <1>8 DEF CalculateNextRetry, ActivateReturns, Goes, Returns
<1>9. CASE ConstructorReports
  BY <1>9 DEF ConstructorReports, Report, Returns
<1>10. CASE RequestAccepted
  BY <1>10 DEF RequestAccepted, Writes, Write, Goes
<1>11. CASE SetLastDeviceId
  BY <1>11 DEF SetLastDeviceId, Write, Goes
<1>12. CASE SetPasscode
  BY <1>12 DEF SetPasscode, Writes, Write, Goes
<1>13. CASE PersistStatus
  BY <1>13 DEF PersistStatus, Write, Report, Goes
<1>14. CASE ResetIncrement
  BY <1>14 DEF ResetIncrement, Goes
<1>15. CASE ResetState
  BY <1>15 DEF ResetState, Goes
<1>16. CASE ResetCount
  BY <1>16 DEF ResetCount, Write, ActivateReturns, Goes, Returns
<1>17. CASE CallGetToken
  BY <1>17 DEF CallGetToken
<1>18. CASE GetToken
  BY <1>18 DEF GetToken, Goes
<1>19. CASE LoginAccepted /\ reporting["client"] = NoCall
  BY <1>19 DEF LoginAccepted, Report
<1>20. CASE LoginRejected
  BY <1>20 DEF LoginRejected, Returns, TokenDropped
<1>21. CASE LoginError
  BY <1>21 DEF LoginError, Returns
<1>22. CASE LoginFails
  BY <1>22 DEF LoginFails, Report, Returns
<1>23. CASE DropLogin
  BY <1>23 DEF DropLogin, Writes, Write, Goes
<1>24. CASE DropPasscode
  BY <1>24 DEF DropPasscode, Write
<1>25. CASE Connected /\ reporting["client"] = NoCall
  BY <1>25 DEF Connected, Goes
<1>26. CASE Refused
  BY <1>26 DEF Refused, TokenDropped
<1>27. CASE Unreachable
  BY <1>27 DEF Unreachable, Goes
<1>28. CASE SessionLost
  BY <1>28 DEF SessionLost, Goes
<1>29. ASSUME NEW h \in Handler, RestartAnalytics(h)
      PROVE  ClientType'
  BY <1>29 DEF RestartAnalytics, ProcessEnds
<1>30. CASE Crash
  BY <1>30 DEF Crash, ProcessEnds
<1>31. CASE Start
  BY <1>31 DEF Start, Write, Goes, Empty
<1>32. CASE TokenExpires
  BY <1>32 DEF TokenExpires, inside
<1>33. CASE UNCHANGED <<client>>
  BY <1>33
<1> HIDE DEF client, ClientType, StoreType, Store, MaybeDevice
<1> QED
  BY ClientKept, <1>1, <1>2, <1>3, <1>4, <1>5, <1>6, <1>7, <1>8, <1>9, <1>10,
     <1>11, <1>12, <1>13, <1>14, <1>15, <1>16, <1>17, <1>18, <1>19, <1>20,
     <1>21, <1>22, <1>23, <1>24, <1>25, <1>26, <1>27, <1>28, <1>29, <1>30,
     <1>31, <1>32, <1>33
  DEF ClientSteps

\* Every step keeps the types of what is reported.
LEMMA ReportStep ==
  ASSUME ReportType, [Next]_vars
  PROVE  ReportType'
<1> USE DEF report, ReportType, Call, Reason, Thread, NoCall
<1>1. CASE ReportBackoff
  BY <1>1 DEF ReportBackoff, ActivateReturns, Goes, Returns, Report
<1>2. CASE ClientChecksState
  <2>1. CheckCurrentState("client") /\ crossed' = crossed
    BY <1>2 DEF ClientChecksState, CheckCurrentState
  <2>2. CASE Report("client", FALSE, "reset") \/ Report("event", FALSE, "reset")
    BY <2>1, <2>2, ReportNotes
  <2>3. CASE UNCHANGED <<active, reason, reporting>>
    BY <2>1, <2>3
  <2> QED
    BY <2>1, <2>2, <2>3 DEF CheckCurrentState
<1>3. CASE RequestFails
  BY <1>3 DEF RequestFails, Report, Goes
<1>4. CASE RequestRejected
  BY <1>4 DEF RequestRejected, Report, Goes
<1>5. CASE ConstructorReports
  BY <1>5 DEF ConstructorReports, Report, Returns
<1>6. CASE PersistStatus
  BY <1>6 DEF PersistStatus, Write, Report, Goes
<1>7. CASE LoginAccepted /\ reporting["client"] = NoCall
  BY <1>7 DEF LoginAccepted, Report
<1>8. CASE LoginRejected
  BY <1>8 DEF LoginRejected, Returns, TokenDropped
<1>9. CASE LoginFails
  BY <1>9 DEF LoginFails, Report, Returns
<1>10. CASE Refused
  BY <1>10 DEF Refused, TokenDropped
<1>11. ASSUME NEW t \in Thread, WriteReason(t)
      PROVE  ReportType'
  BY <1>11 DEF WriteReason
<1>12. ASSUME NEW t \in Thread, WriteState(t)
      PROVE  ReportType'
  BY <1>12 DEF WriteState
<1>13. CASE EventHandled
  <2>1. CheckCurrentState("event") /\ crossed' = crossed
    BY <1>13 DEF EventHandled, CheckCurrentState
  <2>2. CASE Report("client", FALSE, "reset") \/ Report("event", FALSE, "reset")
    BY <2>1, <2>2, ReportNotes
  <2>3. CASE UNCHANGED <<active, reason, reporting>>
    BY <2>1, <2>3
  <2> QED
    BY <2>1, <2>2, <2>3 DEF CheckCurrentState
<1>14. ASSUME NEW h \in Handler, RestartAnalytics(h)
      PROVE  ReportType'
  BY <1>14 DEF RestartAnalytics, ProcessEnds
<1>15. CASE Crash
  BY <1>15 DEF Crash, ProcessEnds
<1>16. CASE UNCHANGED <<report>>
  BY <1>16
<1> HIDE DEF report, ReportType, Call, Reason, Thread, NoCall
<1> QED
  BY ReportKept, <1>1, <1>2, <1>3, <1>4, <1>5, <1>6, <1>7, <1>8, <1>9, <1>10,
     <1>11, <1>12, <1>13, <1>14, <1>15, <1>16
  DEF ReportSteps

\* Every step keeps the types of the back-off.
LEMMA BackoffStep ==
  ASSUME BackoffType, [Next]_vars
  PROVE  BackoffType'
<1> USE DEF backoff, BackoffType
<1>1. CASE Proceed
  BY InitialIsState, <1>1 DEF Proceed, Write, Goes
<1>2. CASE ClientChecksState
  <2>1. state' \in BackoffState
    BY NextStateType, <1>2 DEF ClientChecksState, CheckCurrentState
  <2>2. attempts' \in Nat
    BY <1>2 DEF ClientChecksState, CheckCurrentState
  <2>3. kick' = FALSE /\ lastError' = lastError /\ increment' = increment
    BY <1>2 DEF ClientChecksState, CheckCurrentState
  <2> QED
    BY <2>1, <2>2, <2>3
<1>3. CASE RequestFails
  BY InitialIsState, <1>3 DEF RequestFails, Report, Goes
<1>4. CASE RequestRejected
  BY InitialIsState, <1>4 DEF RequestRejected, Report, Goes
<1>5. CASE CalculateNextRetry
  BY InitialIsState, <1>5
  DEF CalculateNextRetry, ActivateReturns, Goes, Returns
<1>6. CASE ResetIncrement
  BY InitialIsState, <1>6 DEF ResetIncrement, Goes
<1>7. CASE ResetState
  BY InitialIsState, <1>7 DEF ResetState, Goes
<1>8. CASE EventNoted
  BY InitialIsState, <1>8 DEF EventNoted
<1>9. CASE EventHandled
  <2>1. state' \in BackoffState
    BY NextStateType, <1>9 DEF EventHandled, CheckCurrentState
  <2>2. attempts' \in Nat
    BY <1>9 DEF EventHandled, CheckCurrentState
  <2>3. kick' = FALSE /\ lastError' = lastError /\ increment' = increment
    BY <1>9 DEF EventHandled, CheckCurrentState
  <2> QED
    BY <2>1, <2>2, <2>3
<1>10. ASSUME NEW h \in Handler, RestartAnalytics(h)
      PROVE  BackoffType'
  BY InitialIsState, <1>10 DEF RestartAnalytics, ProcessEnds
<1>11. CASE Crash
  BY InitialIsState, <1>11 DEF Crash, ProcessEnds
<1>12. CASE UNCHANGED <<backoff>>
  BY <1>12
<1> HIDE DEF backoff, BackoffType
<1> QED
  BY BackoffKept, <1>1, <1>2, <1>3, <1>4, <1>5, <1>6, <1>7, <1>8, <1>9, <1>10,
     <1>11, <1>12
  DEF BackoffSteps

\* Every step keeps the types of the handlers.
LEMMA HandlerStep ==
  ASSUME HandlerType, [Next]_vars
  PROVE  HandlerType'
<1> USE DEF handlers, HandlerType, Handler
<1>1. CASE SetLastDeviceId
  BY <1>1 DEF SetLastDeviceId, Write, Goes
<1>2. CASE EventArrives
  BY <1>2 DEF EventArrives
<1>3. CASE EventNoted
  BY <1>3 DEF EventNoted
<1>4. CASE EventHandled
  BY <1>4 DEF EventHandled, CheckCurrentState, Report
<1>5. CASE DisassociationRequest
  BY <1>5 DEF DisassociationRequest
<1>6. ASSUME NEW h \in Handler, ClearActivationStatus(h)
      PROVE  HandlerType'
  BY <1>6 DEF ClearActivationStatus, Write
<1>7. ASSUME NEW h \in Handler, SetDisassociated(h)
      PROVE  HandlerType'
  BY <1>7 DEF SetDisassociated, Write
<1>8. ASSUME NEW h \in Handler, RestartAnalytics(h)
      PROVE  HandlerType'
  BY <1>8 DEF RestartAnalytics, ProcessEnds
<1>9. CASE Crash
  BY <1>9 DEF Crash, ProcessEnds
<1>10. CASE UNCHANGED <<handlers>>
  BY <1>10
<1> HIDE DEF handlers, HandlerType, Handler
<1> QED
  BY HandlerKept, <1>1, <1>2, <1>3, <1>4, <1>5, <1>6, <1>7, <1>8, <1>9, <1>10
  DEF HandlerSteps

\* Every step keeps the types of the surroundings.
LEMMA OutsideStep ==
  ASSUME OutsideType, StoreType, [Next]_vars
  PROVE  OutsideType'
<1> USE DEF outside, OutsideType, MaybeDevice
<1>1. CASE RequestRejected
  <2>1. faults' \in 0 .. MaxFaults
    BY BoundAssumption, <1>1 DEF RequestRejected
  <2> QED
    BY <2>1, <1>1 DEF RequestRejected
<1>2. CASE LoginError
  <2>1. faults' \in 0 .. MaxFaults
    BY BoundAssumption, <1>2 DEF LoginError
  <2> QED
    BY <2>1, <1>2 DEF LoginError
<1>3. CASE SessionLost
  <2>1. faults' \in 0 .. MaxFaults
    BY BoundAssumption, <1>3 DEF SessionLost
  <2> QED
    BY <2>1, <1>3 DEF SessionLost
<1>4. CASE BeginTxn
  <2>1. faults' \in 0 .. MaxFaults
    BY BoundAssumption, <1>4 DEF BeginTxn
  <2> QED
    BY <2>1, <1>4 DEF BeginTxn
<1>5. ASSUME NEW h \in Handler, RestartAnalytics(h)
      PROVE  OutsideType'
  <2>1. faults' \in 0 .. MaxFaults
    BY BoundAssumption, <1>5 DEF RestartAnalytics
  <2>2. hazard' \subseteq Window
    BY <1>5 DEF RestartAnalytics, ProcessEnds, Windows, Window, StoreType
  <2> QED
    BY <2>1, <2>2, <1>5 DEF RestartAnalytics, ProcessEnds
<1>6. CASE Crash
  <2>1. faults' \in 0 .. MaxFaults
    BY BoundAssumption, <1>6 DEF Crash
  <2>2. hazard' \subseteq Window
    BY <1>6 DEF Crash, ProcessEnds, Windows, Window, StoreType
  <2> QED
    BY <2>1, <2>2, <1>6 DEF Crash, ProcessEnds
<1>7. CASE TokenExpires
  <2>1. faults' \in 0 .. MaxFaults
    BY BoundAssumption, <1>7 DEF TokenExpires
  <2> QED
    BY <2>1, <1>7 DEF TokenExpires, inside
<1>8. CASE AssociationChanges
  <2>1. changes + 1 \in 0 .. MaxChanges
    BY BoundAssumption, <1>8 DEF AssociationChanges
  <2> QED
    BY <2>1, <1>8 DEF AssociationChanges, inside
<1>9. CASE NetworkLost
  <2>1. faults' \in 0 .. MaxFaults
    BY BoundAssumption, <1>9 DEF NetworkLost
  <2> QED
    BY <2>1, <1>9 DEF NetworkLost, inside
<1>10. CASE NetworkBack
  BY BoundAssumption, <1>10 DEF NetworkBack, inside
<1>11. CASE VinKnown
  BY BoundAssumption, <1>11 DEF VinKnown, inside
<1>12. CASE UNCHANGED <<outside>>
  BY <1>12
<1> HIDE DEF outside, OutsideType, MaybeDevice
<1> QED
  BY OutsideKept, <1>1, <1>2, <1>3, <1>4, <1>5, <1>6, <1>7, <1>8, <1>9, <1>10,
     <1>11, <1>12
  DEF OutsideSteps

\* The only row the head of Activate writes is IGNITION_COUNT.
LEMMA ProceedKeeps ==
  ASSUME Proceed, StoreType
  PROVE  /\ conf'.login = conf.login /\ conf'.passcode = conf.passcode
         /\ conf'.lastDeviceId = conf.lastDeviceId /\ conf'.rows = conf.rows
         /\ conf'.status = conf.status
         /\ conf'.disassociated = conf.disassociated
         /\ UNCHANGED <<open, began>>
         /\ disk' = disk \/ (~open /\ disk' = conf')
<1>1. CASE conf' = conf
  BY <1>1 DEF Proceed, Write, store
<1>2. CASE conf' # conf
  <2> DEFINE count == IF conf.ignCount <= IgnitionThreshold
                      THEN conf.ignCount + 1 ELSE conf.ignCount
  <2>1. Write([conf EXCEPT !.ignCount = count])
    BY <1>2 DEF Proceed, store
  <2> HIDE DEF count
  <2>2. conf' = [conf EXCEPT !.ignCount = count]
    BY <2>1 DEF Write
  <2> QED
    BY <2>1, <2>2 DEF Write, StoreType, Store
<1> QED
  BY <1>1, <1>2

-----------------------------------------------------------------------------
(* The invariant.                                                          *)

\* The activation is being taken over from the cloud's answer.
Accepting == {"lastDeviceId", "handle", "passcode", "status", "reset",
              "resetState", "count"}

\* The device has no complete credentials while it asks for them; a token is
\* held only with the credentials it was given for, and never while the device
\* activates.
Positions ==
  /\ at \in {"proceed", "time", "early", "check", "request", "failed",
             "constructor", "dropPasscode"} => ~Activated
  /\ at \in {"status", "reset", "resetState", "count"} => Activated
  /\ at \in {"lastDeviceId", "handle", "passcode"} => conf.login # None
  /\ token # None => /\ conf.login = token /\ conf.passcode = token
                     /\ at \in {"idle", "body", "auth", "connect", "up"}
  /\ at = "auth" /\ token # None => expired /\ caller = "first"
  /\ at = "body" => caller = "first"
  /\ at = "up" => token # None /\ reporting["client"] = NoCall
  /\ at = "off" => /\ token = None /\ event = None /\ ~open
                   /\ \A h \in Handler : handling[h] = "idle"
  /\ ~made => token = None /\ at \in {"off", "idle"}

\* The state of the back-off has no change left to report.
Calm == state = "initial" /\ attempts = 0 /\ conf.ignCount <= IgnitionThreshold

\* An event that found the device not activated finds nothing to change.
Quiet ==
  /\ at = "count" /\ event # None => state = "initial" /\ attempts = 0
  /\ Activated /\ event # None => at \in Accepting \/ Calm

\* The call of the login is the last one that is under way.
Reported ==
  token # None /\ ~expired /\ ~crossed =>
    /\ reporting["event"] = NoCall
    /\ \/ reporting["client"] = NoCall /\ active
       \/ reporting["client"] # NoCall /\ reporting["client"].state

\* A request is only under way while the state has an attempt left.
Counted ==
  state \in DOMAIN Limit =>
    /\ attempts <= Limit[state]
    /\ at \in {"request", "failed"} => attempts < Limit[state]

\* The flag of a disassociation comes with the end of the process.
Leaving ==
  /\ \A h \in Handler : handling[h] = "exit" => conf.disassociated
  /\ conf.disassociated =>
       at = "off" \/ \E h \in Handler : handling[h] = "exit"

\* Without a transaction the disk has what was written.
Durable == ~open => disk = conf

\* A passcode comes with a status, but for the windows the store is in, or was
\* in when it was last written to the disk.
ShownBy(c, windows) ==
  c.passcode # None => c.status \/ c.disassociated \/ "statusLost" \in windows

StatusInv ==
  /\ ShownBy(conf, hazard \cup Windows)
  /\ open => ShownBy(disk, hazard \cup began)

\* The stored events are of the last device id, and so is the passcode.
Own(c) ==
  c.rows \subseteq {c.lastDeviceId} /\ c.passcode \in {None, c.lastDeviceId}

\* The device has its new id, and its tables are about to be cleared.
Moving == at = "handle" \/ (at = "off" /\ conf.disassociated)

RowsInv ==
  \/ "ownerKept" \in hazard
  \/ /\ at = "passcode" => conf.login = conf.lastDeviceId
     /\ Moving \/ Own(conf)
     /\ token \in {None, conf.lastDeviceId}
     /\ open => "ownerKept" \in began \/ disk.disassociated \/ Own(disk)

Inv == /\ TypeOK
       /\ Positions /\ Quiet /\ Reported /\ Counted
       /\ Leaving /\ Durable /\ StatusInv /\ RowsInv

\* Every step keeps where credentials and tokens may be held.
LEMMA PositionsStep ==
  ASSUME Positions, StoreType, ReportType, [Next]_vars
  PROVE  Positions'
<1> USE DEF store, client, report, handlers, Positions, Activated, StoreType,
            Store
<1>1. CASE Proceed
  BY DeviceAssumption, <1>1 DEF Proceed, Write, Goes
<1>2. CASE TooEarly
  BY DeviceAssumption, <1>2 DEF TooEarly, Goes
<1>3. CASE ReportBackoff
  BY DeviceAssumption, <1>3
  DEF ReportBackoff, ActivateReturns, Goes, Returns, Report
<1>4. CASE TimeReached
  BY DeviceAssumption, <1>4 DEF TimeReached, Goes
<1>5. CASE ClientChecksState
  BY DeviceAssumption, <1>5
  DEF ClientChecksState, CheckCurrentState, ActivateReturns, Goes, Returns,
     Report
<1>6. CASE RequestFails
  BY DeviceAssumption, <1>6 DEF RequestFails, Report, Goes
<1>7. CASE RequestRejected
  BY DeviceAssumption, <1>7 DEF RequestRejected, Report, Goes
<1>8. CASE CalculateNextRetry
  BY DeviceAssumption, <1>8
  DEF CalculateNextRetry, ActivateReturns, Goes, Returns
<1>9. CASE ConstructorReports
  BY DeviceAssumption, <1>9 DEF ConstructorReports, Report, Returns
<1>10. CASE RequestAccepted
  BY DeviceAssumption, <1>10 DEF RequestAccepted, Writes, Write, Goes
<1>11. CASE SetLastDeviceId
  BY DeviceAssumption, <1>11 DEF SetLastDeviceId, Write, Goes
<1>12. CASE SetPasscode
  BY DeviceAssumption, <1>12 DEF SetPasscode, Writes, Write, Goes
<1>13. CASE PersistStatus
  BY DeviceAssumption, <1>13 DEF PersistStatus, Write, Report, Goes
<1>14. CASE ResetIncrement
  BY DeviceAssumption, <1>14 DEF ResetIncrement, Goes
<1>15. CASE ResetState
  BY DeviceAssumption, <1>15 DEF ResetState, Goes
<1>16. CASE ResetCount
  BY DeviceAssumption, <1>16
  DEF ResetCount, Write, ActivateReturns, Goes, Returns
<1>17. CASE CallGetToken
  BY DeviceAssumption, <1>17 DEF CallGetToken
<1>18. CASE GetToken
  BY DeviceAssumption, <1>18 DEF GetToken, Goes
<1>19. CASE LoginAccepted /\ reporting["client"] = NoCall
  BY DeviceAssumption, <1>19 DEF LoginAccepted, Report, Granted
<1>20. CASE LoginRejected
  BY DeviceAssumption, <1>20 DEF LoginRejected, Returns, TokenDropped
<1>21. CASE LoginError
  BY DeviceAssumption, <1>21 DEF LoginError, Returns
<1>22. CASE LoginFails
  BY DeviceAssumption, <1>22 DEF LoginFails, Report, Returns
<1>23. CASE DropLogin
  BY DeviceAssumption, <1>23 DEF DropLogin, Writes, Write, Goes
<1>24. CASE DropPasscode
  BY DeviceAssumption, <1>24 DEF DropPasscode, Write
<1>25. CASE Connected /\ reporting["client"] = NoCall
  BY DeviceAssumption, <1>25 DEF Connected, Goes
<1>26. CASE Refused
  BY DeviceAssumption, <1>26 DEF Refused, TokenDropped
<1>27. CASE Unreachable
  BY DeviceAssumption, <1>27 DEF Unreachable, Goes
<1>28. CASE SessionLost
  BY DeviceAssumption, <1>28 DEF SessionLost, Goes
<1>29. ASSUME NEW t \in Thread, WriteReason(t)
      PROVE  Positions'
  BY DeviceAssumption, <1>29 DEF WriteReason, NoCall, Thread
<1>30. ASSUME NEW t \in Thread, WriteState(t)
      PROVE  Positions'
  BY DeviceAssumption, <1>30 DEF WriteState, NoCall, Thread
<1>31. CASE EventArrives
  BY DeviceAssumption, <1>31 DEF EventArrives
<1>32. CASE EventNoted
  BY DeviceAssumption, <1>32 DEF EventNoted, None
<1>33. CASE EventHandled
  <2>1. at # "off"
    BY <1>33 DEF EventHandled, None
  <2>2. reporting'["client"] = reporting["client"]
    BY <1>33 DEF EventHandled, CheckCurrentState, Report, ReportType, Thread
  <2>3. UNCHANGED <<store, client, handling>>
    BY <1>33 DEF EventHandled
  <2> QED
    BY <2>1, <2>2, <2>3
<1>34. CASE EventStored
  BY DeviceAssumption, <1>34 DEF EventStored, Write
<1>35. CASE EventsUploaded
  BY DeviceAssumption, <1>35 DEF EventsUploaded, Write
<1>36. CASE BeginTxn
  BY DeviceAssumption, <1>36 DEF BeginTxn
<1>37. CASE EndTxn
  BY DeviceAssumption, <1>37 DEF EndTxn
<1>38. CASE DisassociationRequest
  BY DeviceAssumption, <1>38 DEF DisassociationRequest
<1>39. ASSUME NEW h \in Handler, ClearActivationStatus(h)
      PROVE  Positions'
  BY DeviceAssumption, <1>39 DEF ClearActivationStatus, Write
<1>40. ASSUME NEW h \in Handler, SetDisassociated(h)
      PROVE  Positions'
  BY DeviceAssumption, <1>40 DEF SetDisassociated, Write
<1>41. ASSUME NEW h \in Handler, RestartAnalytics(h)
      PROVE  Positions'
  BY DeviceAssumption, <1>41 DEF RestartAnalytics, ProcessEnds
<1>42. CASE Crash
  BY DeviceAssumption, <1>42 DEF Crash, ProcessEnds
<1>43. CASE Start
  BY DeviceAssumption, <1>43 DEF Start, Write, Goes, Empty
<1>44. CASE TokenExpires
  BY DeviceAssumption, <1>44 DEF TokenExpires, inside
<1>45. CASE UNCHANGED <<store, client, report, handlers>>
  BY <1>45
<1> HIDE DEF store, client, report, handlers, Positions, Activated, StoreType,
             Store
<1> QED
  BY StoreKept, ClientKept, ReportKept, HandlerKept, <1>1, <1>2, <1>3, <1>4,
     <1>5, <1>6, <1>7, <1>8, <1>9, <1>10, <1>11, <1>12, <1>13, <1>14, <1>15,
     <1>16, <1>17, <1>18, <1>19, <1>20, <1>21, <1>22, <1>23, <1>24, <1>25,
     <1>26, <1>27, <1>28, <1>29, <1>30, <1>31, <1>32, <1>33, <1>34, <1>35,
     <1>36, <1>37, <1>38, <1>39, <1>40, <1>41, <1>42, <1>43, <1>44, <1>45
  DEF StoreSteps, ClientSteps, ReportSteps, HandlerSteps

\* Every step keeps the client's thread in Handle until the process ends.
LEMMA PlaceStep ==
  ASSUME HandlerPlace, HandlerType, Positions, [Next]_vars
  PROVE  HandlerPlace'
<1> USE DEF client, handlers, HandlerPlace, HandlerType, Handler, Positions
<1>1. CASE Proceed
  BY <1>1 DEF Proceed, Write, Goes
<1>2. CASE TooEarly
  BY <1>2 DEF TooEarly, Goes
<1>3. CASE ReportBackoff
  BY <1>3 DEF ReportBackoff, ActivateReturns, Goes, Returns, Report
<1>4. CASE TimeReached
  BY <1>4 DEF TimeReached, Goes
<1>5. CASE ClientChecksState
  BY <1>5
  DEF ClientChecksState, CheckCurrentState, ActivateReturns, Goes, Returns,
     Report
<1>6. CASE RequestFails
  BY <1>6 DEF RequestFails, Report, Goes
<1>7. CASE RequestRejected
  BY <1>7 DEF RequestRejected, Report, Goes
<1>8. CASE CalculateNextRetry
  BY <1>8 DEF CalculateNextRetry, ActivateReturns, Goes, Returns
<1>9. CASE ConstructorReports
  BY <1>9 DEF ConstructorReports, Report, Returns
<1>10. CASE RequestAccepted
  BY <1>10 DEF RequestAccepted, Writes, Write, Goes
<1>11. CASE SetLastDeviceId
  <2>1. CASE conf.lastDeviceId \notin {None, conf.login}
    BY <2>1, <1>11 DEF SetLastDeviceId, Write, Goes
  <2>2. CASE conf.lastDeviceId \in {None, conf.login}
    BY <2>2, <1>11 DEF SetLastDeviceId, Write, Goes
  <2> QED
    BY <2>1, <2>2
<1>12. CASE SetPasscode
  BY <1>12 DEF SetPasscode, Writes, Write, Goes
<1>13. CASE PersistStatus
  BY <1>13 DEF PersistStatus, Write, Report, Goes
<1>14. CASE ResetIncrement
  BY <1>14 DEF ResetIncrement, Goes
<1>15. CASE ResetState
  BY <1>15 DEF ResetState, Goes
<1>16. CASE ResetCount
  BY <1>16 DEF ResetCount, Write, ActivateReturns, Goes, Returns
<1>17. CASE CallGetToken
  BY <1>17 DEF CallGetToken
<1>18. CASE GetToken
  BY <1>18 DEF GetToken, Goes
<1>19. CASE LoginAccepted /\ reporting["client"] = NoCall
  BY <1>19 DEF LoginAccepted, Report
<1>20. CASE LoginRejected
  BY <1>20 DEF LoginRejected, Returns, TokenDropped
<1>21. CASE LoginError
  BY <1>21 DEF LoginError, Returns
<1>22. CASE LoginFails
  BY <1>22 DEF LoginFails, Report, Returns
<1>23. CASE DropLogin
  BY <1>23 DEF DropLogin, Writes, Write, Goes
<1>24. CASE DropPasscode
  BY <1>24 DEF DropPasscode, Write
<1>25. CASE Connected /\ reporting["client"] = NoCall
  BY <1>25 DEF Connected, Goes
<1>26. CASE Refused
  BY <1>26 DEF Refused, TokenDropped
<1>27. CASE Unreachable
  BY <1>27 DEF Unreachable, Goes
<1>28. CASE SessionLost
  BY <1>28 DEF SessionLost, Goes
<1>29. CASE EventArrives
  BY <1>29 DEF EventArrives
<1>30. CASE EventNoted
  BY <1>30 DEF EventNoted
<1>31. CASE EventHandled
  BY <1>31 DEF EventHandled, CheckCurrentState, Report
<1>32. CASE DisassociationRequest
  BY <1>32 DEF DisassociationRequest
<1>33. ASSUME NEW h \in Handler, ClearActivationStatus(h)
      PROVE  HandlerPlace'
  BY <1>33 DEF ClearActivationStatus, Write
<1>34. ASSUME NEW h \in Handler, SetDisassociated(h)
      PROVE  HandlerPlace'
  BY <1>34 DEF SetDisassociated, Write
<1>35. ASSUME NEW h \in Handler, RestartAnalytics(h)
      PROVE  HandlerPlace'
  BY <1>35 DEF RestartAnalytics, ProcessEnds
<1>36. CASE Crash
  BY <1>36 DEF Crash, ProcessEnds
<1>37. CASE Start
  BY <1>37 DEF Start, Write, Goes, Empty
<1>38. CASE TokenExpires
  BY <1>38 DEF TokenExpires, inside
<1>39. CASE UNCHANGED <<client, handlers>>
  BY <1>39
<1> HIDE DEF client, handlers, HandlerPlace, HandlerType, Handler, Positions
<1> QED
  BY ClientKept, HandlerKept, <1>1, <1>2, <1>3, <1>4, <1>5, <1>6, <1>7, <1>8,
     <1>9, <1>10, <1>11, <1>12, <1>13, <1>14, <1>15, <1>16, <1>17, <1>18,
     <1>19, <1>20, <1>21, <1>22, <1>23, <1>24, <1>25, <1>26, <1>27, <1>28,
     <1>29, <1>30, <1>31, <1>32, <1>33, <1>34, <1>35, <1>36, <1>37, <1>38,
     <1>39
  DEF ClientSteps, HandlerSteps

\* A state with nothing to report stays as it is (TryStateChange).
LEMMA CalmStays ==
  ASSUME Calm, StoreType
  PROVE  NextState = "initial"
<1>1. state = "initial" /\ state \in DOMAIN Limit /\ state \notin Over
  BY Limits DEF Calm, Over
<1>2. Limit[state] \in Nat \ {0}
  BY <1>1, Limits
<1>3. ~(attempts > Limit[state] - 1)
  BY <1>2 DEF Calm
<1>4. CASE kick
  BY <1>1, <1>4 DEF NextState
<1>5. CASE ~kick /\ ~(conf.ignCount > IgnitionThreshold)
  BY <1>1, <1>3, <1>5 DEF NextState
<1>6. CASE conf.ignCount > IgnitionThreshold
  BY <1>6, BoundAssumption DEF Calm, StoreType, Store
<1> QED
  BY <1>4, <1>5, <1>6

\* A state that is kept has an attempt left (TryStateChange).
LEMMA KeptHasAttempt ==
  ASSUME BackoffType, state \in DOMAIN Limit, ~kick, NextState = state
  PROVE  attempts < Limit[state]
<1>1. Limit[state] \in Nat /\ attempts \in Nat
  BY Limits DEF BackoffType
<1>2. Following[state] # state
  BY Limits DEF Following, Limit
<1>3. CASE state = "initial" /\ conf.ignCount > IgnitionThreshold
  BY <1>3 DEF NextState
<1>4. CASE ~(state = "initial" /\ conf.ignCount > IgnitionThreshold)
  <2>1. ~(attempts > Limit[state] - 1)
    BY <1>2, <1>4 DEF NextState
  <2> QED
    BY <1>1, <2>1
<1> QED
  BY <1>3, <1>4

\* A state that has been checked has an attempt left, whoever checks it.
LEMMA CheckedHasAttempt ==
  ASSUME BackoffType, NEW t \in Thread, CheckCurrentState(t),
         state' \in DOMAIN Limit
  PROVE  /\ attempts' < Limit[state']
         /\ attempts' <= Limit[state']
<1>1. Limit[state'] \in Nat \ {0}
  BY Limits
<1>2. state' = NextState
  BY DEF CheckCurrentState
<1>3. CASE kick \/ NextState # state
  <2>1. attempts' = 0
    BY <1>3 DEF CheckCurrentState
  <2> QED
    BY <1>1, <2>1
<1>4. CASE ~kick /\ NextState = state
  <2>1. attempts' = attempts
    BY <1>4 DEF CheckCurrentState
  <2>2. state \in DOMAIN Limit /\ state' = state
    BY <1>2, <1>4
  <2>3. attempts < Limit[state]
    BY <1>4, <2>2, KeptHasAttempt
  <2> QED
    BY <1>1, <2>1, <2>2, <2>3 DEF BackoffType
<1> QED
  BY <1>3, <1>4

\* Every step keeps what lets a late event do no harm.
LEMMA QuietStep ==
  ASSUME Quiet, Positions, StoreType, BackoffType, [Next]_vars
  PROVE  Quiet'
<1> USE DEF store, client, backoff, handlers, Quiet, Positions, Calm,
            Accepting, Activated
<1>1. CASE Proceed
  BY ProceedKeeps, <1>1 DEF Proceed, Goes
<1>2. CASE TooEarly
  BY <1>2 DEF TooEarly, Goes
<1>3. CASE ReportBackoff
  BY <1>3 DEF ReportBackoff, ActivateReturns, Goes, Returns, Report
<1>4. CASE TimeReached
  BY <1>4 DEF TimeReached, Goes
<1>5. CASE ClientChecksState
  BY <1>5
  DEF ClientChecksState, CheckCurrentState, ActivateReturns, Goes, Returns,
     Report
<1>6. CASE RequestFails
  BY <1>6 DEF RequestFails, Report, Goes
<1>7. CASE RequestRejected
  BY <1>7 DEF RequestRejected, Report, Goes
<1>8. CASE CalculateNextRetry
  BY <1>8 DEF CalculateNextRetry, ActivateReturns, Goes, Returns
<1>9. CASE ConstructorReports
  BY <1>9 DEF ConstructorReports, Report, Returns
<1>10. CASE RequestAccepted
  BY <1>10 DEF RequestAccepted, Writes, Write, Goes
<1>11. CASE SetLastDeviceId
  BY <1>11 DEF SetLastDeviceId, Write, Goes
<1>12. CASE SetPasscode
  BY <1>12 DEF SetPasscode, Writes, Write, Goes
<1>13. CASE PersistStatus
  BY <1>13 DEF PersistStatus, Write, Report, Goes
<1>14. CASE ResetIncrement
  BY <1>14 DEF ResetIncrement, Goes
<1>15. CASE ResetState
  BY <1>15 DEF ResetState, Goes
<1>16. CASE ResetCount
  <2>1. conf'.ignCount = 0 /\ 0 <= IgnitionThreshold
    BY BoundAssumption, <1>16 DEF ResetCount, Write, StoreType, Store
  <2>2. UNCHANGED <<event, state, attempts>>
    BY <1>16 DEF ResetCount
  <2> QED
    BY <2>1, <2>2, <1>16 DEF ResetCount, ActivateReturns, Goes, Returns
<1>17. CASE CallGetToken
  BY <1>17 DEF CallGetToken
<1>18. CASE GetToken
  BY <1>18 DEF GetToken, Goes
<1>19. CASE LoginAccepted /\ reporting["client"] = NoCall
  BY <1>19 DEF LoginAccepted, Report, Granted
<1>20. CASE LoginRejected
  BY <1>20 DEF LoginRejected, Returns, TokenDropped
<1>21. CASE LoginError
  BY <1>21 DEF LoginError, Returns
<1>22. CASE LoginFails
  BY <1>22 DEF LoginFails, Report, Returns
<1>23. CASE DropLogin
  BY <1>23 DEF DropLogin, Writes, Write, Goes
<1>24. CASE DropPasscode
  BY <1>24 DEF DropPasscode, Write
<1>25. CASE Connected /\ reporting["client"] = NoCall
  BY <1>25 DEF Connected, Goes
<1>26. CASE Refused
  BY <1>26 DEF Refused, TokenDropped
<1>27. CASE Unreachable
  BY <1>27 DEF Unreachable, Goes
<1>28. CASE SessionLost
  BY <1>28 DEF SessionLost, Goes
<1>29. CASE EventArrives
  BY <1>29 DEF EventArrives
<1>30. CASE EventNoted
  BY <1>30 DEF EventNoted, None
<1>31. CASE EventHandled
  BY <1>31 DEF EventHandled
<1>32. CASE EventStored
  BY <1>32 DEF EventStored, Write
<1>33. CASE EventsUploaded
  BY <1>33 DEF EventsUploaded, Write
<1>34. CASE BeginTxn
  BY <1>34 DEF BeginTxn
<1>35. CASE EndTxn
  BY <1>35 DEF EndTxn
<1>36. CASE DisassociationRequest
  BY <1>36 DEF DisassociationRequest
<1>37. ASSUME NEW h \in Handler, ClearActivationStatus(h)
      PROVE  Quiet'
  BY <1>37 DEF ClearActivationStatus, Write
<1>38. ASSUME NEW h \in Handler, SetDisassociated(h)
      PROVE  Quiet'
  BY <1>38 DEF SetDisassociated, Write
<1>39. ASSUME NEW h \in Handler, RestartAnalytics(h)
      PROVE  Quiet'
  BY <1>39 DEF RestartAnalytics, ProcessEnds
<1>40. CASE Crash
  BY <1>40 DEF Crash, ProcessEnds
<1>41. CASE Start
  BY <1>41 DEF Start, Write, Goes, Empty
<1>42. CASE TokenExpires
  BY <1>42 DEF TokenExpires, inside
<1>43. CASE UNCHANGED <<store, client, backoff, handlers>>
  BY <1>43
<1> HIDE DEF store, client, backoff, handlers, Quiet, Positions, Calm,
             Accepting, Activated
<1> QED
  BY StoreKept, ClientKept, BackoffKept, HandlerKept, <1>1, <1>2, <1>3, <1>4,
     <1>5, <1>6, <1>7, <1>8, <1>9, <1>10, <1>11, <1>12, <1>13, <1>14, <1>15,
     <1>16, <1>17, <1>18, <1>19, <1>20, <1>21, <1>22, <1>23, <1>24, <1>25,
     <1>26, <1>27, <1>28, <1>29, <1>30, <1>31, <1>32, <1>33, <1>34, <1>35,
     <1>36, <1>37, <1>38, <1>39, <1>40, <1>41, <1>42, <1>43
  DEF StoreSteps, ClientSteps, BackoffSteps, HandlerSteps

\* Every step keeps the call of the login the last one.
LEMMA ReportedStep ==
  ASSUME Reported, Quiet, Positions, StoreType, ReportType, [Next]_vars
  PROVE  Reported'
<1> USE DEF client, report, Reported, Positions, Thread, NoCall
<1>1. CASE Proceed
  BY <1>1 DEF Proceed, Write, Goes
<1>2. CASE TooEarly
  BY <1>2 DEF TooEarly, Goes
<1>3. CASE ReportBackoff
  BY <1>3 DEF ReportBackoff, ActivateReturns, Goes, Returns, Report
<1>4. CASE TimeReached
  BY <1>4 DEF TimeReached, Goes
<1>5. CASE ClientChecksState
  BY <1>5
  DEF ClientChecksState, CheckCurrentState, ActivateReturns, Goes, Returns,
     Report
<1>6. CASE RequestFails
  BY <1>6 DEF RequestFails, Report, Goes
<1>7. CASE RequestRejected
  BY <1>7 DEF RequestRejected, Report, Goes
<1>8. CASE CalculateNextRetry
  BY <1>8 DEF CalculateNextRetry, ActivateReturns, Goes, Returns
<1>9. CASE ConstructorReports
  BY <1>9 DEF ConstructorReports, Report, Returns
<1>10. CASE RequestAccepted
  BY <1>10 DEF RequestAccepted, Writes, Write, Goes
<1>11. CASE SetLastDeviceId
  BY <1>11 DEF SetLastDeviceId, Write, Goes
<1>12. CASE SetPasscode
  BY <1>12 DEF SetPasscode, Writes, Write, Goes
<1>13. CASE PersistStatus
  BY <1>13 DEF PersistStatus, Write, Report, Goes
<1>14. CASE ResetIncrement
  BY <1>14 DEF ResetIncrement, Goes
<1>15. CASE ResetState
  BY <1>15 DEF ResetState, Goes
<1>16. CASE ResetCount
  BY <1>16 DEF ResetCount, Write, ActivateReturns, Goes, Returns
<1>17. CASE CallGetToken
  BY <1>17 DEF CallGetToken
<1>18. CASE GetToken
  BY <1>18 DEF GetToken, Goes
<1>19. CASE LoginAccepted /\ reporting["client"] = NoCall
  BY <1>19 DEF LoginAccepted, Report, ReportType, Call
<1>20. CASE LoginRejected
  BY <1>20 DEF LoginRejected, Returns, TokenDropped
<1>21. CASE LoginError
  BY <1>21 DEF LoginError, Returns
<1>22. CASE LoginFails
  BY <1>22 DEF LoginFails, Report, Returns
<1>23. CASE DropLogin
  BY <1>23 DEF DropLogin, Writes, Write, Goes
<1>24. CASE DropPasscode
  BY <1>24 DEF DropPasscode, Write
<1>25. CASE Connected /\ reporting["client"] = NoCall
  BY <1>25 DEF Connected, Goes
<1>26. CASE Refused
  BY <1>26 DEF Refused, TokenDropped
<1>27. CASE Unreachable
  BY <1>27 DEF Unreachable, Goes
<1>28. CASE SessionLost
  BY <1>28 DEF SessionLost, Goes
<1>29. ASSUME NEW t \in Thread, WriteReason(t)
      PROVE  Reported'
  <2>1. CASE t = "client"
    BY <2>1, <1>29 DEF WriteReason, ReportType, Call
  <2>2. CASE t = "event"
    BY <2>2, <1>29 DEF WriteReason, ReportType, Call
  <2> QED
    BY <2>1, <2>2
<1>30. ASSUME NEW t \in Thread, WriteState(t)
      PROVE  Reported'
  <2>1. CASE t = "client"
    BY <2>1, <1>30 DEF WriteState, ReportType, Call
  <2>2. CASE t = "event"
    BY <2>2, <1>30 DEF WriteState, ReportType, Call
  <2> QED
    BY <2>1, <2>2
<1>31. CASE EventHandled
  <2>1. token' = token /\ expired' = expired /\ crossed' = crossed
    BY <1>31 DEF EventHandled, CheckCurrentState
  <2>2. CASE token # None
    <3>1. Calm
      BY <2>2, <1>31 DEF EventHandled, Quiet, Activated, Accepting, None
    <3>2. NextState = "initial"
      BY <3>1, CalmStays
    <3>3. UNCHANGED <<active, reason, reporting>>
      BY <3>2, <1>31 DEF EventHandled, CheckCurrentState
    <3> QED
      BY <2>1, <3>3
  <2> QED
    BY <2>1, <2>2
<1>32. ASSUME NEW h \in Handler, RestartAnalytics(h)
      PROVE  Reported'
  BY <1>32 DEF RestartAnalytics, ProcessEnds
<1>33. CASE Crash
  BY <1>33 DEF Crash, ProcessEnds
<1>34. CASE Start
  BY <1>34 DEF Start, Write, Goes, Empty
<1>35. CASE TokenExpires
  BY <1>35 DEF TokenExpires, inside
<1>36. CASE UNCHANGED <<client, report>>
  BY <1>36
<1> HIDE DEF client, report, Reported, Positions, Thread, NoCall
<1> QED
  BY ClientKept, ReportKept, <1>1, <1>2, <1>3, <1>4, <1>5, <1>6, <1>7, <1>8,
     <1>9, <1>10, <1>11, <1>12, <1>13, <1>14, <1>15, <1>16, <1>17, <1>18,
     <1>19, <1>20, <1>21, <1>22, <1>23, <1>24, <1>25, <1>26, <1>27, <1>28,
     <1>29, <1>30, <1>31, <1>32, <1>33, <1>34, <1>35, <1>36
  DEF ClientSteps, ReportSteps

\* Every step keeps the attempts within the limit of the state.
LEMMA CountedStep ==
  ASSUME Counted, BackoffType, [Next]_vars
  PROVE  Counted'
<1> USE DEF client, backoff, Counted, BackoffType
<1>1. CASE Proceed
  BY Limits, <1>1 DEF Proceed, Write, Goes
<1>2. CASE TooEarly
  BY Limits, <1>2 DEF TooEarly, Goes
<1>3. CASE ReportBackoff
  BY Limits, <1>3 DEF ReportBackoff, ActivateReturns, Goes, Returns, Report
<1>4. CASE TimeReached
  BY Limits, <1>4 DEF TimeReached, Goes
<1>5. CASE ClientChecksState
  BY CheckedHasAttempt, <1>5 DEF ClientChecksState, Thread
<1>6. CASE RequestFails
  BY Limits, <1>6 DEF RequestFails, Report, Goes
<1>7. CASE RequestRejected
  BY Limits, <1>7 DEF RequestRejected, Report, Goes
<1>8. CASE CalculateNextRetry
  BY Limits, <1>8 DEF CalculateNextRetry, ActivateReturns, Goes, Returns
<1>9. CASE ConstructorReports
  BY Limits, <1>9 DEF ConstructorReports, Report, Returns
<1>10. CASE RequestAccepted
  BY Limits, <1>10 DEF RequestAccepted, Writes, Write, Goes
<1>11. CASE SetLastDeviceId
  BY Limits, <1>11 DEF SetLastDeviceId, Write, Goes
<1>12. CASE SetPasscode
  BY Limits, <1>12 DEF SetPasscode, Writes, Write, Goes
<1>13. CASE PersistStatus
  BY Limits, <1>13 DEF PersistStatus, Write, Report, Goes
<1>14. CASE ResetIncrement
  BY Limits, <1>14 DEF ResetIncrement, Goes
<1>15. CASE ResetState
  BY Limits, <1>15 DEF ResetState, Goes
<1>16. CASE ResetCount
  BY Limits, <1>16 DEF ResetCount, Write, ActivateReturns, Goes, Returns
<1>17. CASE CallGetToken
  BY Limits, <1>17 DEF CallGetToken
<1>18. CASE GetToken
  BY Limits, <1>18 DEF GetToken, Goes
<1>19. CASE LoginAccepted /\ reporting["client"] = NoCall
  BY Limits, <1>19 DEF LoginAccepted, Report
<1>20. CASE LoginRejected
  BY Limits, <1>20 DEF LoginRejected, Returns, TokenDropped
<1>21. CASE LoginError
  BY Limits, <1>21 DEF LoginError, Returns
<1>22. CASE LoginFails
  BY Limits, <1>22 DEF LoginFails, Report, Returns
<1>23. CASE DropLogin
  BY Limits, <1>23 DEF DropLogin, Writes, Write, Goes
<1>24. CASE DropPasscode
  BY Limits, <1>24 DEF DropPasscode, Write
<1>25. CASE Connected /\ reporting["client"] = NoCall
  BY Limits, <1>25 DEF Connected, Goes
<1>26. CASE Refused
  BY Limits, <1>26 DEF Refused, TokenDropped
<1>27. CASE Unreachable
  BY Limits, <1>27 DEF Unreachable, Goes
<1>28. CASE SessionLost
  BY Limits, <1>28 DEF SessionLost, Goes
<1>29. CASE EventNoted
  BY Limits, <1>29 DEF EventNoted
<1>30. CASE EventHandled
  BY CheckedHasAttempt, <1>30 DEF EventHandled, Thread
<1>31. ASSUME NEW h \in Handler, RestartAnalytics(h)
      PROVE  Counted'
  BY Limits, <1>31 DEF RestartAnalytics, ProcessEnds
<1>32. CASE Crash
  BY Limits, <1>32 DEF Crash, ProcessEnds
<1>33. CASE Start
  BY Limits, <1>33 DEF Start, Write, Goes, Empty
<1>34. CASE TokenExpires
  BY Limits, <1>34 DEF TokenExpires, inside
<1>35. CASE UNCHANGED <<client, backoff>>
  BY <1>35
<1> HIDE DEF client, backoff, Counted, BackoffType
<1> QED
  BY ClientKept, BackoffKept, <1>1, <1>2, <1>3, <1>4, <1>5, <1>6, <1>7, <1>8,
     <1>9, <1>10, <1>11, <1>12, <1>13, <1>14, <1>15, <1>16, <1>17, <1>18,
     <1>19, <1>20, <1>21, <1>22, <1>23, <1>24, <1>25, <1>26, <1>27, <1>28,
     <1>29, <1>30, <1>31, <1>32, <1>33, <1>34, <1>35
  DEF ClientSteps, BackoffSteps

\* Every step keeps the flag of a disassociation to the end of the process.
LEMMA LeavingStep ==
  ASSUME Leaving, Positions, HandlerPlace, HandlerType, StoreType, [Next]_vars
  PROVE  Leaving'
<1> USE DEF store, client, handlers, Leaving, Positions, HandlerPlace,
            HandlerType, Handler
<1>1. CASE Proceed
  BY ProceedKeeps, <1>1 DEF Proceed, Goes
<1>2. CASE TooEarly
  BY <1>2 DEF TooEarly, Goes
<1>3. CASE ReportBackoff
  BY <1>3 DEF ReportBackoff, ActivateReturns, Goes, Returns, Report
<1>4. CASE TimeReached
  BY <1>4 DEF TimeReached, Goes
<1>5. CASE ClientChecksState
  BY <1>5
  DEF ClientChecksState, CheckCurrentState, ActivateReturns, Goes, Returns,
     Report
<1>6. CASE RequestFails
  BY <1>6 DEF RequestFails, Report, Goes
<1>7. CASE RequestRejected
  BY <1>7 DEF RequestRejected, Report, Goes
<1>8. CASE CalculateNextRetry
  BY <1>8 DEF CalculateNextRetry, ActivateReturns, Goes, Returns
<1>9. CASE ConstructorReports
  BY <1>9 DEF ConstructorReports, Report, Returns
<1>10. CASE RequestAccepted
  BY <1>10 DEF RequestAccepted, Writes, Write, Goes
<1>11. CASE SetLastDeviceId
  <2>1. CASE conf.lastDeviceId \notin {None, conf.login}
    BY <2>1, <1>11 DEF SetLastDeviceId, Write, Goes
  <2>2. CASE conf.lastDeviceId \in {None, conf.login}
    BY <2>2, <1>11 DEF SetLastDeviceId, Write, Goes
  <2> QED
    BY <2>1, <2>2
<1>12. CASE SetPasscode
  BY <1>12 DEF SetPasscode, Writes, Write, Goes
<1>13. CASE PersistStatus
  BY <1>13 DEF PersistStatus, Write, Report, Goes
<1>14. CASE ResetIncrement
  BY <1>14 DEF ResetIncrement, Goes
<1>15. CASE ResetState
  BY <1>15 DEF ResetState, Goes
<1>16. CASE ResetCount
  BY <1>16 DEF ResetCount, Write, ActivateReturns, Goes, Returns
<1>17. CASE CallGetToken
  BY <1>17 DEF CallGetToken
<1>18. CASE GetToken
  BY <1>18 DEF GetToken, Goes
<1>19. CASE LoginAccepted /\ reporting["client"] = NoCall
  BY <1>19 DEF LoginAccepted, Report
<1>20. CASE LoginRejected
  BY <1>20 DEF LoginRejected, Returns, TokenDropped
<1>21. CASE LoginError
  BY <1>21 DEF LoginError, Returns
<1>22. CASE LoginFails
  BY <1>22 DEF LoginFails, Report, Returns
<1>23. CASE DropLogin
  BY <1>23 DEF DropLogin, Writes, Write, Goes
<1>24. CASE DropPasscode
  BY <1>24 DEF DropPasscode, Write
<1>25. CASE Connected /\ reporting["client"] = NoCall
  BY <1>25 DEF Connected, Goes
<1>26. CASE Refused
  BY <1>26 DEF Refused, TokenDropped
<1>27. CASE Unreachable
  BY <1>27 DEF Unreachable, Goes
<1>28. CASE SessionLost
  BY <1>28 DEF SessionLost, Goes
<1>29. CASE EventArrives
  BY <1>29 DEF EventArrives
<1>30. CASE EventNoted
  BY <1>30 DEF EventNoted
<1>31. CASE EventHandled
  BY <1>31 DEF EventHandled, CheckCurrentState, Report
<1>32. CASE EventStored
  BY <1>32 DEF EventStored, Write
<1>33. CASE EventsUploaded
  BY <1>33 DEF EventsUploaded, Write
<1>34. CASE BeginTxn
  BY <1>34 DEF BeginTxn
<1>35. CASE EndTxn
  BY <1>35 DEF EndTxn
<1>36. CASE DisassociationRequest
  BY <1>36 DEF DisassociationRequest
<1>37. ASSUME NEW h \in Handler, ClearActivationStatus(h)
      PROVE  Leaving'
  BY <1>37 DEF ClearActivationStatus, Write
<1>38. ASSUME NEW h \in Handler, SetDisassociated(h)
      PROVE  Leaving'
  BY <1>38 DEF SetDisassociated, Write
<1>39. ASSUME NEW h \in Handler, RestartAnalytics(h)
      PROVE  Leaving'
  BY <1>39 DEF RestartAnalytics, ProcessEnds
<1>40. CASE Crash
  BY <1>40 DEF Crash, ProcessEnds
<1>41. CASE Start
  BY <1>41 DEF Start, Write, Goes, Empty
<1>42. CASE TokenExpires
  BY <1>42 DEF TokenExpires, inside
<1>43. CASE UNCHANGED <<store, client, handlers>>
  BY <1>43
<1> HIDE DEF store, client, handlers, Leaving, Positions, HandlerPlace,
             HandlerType, Handler
<1> QED
  BY StoreKept, ClientKept, HandlerKept, <1>1, <1>2, <1>3, <1>4, <1>5, <1>6,
     <1>7, <1>8, <1>9, <1>10, <1>11, <1>12, <1>13, <1>14, <1>15, <1>16, <1>17,
     <1>18, <1>19, <1>20, <1>21, <1>22, <1>23, <1>24, <1>25, <1>26, <1>27,
     <1>28, <1>29, <1>30, <1>31, <1>32, <1>33, <1>34, <1>35, <1>36, <1>37,
     <1>38, <1>39, <1>40, <1>41, <1>42, <1>43
  DEF StoreSteps, ClientSteps, HandlerSteps

\* Every step keeps the disk up to date while no transaction is open.
LEMMA DurableStep ==
  ASSUME Durable, [Next]_vars
  PROVE  Durable'
<1> USE DEF store, Durable
<1>1. CASE Proceed
  BY <1>1 DEF Proceed, Write, Goes
<1>2. CASE RequestAccepted
  BY <1>2 DEF RequestAccepted, Writes, Write, Goes
<1>3. CASE SetLastDeviceId
  BY <1>3 DEF SetLastDeviceId, Write, Goes
<1>4. CASE SetPasscode
  BY <1>4 DEF SetPasscode, Writes, Write, Goes
<1>5. CASE PersistStatus
  BY <1>5 DEF PersistStatus, Write, Report, Goes
<1>6. CASE ResetCount
  BY <1>6 DEF ResetCount, Write, ActivateReturns, Goes, Returns
<1>7. CASE DropLogin
  BY <1>7 DEF DropLogin, Writes, Write, Goes
<1>8. CASE DropPasscode
  BY <1>8 DEF DropPasscode, Write
<1>9. CASE EventStored
  BY <1>9 DEF EventStored, Write
<1>10. CASE EventsUploaded
  BY <1>10 DEF EventsUploaded, Write
<1>11. CASE BeginTxn
  BY <1>11 DEF BeginTxn
<1>12. CASE EndTxn
  BY <1>12 DEF EndTxn
<1>13. ASSUME NEW h \in Handler, ClearActivationStatus(h)
      PROVE  Durable'
  BY <1>13 DEF ClearActivationStatus, Write
<1>14. ASSUME NEW h \in Handler, SetDisassociated(h)
      PROVE  Durable'
  BY <1>14 DEF SetDisassociated, Write
<1>15. ASSUME NEW h \in Handler, RestartAnalytics(h)
      PROVE  Durable'
  BY <1>15 DEF RestartAnalytics, ProcessEnds
<1>16. CASE Crash
  BY <1>16 DEF Crash, ProcessEnds
<1>17. CASE Start
  BY <1>17 DEF Start, Write
<1>18. CASE UNCHANGED <<store>>
  BY <1>18
<1> HIDE DEF store, Durable
<1> QED
  BY StoreKept, <1>1, <1>2, <1>3, <1>4, <1>5, <1>6, <1>7, <1>8, <1>9, <1>10,
     <1>11, <1>12, <1>13, <1>14, <1>15, <1>16, <1>17, <1>18
  DEF StoreSteps

\* Every step keeps the reasons for a missing activation status.
LEMMA StatusStep ==
  ASSUME StatusInv, Durable, Positions, HandlerPlace, HandlerType, StoreType,
         [Next]_vars
  PROVE  StatusInv'
<1> USE DEF store, client, handlers, outside, StatusInv, ShownBy, Durable,
            Positions, HandlerPlace, HandlerType, Handler
<1>a. /\ "statusLost" \in Windows <=>
           /\ ~conf.disassociated
           /\ at = "status" \/ \E h \in Handler : handling[h] = "flag"
      /\ "statusLost" \in Windows' <=>
           /\ ~conf'.disassociated
           /\ at' = "status" \/ \E h \in Handler : handling'[h] = "flag"
  BY DEF Windows
<1>1. CASE Proceed
  <2>1. UNCHANGED <<handlers, outside>> /\ at = "proceed" /\ at' = "time"
    BY <1>1 DEF Proceed, Goes
  <2>2. "statusLost" \in Windows' <=> "statusLost" \in Windows
    BY <1>a, <2>1, ProceedKeeps, <1>1
  <2> QED
    BY <2>1, <2>2, ProceedKeeps, <1>1
<1>2. CASE TooEarly
  BY <1>a, <1>2 DEF TooEarly, Goes
<1>3. CASE ReportBackoff
  BY <1>a, <1>3 DEF ReportBackoff, ActivateReturns, Goes, Returns, Report
<1>4. CASE TimeReached
  BY <1>a, <1>4 DEF TimeReached, Goes
<1>5. CASE ClientChecksState
  BY <1>a, <1>5
  DEF ClientChecksState, CheckCurrentState, ActivateReturns, Goes, Returns,
     Report
<1>6. CASE RequestFails
  BY <1>a, <1>6 DEF RequestFails, Report, Goes
<1>7. CASE RequestRejected
  BY <1>a, <1>7 DEF RequestRejected, Report, Goes
<1>8. CASE CalculateNextRetry
  BY <1>a, <1>8 DEF CalculateNextRetry, ActivateReturns, Goes, Returns
<1>9. CASE ConstructorReports
  BY <1>a, <1>9 DEF ConstructorReports, Report, Returns
<1>10. CASE RequestAccepted
  BY <1>a, <1>10 DEF RequestAccepted, Writes, Write, Goes
<1>11. CASE SetLastDeviceId
  <2>1. CASE conf.lastDeviceId \notin {None, conf.login}
    BY <2>1, <1>a, <1>11 DEF SetLastDeviceId, Write, Goes
  <2>2. CASE conf.lastDeviceId \in {None, conf.login}
    BY <2>2, <1>a, <1>11 DEF SetLastDeviceId, Write, Goes
  <2> QED
    BY <2>1, <2>2
<1>12. CASE SetPasscode
  BY <1>a, <1>12 DEF SetPasscode, Writes, Write, Goes
<1>13. CASE PersistStatus
  BY <1>a, <1>13 DEF PersistStatus, Write, Report, Goes
<1>14. CASE ResetIncrement
  BY <1>a, <1>14 DEF ResetIncrement, Goes
<1>15. CASE ResetState
  BY <1>a, <1>15 DEF ResetState, Goes
<1>16. CASE ResetCount
  BY <1>a, <1>16 DEF ResetCount, Write, ActivateReturns, Goes, Returns
<1>17. CASE CallGetToken
  BY <1>a, <1>17 DEF CallGetToken
<1>18. CASE GetToken
  BY <1>a, <1>18 DEF GetToken, Goes
<1>19. CASE LoginAccepted /\ reporting["client"] = NoCall
  BY <1>a, <1>19 DEF LoginAccepted, Report
<1>20. CASE LoginRejected
  BY <1>a, <1>20 DEF LoginRejected, Returns, TokenDropped
<1>21. CASE LoginError
  BY <1>a, <1>21 DEF LoginError, Returns
<1>22. CASE LoginFails
  BY <1>a, <1>22 DEF LoginFails, Report, Returns
<1>23. CASE DropLogin
  BY <1>a, <1>23 DEF DropLogin, Writes, Write, Goes
<1>24. CASE DropPasscode
  BY <1>a, <1>24 DEF DropPasscode, Write
<1>25. CASE Connected /\ reporting["client"] = NoCall
  BY <1>a, <1>25 DEF Connected, Goes
<1>26. CASE Refused
  BY <1>a, <1>26 DEF Refused, TokenDropped
<1>27. CASE Unreachable
  BY <1>a, <1>27 DEF Unreachable, Goes
<1>28. CASE SessionLost
  BY <1>a, <1>28 DEF SessionLost, Goes
<1>29. CASE EventArrives
  BY <1>a, <1>29 DEF EventArrives
<1>30. CASE EventNoted
  BY <1>a, <1>30 DEF EventNoted
<1>31. CASE EventHandled
  BY <1>a, <1>31 DEF EventHandled, CheckCurrentState, Report
<1>32. CASE EventStored
  BY <1>a, <1>32 DEF EventStored, Write
<1>33. CASE EventsUploaded
  BY <1>a, <1>33 DEF EventsUploaded, Write
<1>34. CASE BeginTxn
  BY <1>a, <1>34 DEF BeginTxn
<1>35. CASE EndTxn
  BY <1>a, <1>35 DEF EndTxn
<1>36. CASE DisassociationRequest
  BY <1>a, <1>36 DEF DisassociationRequest
<1>37. ASSUME NEW h \in Handler, ClearActivationStatus(h)
      PROVE  StatusInv'
  BY <1>a, <1>37 DEF ClearActivationStatus, Write
<1>38. ASSUME NEW h \in Handler, SetDisassociated(h)
      PROVE  StatusInv'
  BY <1>a, <1>38 DEF SetDisassociated, Write
<1>39. ASSUME NEW h \in Handler, RestartAnalytics(h)
      PROVE  StatusInv'
  BY <1>a, <1>39 DEF RestartAnalytics, ProcessEnds
<1>40. CASE Crash
  BY <1>a, <1>40 DEF Crash, ProcessEnds
<1>41. CASE Start
  BY <1>a, <1>41 DEF Start, Write, Goes, Empty
<1>42. CASE TokenExpires
  BY <1>a, <1>42 DEF TokenExpires, inside
<1>43. CASE AssociationChanges
  BY <1>a, <1>43 DEF AssociationChanges, inside
<1>44. CASE NetworkLost
  BY <1>a, <1>44 DEF NetworkLost, inside
<1>45. CASE NetworkBack
  BY <1>a, <1>45 DEF NetworkBack, inside
<1>46. CASE VinKnown
  BY <1>a, <1>46 DEF VinKnown, inside
<1>47. CASE UNCHANGED <<store, client, handlers, outside>>
  BY <1>47 DEF Windows
<1> HIDE DEF store, client, handlers, outside, StatusInv, ShownBy, Durable,
             Positions, HandlerPlace, HandlerType, Handler
<1> QED
  BY StoreKept, ClientKept, HandlerKept, OutsideKept, <1>1, <1>2, <1>3, <1>4,
     <1>5, <1>6, <1>7, <1>8, <1>9, <1>10, <1>11, <1>12, <1>13, <1>14, <1>15,
     <1>16, <1>17, <1>18, <1>19, <1>20, <1>21, <1>22, <1>23, <1>24, <1>25,
     <1>26, <1>27, <1>28, <1>29, <1>30, <1>31, <1>32, <1>33, <1>34, <1>35,
     <1>36, <1>37, <1>38, <1>39, <1>40, <1>41, <1>42, <1>43, <1>44, <1>45,
     <1>46, <1>47
  DEF StoreSteps, ClientSteps, HandlerSteps, OutsideSteps

\* Every step keeps the stored events those of the last device id.
LEMMA RowsStep ==
  ASSUME RowsInv, Leaving, Durable, Positions, HandlerPlace, HandlerType,
         StoreType, [Next]_vars
  PROVE  RowsInv'
<1> USE DEF store, client, handlers, outside, RowsInv, Own, Moving, Leaving,
            Durable, Positions, HandlerPlace, HandlerType, Handler, StoreType,
            Store, MaybeDevice
<1>a. "ownerKept" \in Windows <=>
        ~conf.disassociated /\ handling["client"] \in {"clear", "flag"}
  BY DEF Windows
<1>1. CASE Proceed
  BY DeviceAssumption, <1>1 DEF Proceed, Write, Goes
<1>2. CASE TooEarly
  BY DeviceAssumption, <1>2 DEF TooEarly, Goes
<1>3. CASE ReportBackoff
  BY DeviceAssumption, <1>3
  DEF ReportBackoff, ActivateReturns, Goes, Returns, Report
<1>4. CASE TimeReached
  BY DeviceAssumption, <1>4 DEF TimeReached, Goes
<1>5. CASE ClientChecksState
  BY DeviceAssumption, <1>5
  DEF ClientChecksState, CheckCurrentState, ActivateReturns, Goes, Returns,
     Report
<1>6. CASE RequestFails
  BY DeviceAssumption, <1>6 DEF RequestFails, Report, Goes
<1>7. CASE RequestRejected
  BY DeviceAssumption, <1>7 DEF RequestRejected, Report, Goes
<1>8. CASE CalculateNextRetry
  BY DeviceAssumption, <1>8
  DEF CalculateNextRetry, ActivateReturns, Goes, Returns
<1>9. CASE ConstructorReports
  BY DeviceAssumption, <1>9 DEF ConstructorReports, Report, Returns
<1>10. CASE RequestAccepted
  BY DeviceAssumption, <1>10 DEF RequestAccepted, Writes, Write, Goes
<1>11. CASE SetLastDeviceId
  <2>1. CASE conf.lastDeviceId \notin {None, conf.login}
    BY <2>1, DeviceAssumption, <1>11 DEF SetLastDeviceId, Write, Goes
  <2>2. CASE conf.lastDeviceId \in {None, conf.login}
    BY <2>2, DeviceAssumption, <1>11 DEF SetLastDeviceId, Write, Goes
  <2> QED
    BY <2>1, <2>2
<1>12. CASE SetPasscode
  BY DeviceAssumption, <1>12 DEF SetPasscode, Writes, Write, Goes
<1>13. CASE PersistStatus
  BY DeviceAssumption, <1>13 DEF PersistStatus, Write, Report, Goes
<1>14. CASE ResetIncrement
  BY DeviceAssumption, <1>14 DEF ResetIncrement, Goes
<1>15. CASE ResetState
  BY DeviceAssumption, <1>15 DEF ResetState, Goes
<1>16. CASE ResetCount
  BY DeviceAssumption, <1>16
  DEF ResetCount, Write, ActivateReturns, Goes, Returns
<1>17. CASE CallGetToken
  BY DeviceAssumption, <1>17 DEF CallGetToken
<1>18. CASE GetToken
  BY DeviceAssumption, <1>18 DEF GetToken, Goes
<1>19. CASE LoginAccepted /\ reporting["client"] = NoCall
  BY DeviceAssumption, <1>19 DEF LoginAccepted, Report, Granted
<1>20. CASE LoginRejected
  BY DeviceAssumption, <1>20 DEF LoginRejected, Returns, TokenDropped
<1>21. CASE LoginError
  BY DeviceAssumption, <1>21 DEF LoginError, Returns
<1>22. CASE LoginFails
  BY DeviceAssumption, <1>22 DEF LoginFails, Report, Returns
<1>23. CASE DropLogin
  BY DeviceAssumption, <1>23 DEF DropLogin, Writes, Write, Goes
<1>24. CASE DropPasscode
  BY DeviceAssumption, <1>24 DEF DropPasscode, Write
<1>25. CASE Connected /\ reporting["client"] = NoCall
  BY DeviceAssumption, <1>25 DEF Connected, Goes
<1>26. CASE Refused
  BY DeviceAssumption, <1>26 DEF Refused, TokenDropped
<1>27. CASE Unreachable
  BY DeviceAssumption, <1>27 DEF Unreachable, Goes
<1>28. CASE SessionLost
  BY DeviceAssumption, <1>28 DEF SessionLost, Goes
<1>29. CASE EventArrives
  BY DeviceAssumption, <1>29 DEF EventArrives
<1>30. CASE EventNoted
  BY DeviceAssumption, <1>30 DEF EventNoted
<1>31. CASE EventHandled
  BY DeviceAssumption, <1>31 DEF EventHandled, CheckCurrentState, Report
<1>32. CASE EventStored
  BY DeviceAssumption, <1>32 DEF EventStored, Write
<1>33. CASE EventsUploaded
  BY DeviceAssumption, <1>33 DEF EventsUploaded, Write
<1>34. CASE BeginTxn
  BY <1>a, <1>34 DEF BeginTxn
<1>35. CASE EndTxn
  BY DeviceAssumption, <1>35 DEF EndTxn
<1>36. CASE DisassociationRequest
  BY DeviceAssumption, <1>36 DEF DisassociationRequest
<1>37. ASSUME NEW h \in Handler, ClearActivationStatus(h)
      PROVE  RowsInv'
  BY DeviceAssumption, <1>37 DEF ClearActivationStatus, Write
<1>38. ASSUME NEW h \in Handler, SetDisassociated(h)
      PROVE  RowsInv'
  BY DeviceAssumption, <1>38 DEF SetDisassociated, Write
<1>39. ASSUME NEW h \in Handler, RestartAnalytics(h)
      PROVE  RowsInv'
  BY <1>a, <1>39 DEF RestartAnalytics, ProcessEnds
<1>40. CASE Crash
  BY <1>a, <1>40 DEF Crash, ProcessEnds
<1>41. CASE Start
  BY DeviceAssumption, <1>41 DEF Start, Write, Goes, Empty
<1>42. CASE TokenExpires
  BY DeviceAssumption, <1>42 DEF TokenExpires, inside
<1>43. CASE AssociationChanges
  BY DeviceAssumption, <1>43 DEF AssociationChanges, inside
<1>44. CASE NetworkLost
  BY DeviceAssumption, <1>44 DEF NetworkLost, inside
<1>45. CASE NetworkBack
  BY DeviceAssumption, <1>45 DEF NetworkBack, inside
<1>46. CASE VinKnown
  BY DeviceAssumption, <1>46 DEF VinKnown, inside
<1>47. CASE UNCHANGED <<store, client, handlers, outside>>
  BY <1>47
<1> HIDE DEF store, client, handlers, outside, RowsInv, Own, Moving, Leaving,
             Durable, Positions, HandlerPlace, HandlerType, Handler,
             StoreType, Store, MaybeDevice
<1> QED
  BY StoreKept, ClientKept, HandlerKept, OutsideKept, <1>1, <1>2, <1>3, <1>4,
     <1>5, <1>6, <1>7, <1>8, <1>9, <1>10, <1>11, <1>12, <1>13, <1>14, <1>15,
     <1>16, <1>17, <1>18, <1>19, <1>20, <1>21, <1>22, <1>23, <1>24, <1>25,
     <1>26, <1>27, <1>28, <1>29, <1>30, <1>31, <1>32, <1>33, <1>34, <1>35,
     <1>36, <1>37, <1>38, <1>39, <1>40, <1>41, <1>42, <1>43, <1>44, <1>45,
     <1>46, <1>47
  DEF StoreSteps, ClientSteps, HandlerSteps, OutsideSteps

-----------------------------------------------------------------------------
(* The theorems.                                                           *)

\* The device starts in it.
LEMMA InitInv == Init => Inv
<1> SUFFICES ASSUME Init PROVE Inv
  OBVIOUS
<1> USE DEF Init
<1>1. StoreType /\ OutsideType
  <2>1. /\ 0 \in 0 .. IgnitionThreshold + 1 /\ 0 \in 0 .. MaxFaults
        /\ 0 \in 0 .. MaxChanges
    BY BoundAssumption
  <2>2. None \in MaybeDevice
    BY DEF MaybeDevice
  <2>3. StoreType
    BY <2>1, <2>2 DEF StoreType, Store, Empty
  <2>4. OutsideType
    BY <2>1, <2>2 DEF OutsideType, MaybeDevice
  <2> QED
    BY <2>3, <2>4
<1>2. ClientType /\ HandlerType /\ HandlerPlace
  BY DEF ClientType, HandlerType, HandlerPlace, MaybeDevice, Handler
<1>3. ReportType
  BY DEF ReportType, Call, Reason, NoCall
<1>4. BackoffType
  BY InitialIsState DEF BackoffType
<1>5. Positions /\ Quiet /\ Reported
  BY DEF Positions, Quiet, Reported, Activated, Handler, Empty
<1>6. Counted
  BY Limits DEF Counted
<1>7. Leaving /\ Durable
  BY DEF Leaving, Durable, Handler, Empty
<1>8. StatusInv /\ RowsInv
  BY DEF StatusInv, ShownBy, RowsInv, Own, Moving, Empty
<1> QED
  BY <1>1, <1>2, <1>3, <1>4, <1>5, <1>6, <1>7, <1>8 DEF Inv, TypeOK

\* Every step keeps it.
LEMMA StepInv == Inv /\ [Next]_vars => Inv'
<1> SUFFICES ASSUME Inv, [Next]_vars PROVE Inv'
  OBVIOUS
<1>1. /\ StoreType /\ ClientType /\ ReportType /\ BackoffType
      /\ HandlerType /\ OutsideType /\ HandlerPlace
      /\ Positions /\ Quiet /\ Reported /\ Counted
      /\ Leaving /\ Durable /\ StatusInv /\ RowsInv
  BY DEF Inv, TypeOK
<1>2. /\ StoreType' /\ ClientType' /\ ReportType' /\ BackoffType'
      /\ HandlerType' /\ OutsideType'
  BY <1>1, StoreStep, ClientStep, ReportStep, BackoffStep, HandlerStep,
     OutsideStep
<1>3. HandlerPlace' /\ Positions' /\ Quiet' /\ Reported' /\ Counted'
  BY <1>1, PlaceStep, PositionsStep, QuietStep, ReportedStep, CountedStep
<1>4. Leaving' /\ Durable' /\ StatusInv' /\ RowsInv'
  BY <1>1, LeavingStep, DurableStep, StatusStep, RowsStep
<1> QED
  BY <1>2, <1>3, <1>4 DEF Inv, TypeOK

\* The invariant holds in every state the device reaches.
THEOREM Invariance == Spec => []Inv
  BY InitInv, StepInv, PTL DEF Spec

\* Every variable keeps its type (CTokenManager, CActivationState,
\* CActivationBackoff, the local configuration), and the client's thread stays
\* in Handle once it is there.
THEOREM Typed == Spec => []TypeOK
<1>1. Inv => TypeOK
  BY DEF Inv
<1> QED
  BY <1>1, Invariance, PTL

\* Events recorded for one device are never uploaded in the name of another,
\* also when an end of the process takes back the writes that joined a
\* transaction, but for the window between the two writes of a re-association
\* (ProcessActivationResponse, Handle, CloseConnection, InitClient).
THEOREM RowsAreOwn == Spec => []NoForeignRows
<1>1. Inv => NoForeignRows
  <2> SUFFICES ASSUME Inv, at = "up", "ownerKept" \notin hazard
               PROVE  conf.rows \subseteq {token}
    BY DEF NoForeignRows
  <2>1. Own(conf) /\ token \in {None, conf.lastDeviceId}
    BY DEF Inv, RowsInv, Moving
  <2>2. token # None
    BY DEF Inv, Positions
  <2> QED
    BY <2>1, <2>2 DEF Own
<1> QED
  BY <1>1, Invariance, PTL

\* A connected device shows that it is activated, but for a disassociation on
\* its way or an end of the process that went back to one of the windows
\* without a status (PersistActivationStatus, ClearActivationStatus,
\* CloseConnection).
THEOREM StatusIsShown == Spec => []StatusShown
<1>1. Inv => StatusShown
  <2> SUFFICES ASSUME Inv, at = "up", ~conf.status, "statusLost" \notin hazard
               PROVE  handling["cloud"] \in {"flag", "exit"}
    BY DEF StatusShown
  <2>1. conf.passcode # None
    BY DEF Inv, Positions
  <2>2. conf.disassociated \/ "statusLost" \in Windows
    BY <2>1 DEF Inv, StatusInv, ShownBy
  <2>3. \E h \in Handler : handling[h] \in {"flag", "exit"}
    BY <2>2 DEF Inv, Leaving, Windows
  <2>4. handling["client"] = "idle"
    BY DEF Inv, TypeOK, HandlerPlace
  <2> QED
    BY <2>3, <2>4 DEF Handler
<1> QED
  BY <1>1, Invariance, PTL

\* A connected device is reported active (SetActivationState), whatever events
\* the back-off handles late, unless the call of one of them was past its test
\* when the login was reported.
THEOREM UpReportsActive == Spec => []UpIsActive
<1>1. Inv => UpIsActive
  BY DEF Inv, Positions, Reported, UpIsActive
<1> QED
  BY <1>1, Invariance, PTL

\* No state of the back-off lets through more than its configured attempts
\* (TryStateChange, ActivationFailed).
THEOREM AttemptsLimited == Spec => []AttemptsBounded
<1>1. Inv => AttemptsBounded
  BY DEF Inv, Counted, AttemptsBounded
<1> QED
  BY <1>1, Invariance, PTL
=============================================================================
