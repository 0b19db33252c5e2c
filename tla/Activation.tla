----------------------------- MODULE Activation -----------------------------
(***************************************************************************)
(* How the device gets an identity and a token: CTokenManager, the         *)
(* back-off of the activation requests (CActivationBackoff), what is       *)
(* reported of the activation (CActivationState), the disassociation of    *)
(* the device (CDisassociationRequestHandler and the clearing of the       *)
(* tables at the next start), and the MQTT client's thread that asks for a *)
(* token, connects with it and drops it when the broker refuses it.        *)
(*                                                                         *)
(* The rows of the local configuration are written one by one, on the      *)
(* connection the threads that insert and delete events share: a write     *)
(* joins the transaction one of them has open, and an end of the process   *)
(* before its END takes it back, an orderly one too, as nothing commits    *)
(* before sqlite3_close.                                                   *)
(*                                                                         *)
(* GetToken is called by the MQTT client's thread alone, on which the      *)
(* callbacks of the broker run too.  The handler of the back-off's events  *)
(* and that of the cloud's disassociation request run on threads of their  *)
(* own.  Time is told only when the client looks at the clock: it is       *)
(* before the next time of the state, or past it.                          *)
(***************************************************************************)
EXTENDS Integers, FiniteSets

CONSTANTS
  Device,             \* the device ids the cloud may give to this vehicle
  InitialAttempts,    \* attempts before INITIAL is left
  HighAttempts,       \* before HIGH_FREQ is left
  NormalAttempts,     \* before NORMAL_FREQ is left
  OverAttempts,       \* before OVER_IGN_THRESHOLD_HIGH_FREQ is left
  IgnitionThreshold,  \* g_nIgnitionThreshold
  MaxFaults,          \* bound: losses of the network, server errors, expiries,
                      \* crashes, and transactions an end may take back
  MaxChanges          \* bound: times the cloud changes the association

None == "none"

ASSUME DeviceAssumption == None \notin Device
ASSUME LimitAssumption ==
  {InitialAttempts, HighAttempts, NormalAttempts, OverAttempts}
    \subseteq Nat \ {0}
ASSUME BoundAssumption ==
  {IgnitionThreshold, MaxFaults, MaxChanges} \subseteq Nat

VARIABLES
  \* the data base
  conf,         \* the local configuration and the tables of events, see Empty
  disk,         \* the same as it is on the disk
  open,         \* a transaction is open on the connection
  began,        \* history: the windows (see Windows) in which it began
  \* CTokenManager and the MQTT client's thread
  made,         \* the constructor of CTokenManager has run
  token,        \* m_strToken, by the device it was given to
  expired,      \* the token's time to live is over
  at,           \* position of the MQTT client's thread, "off": no process
  caller,       \* who called Activate: the constructor, GetToken, or GetToken
                \* the second time
  \* CActivationState
  active, reason, \* m_bActivationState, m_eNotActivationReason
  reporting,    \* each thread's call of SetActivationState
  crossed,      \* history: the login was reported while the other thread's
                \* call was under way
  \* CActivationBackoff
  state, attempts,
  kick,         \* an ignition run or an attached device was noted in the state
  lastError, increment,
  \* the two handlers
  handling,     \* where each thread in CDisassociationRequestHandler is
  event,        \* event being handled, None when idle
  \* outside
  owner,        \* device id the cloud has for this vehicle, None: no one's
  net, vin,     \* the network works; the VIN is known
  faults, changes,
  hazard        \* history: windows to which an end of the process went back

store == <<conf, disk, open, began>>
client == <<made, token, expired, at, caller>>
report == <<active, reason, reporting, crossed>>
backoff == <<state, attempts, kick, lastError, increment>>
handlers == <<handling, event>>
outside == <<owner, net, vin, faults, changes, hazard>>
vars == <<store, client, report, backoff, handlers, outside>>

\* The rows of the configuration, and the device ids for which events are
\* stored.  No code tells apart values of IGNITION_COUNT over the threshold.
Empty == [login |-> None, passcode |-> None, lastDeviceId |-> None,
          status |-> FALSE,        \* the activation status says "activated"
          disassociated |-> FALSE, \* deviceDisassociated
          ignCount |-> 0,          \* IGNITION_COUNT
          rows |-> {}]

Over == {"overHigh", "overLow"}
BackoffState == {"initial", "high", "normal", "low"} \cup Over
Limit == [s \in {"initial", "high", "normal", "overHigh"} |->
            CASE s = "initial" -> InitialAttempts
              [] s = "high" -> HighAttempts
              [] s = "normal" -> NormalAttempts
              [] s = "overHigh" -> OverAttempts]
Following == [s \in DOMAIN Limit |->
                CASE s = "initial" -> "high"
                  [] s = "high" -> "normal"
                  [] s = "normal" -> "low"
                  [] s = "overHigh" -> "overLow"]

Handler == {"client", "cloud"}
Thread == {"client", "event"}
NoCall == [step |-> "none", state |-> FALSE, reason |-> "noError"]

Activated == conf.login # None /\ conf.passcode # None

Init == /\ conf = Empty /\ disk = Empty /\ open = FALSE /\ began = {}
        /\ made = FALSE /\ token = None /\ expired = FALSE
        /\ at = "idle" /\ caller = "first"
        /\ active = FALSE /\ reason = "noError" /\ crossed = FALSE
        /\ reporting = [t \in Thread |-> NoCall]
        /\ state = "initial" /\ attempts = 0 /\ kick = FALSE
        /\ lastError = "network" /\ increment = FALSE
        /\ handling = [h \in Handler |-> "idle"] /\ event = None
        /\ owner \in Device \cup {None} /\ net = TRUE /\ vin = FALSE
        /\ faults = 0 /\ changes = 0 /\ hazard = {}

-----------------------------------------------------------------------------
(* The shared connection.                                                  *)

\* CLocalConfig::Set and Remove, and the statements on the tables of events.
Write(new) ==
  /\ conf' = new
  /\ disk' = IF open THEN disk ELSE new
  /\ UNCHANGED <<open, began>>

\* The windows in which the store is half written: its later rows would be
\* missing if the process came back to what is written so far.
Windows ==
  {w \in {"ownerKept", "statusLost"} :
     /\ ~conf.disassociated
     /\ CASE w = "ownerKept" -> handling["client"] \in {"clear", "flag"}
          [] w = "statusLost" -> at = "status"
                                 \/ \E h \in Handler : handling[h] = "flag"}

\* BEGIN and END of a thread that inserts or deletes events.  The writes that
\* join a transaction no end of the process takes back are as good as durable,
\* so that only the others are worth a BEGIN.
BeginTxn ==
  /\ at # "off" /\ ~open /\ faults < MaxFaults
  /\ open' = TRUE /\ began' = Windows /\ faults' = faults + 1
  /\ UNCHANGED <<conf, disk, client, report, backoff, handlers,
                 owner, net, vin, changes, hazard>>

EndTxn ==
  /\ open
  /\ disk' = conf /\ open' = FALSE /\ began' = {}
  /\ UNCHANGED <<conf, client, report, backoff, handlers, outside>>

-----------------------------------------------------------------------------
(* CActivationState.                                                       *)

\* SetActivationState: its test; what it writes comes after an event is sent.
Report(t, new, why) ==
  /\ reporting' = IF active = new /\ reason = why THEN reporting
                  ELSE [reporting EXCEPT ![t] =
                          [step |-> "send", state |-> new, reason |-> why]]
  /\ UNCHANGED <<active, reason>>

WriteReason(t) ==
  /\ reporting[t].step = "send"
  /\ reason' = reporting[t].reason
  /\ reporting' = [reporting EXCEPT ![t].step = "write"]
  /\ UNCHANGED <<store, client, active, crossed, backoff, handlers, outside>>

WriteState(t) ==
  /\ reporting[t].step = "write"
  /\ active' = reporting[t].state
  /\ reporting' = [reporting EXCEPT ![t] = NoCall]
  /\ UNCHANGED <<store, client, reason, crossed, backoff, handlers, outside>>

\* m_StateMutex is held while a constructor of a state reports, the only code
\* that does it with the reason "reset".
MutexFree == \A t \in Thread : reporting[t].reason # "reset"

-----------------------------------------------------------------------------
(* CActivationBackoff.                                                     *)

\* TryStateChange of the current state.
NextState ==
  IF kick THEN (IF state \in Over THEN "overHigh" ELSE "initial")
  ELSE IF state = "initial" /\ conf.ignCount > IgnitionThreshold THEN "overHigh"
  ELSE IF state \in DOMAIN Limit /\ attempts > Limit[state] - 1
       THEN Following[state]
  ELSE state

\* Variant: the last attempt of a state is let through once more.
CheckCurrentStateLate(t) ==
  LET new == IF state \in DOMAIN Limit /\ attempts = Limit[state] /\ ~kick
             THEN state ELSE NextState
      changed == kick \/ new # state
  IN /\ MutexFree
     /\ state' = new /\ kick' = FALSE
     /\ attempts' = IF changed THEN 0 ELSE attempts
     /\ IF changed /\ new # "initial" THEN Report(t, FALSE, "reset")
        ELSE UNCHANGED <<active, reason, reporting>>
     /\ UNCHANGED <<crossed, lastError, increment>>

\* CheckCurrentState: a new state object, with its counters, replaces the old.
CheckCurrentState(t) ==
  LET new == NextState
      changed == kick \/ new # state
  IN /\ MutexFree
     /\ state' = new /\ kick' = FALSE
     /\ attempts' = IF changed THEN 0 ELSE attempts
     /\ IF changed /\ new # "initial" THEN Report(t, FALSE, "reset")
        ELSE UNCHANGED <<active, reason, reporting>>
     /\ UNCHANGED <<crossed, lastError, increment>>

\* ProcessEvent: its test that the device is not activated, what it notes in
\* the state, and CheckCurrentState.  An ignition run or an attached device is
\* noted, and the run counted; no event that waits for its turn is noted yet, so
\* that the others, which take a note back, find none.
EventArrives ==
  /\ at # "off" /\ event = None /\ reporting["event"] = NoCall /\ ~Activated
  /\ event' = "found"
  /\ UNCHANGED <<store, client, report, backoff, handling, outside>>

EventNoted ==
  /\ event = "found" /\ MutexFree
  /\ \/ event' = "kick" /\ kick' = TRUE /\ increment' \in {TRUE, increment}
     \/ event' = "other" /\ UNCHANGED <<kick, increment>>
  /\ UNCHANGED <<store, client, report, state, attempts, lastError, handling,
                 outside>>

EventHandled ==
  /\ event \in {"kick", "other"}
  /\ CheckCurrentState("event")
  /\ event' = None
  /\ UNCHANGED <<store, client, handling, outside>>

-----------------------------------------------------------------------------
(* CTokenManager.                                                          *)

\* The client's thread goes on within one call of Activate or GetToken.
Goes(position) == at' = position /\ UNCHANGED <<made, token, expired, caller>>

\* GetToken returns; the client connects, or tries again later.
Returns(position) ==
  /\ at' = position /\ caller' = "first"
  /\ UNCHANGED <<made, token, expired>>

\* A step of it that only writes the store.
Writes(new, position) ==
  /\ Write(new) /\ Goes(position)
  /\ UNCHANGED <<report, backoff, handlers, outside>>

\* Activate returns to its caller: only GetToken looks at the code.
ActivateReturns(ok) ==
  IF caller = "constructor" THEN Returns("body")
  ELSE IF ok THEN Goes("auth") ELSE Returns("idle")

\* GetTokenAsPassword calls GetToken, the first time with the constructor.
CallGetToken ==
  /\ at = "idle"
  /\ made' = TRUE
  /\ IF ~made /\ ~Activated
     THEN at' = "proceed" /\ caller' = "constructor"
     ELSE at' = "body" /\ caller' = "first"
  /\ UNCHANGED <<store, token, expired, report, backoff, handlers, outside>>

\* GetToken: a token still valid is returned at once.
GetToken ==
  /\ at = "body"
  /\ Goes(IF token = None /\ ~Activated THEN "proceed"
          ELSE IF token # None /\ ~expired THEN "connect" ELSE "auth")
  /\ UNCHANGED <<store, report, backoff, handlers, outside>>

\* The head of Activate: the back-off counts the ignition, looks at the time
\* and at its state; then the VIN is needed.
Proceed ==
  /\ at = "proceed"
  /\ IF increment /\ lastError # "network"
     THEN /\ Write([conf EXCEPT !.ignCount = IF @ <= IgnitionThreshold
                                             THEN @ + 1 ELSE @])
          /\ increment' = FALSE
     ELSE UNCHANGED <<store, increment>>
  /\ Goes("time")
  /\ UNCHANGED <<report, state, attempts, kick, lastError, handlers, outside>>

TooEarly ==
  /\ at = "time" /\ MutexFree
  /\ Goes("early")
  /\ UNCHANGED <<store, report, backoff, handlers, outside>>

TimeReached ==
  /\ at = "time" /\ MutexFree
  /\ Goes("check")
  /\ UNCHANGED <<store, report, backoff, handlers, outside>>

ReportBackoff ==
  /\ at = "early"
  /\ ActivateReturns(FALSE)
  /\ Report("client", FALSE, "backoff")
  /\ UNCHANGED <<store, crossed, backoff, handlers, outside>>

ClientChecksState ==
  /\ at = "check"
  /\ CheckCurrentState("client")
  /\ IF vin THEN Goes("request") ELSE ActivateReturns(FALSE)
  /\ UNCHANGED <<store, handlers, outside>>

\* The request was not answered: Activate makes it eERR_RESPONSE_DATA.
RequestFails ==
  /\ at = "request" /\ ~net
  /\ Report("client", FALSE, "notAssociated")
  /\ lastError' = "response"
  /\ Goes("failed")
  /\ UNCHANGED <<store, crossed, state, attempts, kick, increment, handlers,
                 outside>>

\* The cloud refuses: Activate returns eERR_OK all the same.
RequestRejected ==
  /\ at = "request" /\ net
  /\ \/ owner = None /\ UNCHANGED faults
     \/ faults < MaxFaults /\ faults' = faults + 1
  /\ Report("client", FALSE, "notAssociated")
  /\ lastError' = "ok"
  /\ Goes("failed")
  /\ UNCHANGED <<store, crossed, state, attempts, kick, increment, handlers,
                 owner, net, vin, changes, hazard>>

\* CalculateNextRetry, which Activate calls for every failure, and never with
\* the code of a network error.
CalculateNextRetry ==
  /\ at = "failed" /\ MutexFree
  /\ attempts' = IF state \in DOMAIN Limit THEN attempts + 1 ELSE attempts
  /\ IF caller = "constructor" /\ lastError = "response"
     THEN Goes("constructor")
     ELSE ActivateReturns(lastError = "ok")
  /\ UNCHANGED <<store, report, state, kick, lastError, increment, handlers,
                 outside>>

\* The constructor reports the code it got once more.
ConstructorReports ==
  /\ at = "constructor"
  /\ Report("client", FALSE, "notAssociated")
  /\ Returns("body")
  /\ UNCHANGED <<store, crossed, backoff, handlers, outside>>

\* ProcessActivationResponse up to the login.
RequestAccepted ==
  /\ at = "request" /\ net /\ owner # None
  /\ Writes([conf EXCEPT !.login = owner], "lastDeviceId")

\* Variant: a device that is associated anew keeps what it has stored.
SetLastDeviceIdKeeping ==
  /\ at = "lastDeviceId"
  /\ Writes([conf EXCEPT !.lastDeviceId = conf.login], "passcode")

\* Variant: the process goes on after Handle.
SetLastDeviceIdGoingOn ==
  /\ at = "lastDeviceId"
  /\ Write([conf EXCEPT !.lastDeviceId = conf.login])
  /\ handling' = IF conf.lastDeviceId \notin {None, conf.login}
                 THEN [handling EXCEPT !["client"] = "clear"] ELSE handling
  /\ Goes("passcode")
  /\ UNCHANGED <<report, backoff, event, outside>>

\* The id is new to the device: another owner's events must go first.
SetLastDeviceId ==
  /\ at = "lastDeviceId"
  /\ Write([conf EXCEPT !.lastDeviceId = conf.login])
  /\ IF conf.lastDeviceId \in {None, conf.login}
     THEN Goes("passcode") /\ UNCHANGED handling
     ELSE Goes("handle") /\ handling' = [handling EXCEPT !["client"] = "clear"]
  /\ UNCHANGED <<report, backoff, event, outside>>

\* Variant: the status is not persisted.
SetPasscodeOnly ==
  /\ at = "passcode"
  /\ Write([conf EXCEPT !.passcode = conf.login])
  /\ Report("client", TRUE, "noError")
  /\ Goes("reset")
  /\ UNCHANGED <<crossed, backoff, handlers, outside>>

SetPasscode ==
  /\ at = "passcode"
  /\ Writes([conf EXCEPT !.passcode = conf.login], "status")

PersistStatus ==
  /\ at = "status"
  /\ Write([conf EXCEPT !.status = TRUE])
  /\ Report("client", TRUE, "noError")
  /\ Goes("reset")
  /\ UNCHANGED <<crossed, backoff, handlers, outside>>

\* CActivationBackoff::Reset, in the steps an event may fall between.
ResetIncrement ==
  /\ at = "reset"
  /\ increment' = FALSE
  /\ Goes("resetState")
  /\ UNCHANGED <<store, report, state, attempts, kick, lastError, handlers,
                 outside>>

ResetState ==
  /\ at = "resetState" /\ MutexFree
  /\ state' = "initial" /\ attempts' = 0 /\ kick' = FALSE
  /\ Goes("count")
  /\ UNCHANGED <<store, report, lastError, increment, handlers, outside>>

ResetCount ==
  /\ at = "count"
  /\ Write([conf EXCEPT !.ignCount = 0])
  /\ ActivateReturns(TRUE)
  /\ UNCHANGED <<report, backoff, handlers, outside>>

\* The stored credentials are those of the association.
Granted == conf.login = owner /\ conf.passcode = owner /\ owner # None

\* Variant: the login leaves the reported state as it is.
LoginAcceptedQuietly ==
  /\ at = "auth" /\ net /\ Granted
  /\ token' = conf.login /\ expired' = FALSE
  /\ at' = "connect" /\ caller' = "first"
  /\ crossed' = (reporting["event"] # NoCall)
  /\ UNCHANGED <<store, made, active, reason, reporting, backoff, handlers,
                 outside>>

\* GetAuthToken, 200.
LoginAccepted ==
  /\ at = "auth" /\ net /\ Granted
  /\ token' = conf.login /\ expired' = FALSE
  /\ at' = "connect" /\ caller' = "first"
  /\ Report("client", TRUE, "noError")
  /\ crossed' = (reporting["event"] # NoCall)
  /\ UNCHANGED <<store, made, backoff, handlers, outside>>

\* What is known of a token goes with it.
TokenDropped == token' = None /\ expired' = FALSE /\ crossed' = FALSE

\* 401 or 400: the first time GetToken drops everything and activates again.
LoginRejected ==
  /\ at = "auth" /\ net /\ ~Granted
  /\ \/ caller = "again" /\ Returns("connect") /\ UNCHANGED crossed
     \/ /\ caller # "again"
        /\ at' = "dropLogin" /\ UNCHANGED <<made, caller>>
        /\ TokenDropped
  /\ UNCHANGED <<store, active, reason, reporting, backoff, handlers, outside>>

\* Any other answer: eERR_OK is returned with the token there is.
LoginError ==
  /\ at = "auth" /\ net /\ faults < MaxFaults
  /\ faults' = faults + 1
  /\ Returns("connect")
  /\ UNCHANGED <<store, report, backoff, handlers,
                 owner, net, vin, changes, hazard>>

LoginFails ==
  /\ at = "auth" /\ ~net
  /\ Report("client", FALSE, "network")
  /\ Returns("idle")
  /\ UNCHANGED <<store, crossed, backoff, handlers, outside>>

\* InvalidatePassCode, one row after the other.
DropLogin ==
  /\ at = "dropLogin"
  /\ Writes([conf EXCEPT !.login = None], "dropPasscode")

DropPasscode ==
  /\ at = "dropPasscode"
  /\ Write([conf EXCEPT !.passcode = None])
  /\ at' = "proceed" /\ caller' = "again"
  /\ UNCHANGED <<made, token, expired, report, backoff, handlers, outside>>

-----------------------------------------------------------------------------
(* The connection, as far as it uses the token.                            *)

Connected ==
  /\ at = "connect" /\ net
  /\ token = owner /\ owner # None
  /\ Goes("up")
  /\ UNCHANGED <<store, report, backoff, handlers, outside>>

\* Variant: the refused token is kept.
RefusedKeeping ==
  /\ at = "connect" /\ net
  /\ token # owner \/ owner = None \/ expired
  /\ Goes("idle")
  /\ UNCHANGED <<store, report, backoff, handlers, outside>>

\* on_connect with return code 2, 4 or 5.
Refused ==
  /\ at = "connect" /\ net
  /\ token # owner \/ owner = None \/ expired
  /\ TokenDropped /\ at' = "idle"
  /\ UNCHANGED <<store, made, caller, active, reason, reporting, backoff,
                 handlers, outside>>

Unreachable ==
  /\ at = "connect" /\ ~net
  /\ Goes("idle")
  /\ UNCHANGED <<store, report, backoff, handlers, outside>>

\* The session ends, by a fault or as its device is no longer the vehicle's;
\* the library connects again with the same password.
SessionLost ==
  /\ at = "up"
  /\ \/ token # owner /\ UNCHANGED faults
     \/ faults < MaxFaults /\ faults' = faults + 1
  /\ Goes("connect")
  /\ UNCHANGED <<store, report, backoff, handlers,
                 owner, net, vin, changes, hazard>>

\* The tables of events, as far as whose events they hold.
EventStored ==
  /\ at # "off" /\ conf.lastDeviceId # None
  /\ Write([conf EXCEPT !.rows = @ \cup {conf.lastDeviceId}])
  /\ UNCHANGED <<client, report, backoff, handlers, outside>>

EventsUploaded ==
  /\ at = "up" /\ conf.rows # {}
  /\ Write([conf EXCEPT !.rows = {}])
  /\ UNCHANGED <<client, report, backoff, handlers, outside>>

-----------------------------------------------------------------------------
(* Disassociation, the end of the process and its start.                   *)

\* The cloud's request reaches ApplyConfig.
DisassociationRequest ==
  /\ at = "up" /\ token # owner /\ handling["cloud"] = "idle"
  /\ handling' = [handling EXCEPT !["cloud"] = "clear"]
  /\ UNCHANGED <<store, client, report, backoff, event, outside>>

\* Handle: ClearActivationStatus, then the flag, then RestartAnalytics.
ClearActivationStatus(h) ==
  /\ handling[h] = "clear"
  /\ Write([conf EXCEPT !.status = FALSE])
  /\ handling' = [handling EXCEPT ![h] = "flag"]
  /\ UNCHANGED <<client, report, backoff, event, outside>>

SetDisassociated(h) ==
  /\ handling[h] = "flag"
  /\ Write([conf EXCEPT !.disassociated = TRUE])
  /\ handling' = [handling EXCEPT ![h] = "exit"]
  /\ UNCHANGED <<client, report, backoff, event, outside>>

\* What the process holds in memory is gone, and what it wrote in a transaction
\* that is still open.
ProcessEnds ==
  /\ conf' = disk /\ open' = FALSE /\ began' = {} /\ UNCHANGED disk
  /\ hazard' = hazard \cup (IF open THEN began ELSE Windows)
  /\ at' = "off" /\ made' = FALSE /\ token' = None /\ expired' = FALSE
  /\ caller' = "first"
  /\ active' = FALSE /\ reason' = "noError" /\ crossed' = FALSE
  /\ reporting' = [t \in Thread |-> NoCall]
  /\ state' = "initial" /\ attempts' = 0 /\ kick' = FALSE
  /\ lastError' = "network" /\ increment' = FALSE
  /\ handling' = [h \in Handler |-> "idle"] /\ event' = None
  /\ UNCHANGED <<owner, net, vin, changes>>

\* The connection is closed without a look at the transaction.
RestartAnalytics(h) ==
  /\ handling[h] = "exit"
  /\ ProcessEnds
  /\ UNCHANGED faults

Crash ==
  /\ at # "off"
  /\ ProcessEnds
  /\ \/ open /\ UNCHANGED faults
     \/ ~open /\ faults < MaxFaults /\ faults' = faults + 1

\* InitClient: a disassociation of the run before clears every table.
Start ==
  /\ at = "off"
  /\ IF conf.disassociated THEN Write(Empty) ELSE UNCHANGED store
  /\ Goes("idle")
  /\ UNCHANGED <<report, backoff, handlers, outside>>

-----------------------------------------------------------------------------
(* The surroundings.                                                       *)

inside == <<store, made, at, caller, report, backoff, handlers>>

TokenExpires ==
  /\ token # None /\ ~expired /\ faults < MaxFaults
  /\ expired' = TRUE /\ faults' = faults + 1
  /\ UNCHANGED <<inside, token, owner, net, vin, changes, hazard>>

AssociationChanges ==
  /\ changes < MaxChanges
  /\ changes' = changes + 1
  /\ owner' \in (Device \cup {None}) \ {owner}
  /\ UNCHANGED <<inside, token, expired, net, vin, faults, hazard>>

NetworkLost ==
  /\ net /\ faults < MaxFaults
  /\ net' = FALSE /\ faults' = faults + 1
  /\ UNCHANGED <<inside, token, expired, owner, vin, changes, hazard>>

NetworkBack ==
  /\ ~net
  /\ net' = TRUE
  /\ UNCHANGED <<inside, token, expired, owner, vin, faults, changes, hazard>>

VinKnown ==
  /\ ~vin
  /\ vin' = TRUE
  /\ UNCHANGED <<inside, token, expired, owner, net, faults, changes, hazard>>

Activating == \/ Proceed \/ TooEarly \/ ReportBackoff
              \/ TimeReached \/ ClientChecksState
              \/ RequestFails \/ RequestRejected
              \/ CalculateNextRetry \/ ConstructorReports
              \/ RequestAccepted \/ SetLastDeviceId
              \/ SetPasscode \/ PersistStatus
              \/ ResetIncrement \/ ResetState \/ ResetCount
LoggingIn == \/ CallGetToken \/ GetToken
             \/ LoginAccepted \/ LoginRejected \/ LoginError \/ LoginFails
             \/ DropLogin \/ DropPasscode
Connecting == Connected \/ Refused \/ Unreachable

\* The MQTT client's thread, whose calls of SetActivationState come first.
Client == \/ WriteReason("client") \/ WriteState("client")
          \/ /\ reporting["client"] = NoCall
             /\ Activating \/ LoggingIn \/ Connecting
\* The thread of the back-off's events.
Events == \/ WriteReason("event") \/ WriteState("event")
          \/ EventNoted \/ EventHandled
Handling == \E h \in Handler : \/ ClearActivationStatus(h)
                               \/ SetDisassociated(h)
                               \/ RestartAnalytics(h)
Outside == \/ TokenExpires \/ AssociationChanges \/ NetworkLost \/ NetworkBack
           \/ VinKnown

Next == \/ Client \/ SessionLost
        \/ Events \/ EventArrives
        \/ EventStored \/ EventsUploaded \/ BeginTxn \/ EndTxn
        \/ DisassociationRequest \/ Handling \/ Crash \/ Start
        \/ Outside

Spec == Init /\ [][Next]_vars

\* The threads run, transactions end, and the surroundings come back: the
\* network returns, the VIN is read from the vehicle, and the broker ends the
\* session of a device the vehicle is no longer associated with.  The clock
\* passes the next time, which no look at it moves, before one of the looks.
Fairness == /\ WF_vars(Client) /\ WF_vars(Events) /\ WF_vars(EndTxn)
            /\ WF_vars(Handling) /\ WF_vars(Start)
            /\ SF_vars(TimeReached) /\ WF_vars(NetworkBack) /\ WF_vars(VinKnown)
            /\ WF_vars(SessionLost /\ token # owner)

FairSpec == Spec /\ Fairness

-----------------------------------------------------------------------------
(* Properties.                                                             *)

MaybeDevice == Device \cup {None}
Store == [login : MaybeDevice, passcode : MaybeDevice,
          lastDeviceId : MaybeDevice, status : BOOLEAN, disassociated : BOOLEAN,
          ignCount : 0 .. IgnitionThreshold + 1, rows : SUBSET Device]
Window == {"ownerKept", "statusLost"}
Reason == {"noError", "reset", "network", "notAssociated", "backoff"}

Call == [step : {"none", "send", "write"}, state : BOOLEAN, reason : Reason]

StoreType == /\ conf \in Store /\ disk \in Store
             /\ open \in BOOLEAN /\ began \subseteq Window
ClientType == /\ token \in MaybeDevice
              /\ made \in BOOLEAN /\ expired \in BOOLEAN
              /\ at \in {"off", "idle", "body", "proceed", "time", "early",
                         "check", "request", "failed", "constructor",
                         "lastDeviceId", "handle", "passcode", "status",
                         "reset", "resetState", "count", "auth",
                         "dropLogin", "dropPasscode", "connect", "up"}
              /\ caller \in {"constructor", "first", "again"}
ReportType == /\ active \in BOOLEAN /\ reason \in Reason /\ crossed \in BOOLEAN
              /\ reporting \in [Thread -> Call]
BackoffType == /\ state \in BackoffState /\ attempts \in Nat
               /\ kick \in BOOLEAN
               /\ lastError \in {"network", "response", "ok"}
               /\ increment \in BOOLEAN
HandlerType == /\ handling \in [Handler -> {"idle", "clear", "flag", "exit"}]
               /\ event \in {None, "found", "kick", "other"}
OutsideType == /\ owner \in MaybeDevice /\ net \in BOOLEAN /\ vin \in BOOLEAN
               /\ faults \in 0 .. MaxFaults
               /\ changes \in 0 .. MaxChanges
               /\ hazard \subseteq Window

HandlerPlace == at = "handle" <=> handling["client"] # "idle"

\* Every variable has its type (the members of CTokenManager, CActivationState
\* and CActivationBackoff, the rows of the local configuration), and the
\* client's thread does not come back from Handle.
TypeOK ==
  /\ StoreType /\ ClientType /\ ReportType
  /\ BackoffType /\ HandlerType /\ OutsideType
  /\ HandlerPlace

\* What is uploaded in the name of a device was recorded for it: the events of
\* a former association are gone before the new one has a token, whatever
\* crash, cloud request or transaction comes in between, except an end of the
\* process, asked for or not, that leaves on the disk what was written between
\* the new device id and the flag of the disassociation, by falling there or
\* by taking back a transaction begun there (ProcessActivationResponse, Handle,
\* CloseConnection, InitClient).
NoForeignRows ==
  at = "up" => (conf.rows \subseteq {token} \/ "ownerKept" \in hazard)

\* A connected device tells the applications that ask for its activation
\* status that it is activated, unless a disassociation is on its way or an
\* end of the process went back to just before the status was persisted, or to
\* just after it was cleared (PersistActivationStatus, ClearActivationStatus).
StatusShown ==
  at = "up" => \/ conf.status
               \/ handling["cloud"] \in {"flag", "exit"}
               \/ "statusLost" \in hazard

\* A connected device reports that it is active, also when an event that found
\* it not activated is handled after the activation (SetActivationState in
\* the states of the back-off and in GetAuthToken), unless that event's call
\* of SetActivationState, which has no lock, was past its test when the login
\* made its own.  A token past its margin is the other exception: GetToken may
\* return it after a login that failed.
UpIsActive == at = "up" => (active \/ expired \/ crossed)

\* A state of the back-off lets through no more than its configured attempts
\* (TryStateChange, ActivationFailed), whichever events come in between.
AttemptsBounded == state \in DOMAIN Limit => attempts <= Limit[state]

\* As long as the vehicle is associated and its ignition rests, the device is
\* connected as what the cloud calls it, again and again: no crash, refusal,
\* re-association or state of the back-off leaves it out for ever (GetToken,
\* Activate, on_connect).  An ignition run makes the next attempt wait for the
\* clock to move, so one at every attempt is left aside.
ComesBack ==
  []<>(owner = None \/ event = "kick" \/ (at = "up" /\ token = owner))

\* "Do not initiate backoff for network related errors."
\* (CActivationBackoff.cpp, CalculateNextRetry): an activation request that
\* fails for want of a network does not count as an attempt.
NetworkErrorsSpared ==
  [][at = "failed" /\ lastError = "response" => attempts' <= attempts]_vars
=============================================================================
