----------------------------- MODULE ClientOnOff -----------------------------
(***************************************************************************)
(* The ordered shutdown of the client.  Threads register with CClientOnOff *)
(* when they start; once the device asks for a shutdown the thread of      *)
(* CClientOnOff notifies them, group after group, and reports completion   *)
(* when every registered thread has answered.                              *)
(*                                                                         *)
(* The registry is one map entry per receiver, read and written by the     *)
(* monitor and by the receivers' threads without a lock (only              *)
(* RegisterForShutdownNotification takes m_onoffMutex), so the monitor's   *)
(* read, its write and its call of NotifyShutdown are separate steps.  The *)
(* order of the receivers within a group is left open.                     *)
(***************************************************************************)
EXTENDS Integers, FiniteSets

CONSTANTS
  Receiver,     \* every receiver, those of the map by code and those by name
  Groups,       \* number of orders in m_mapNotifOrder
  Order,        \* receiver -> its order, 0 for a non-defined one (eR_OTHER)
  Untimed,      \* receivers that wait with no timeout and no predicate
  Ending,       \* receivers whose thread may also end by itself
  Restartable,  \* those of Ending that are created anew (StartPeriodicEvents)
  MaxLives      \* bound: incarnations of a restartable receiver

ASSUME OrderAssumption == /\ Groups \in Nat
                          /\ Order \in [Receiver -> 0 .. Groups]
ASSUME KindAssumption == /\ Untimed \subseteq Receiver
                         /\ Ending \subseteq Receiver
                         /\ Restartable \subseteq Ending
                         /\ MaxLives \in Nat \ {0}

None == "none"

VARIABLES
  \* CClientOnOff
  status,   \* receiver -> eStatus of its entry, None without an entry
  at,       \* position of CClientOnOff::Run and of the loops it calls
  group,    \* order being walked, 0 for the non-defined receivers
  todo,     \* receivers the current loop has still to look at
  cur,      \* the receiver being notified
  canNext,  \* bCanNotifyNext
  allDone,  \* bIsNDShutdownComplete && bIsPDShutdownComplete
  \* receiver threads
  pc,       \* receiver -> position of its Run
  flag,     \* receiver -> m_bIsShutdownInitiated
  life,     \* receiver -> which incarnation runs; its entry points at the first
  late      \* history: receivers that registered once the shutdown had started

monitorVars == <<at, group, todo, cur, canNext, allDone>>
threadVars == <<pc, flag, life>>
vars == <<status, monitorVars, threadVars, late>>

InGroup(g) == {r \in Receiver : Order[r] = g}

Answered == {"completed", "unsubscribed"}

\* The thread is out of its loop and has told so.
Ended(r) == pc[r] \in {"unregister", "done"}

Init == /\ status = [r \in Receiver |-> None]
        /\ at = "idle" /\ group = 0 /\ todo = {} /\ cur = None
        /\ canNext = TRUE /\ allDone = TRUE
        /\ pc = [r \in Receiver |-> "start"]
        /\ flag = [r \in Receiver |-> FALSE]
        /\ life = [r \in Receiver |-> 1]
        /\ late = {}

-----------------------------------------------------------------------------
(* Receiver threads *)

Goto(r, place) == pc' = [pc EXCEPT ![r] = place]

\* RegisterForShutdownNotification.  std::map::insert leaves an entry that is
\* there as it is: neither the pointer nor the status is replaced.
Register(r) ==
  /\ pc[r] = "start"
  /\ Goto(r, "loop")
  /\ status' = IF status[r] = None THEN [status EXCEPT ![r] = "subscribed"]
                                   ELSE status
  /\ late' = IF at = "idle" THEN late ELSE late \cup {r}
  /\ UNCHANGED <<monitorVars, flag, life>>

\* while (!m_bIsShutdownInitiated)
CheckFlag(r) ==
  /\ pc[r] = "loop"
  /\ Goto(r, IF flag[r] THEN "ready" ELSE "blocking")
  /\ UNCHANGED <<status, monitorVars, flag, life, late>>

\* pthread_cond_wait, sleep, select: the flag was checked in an earlier step.
Block(r) ==
  /\ pc[r] = "blocking"
  /\ Goto(r, "waiting")
  /\ UNCHANGED <<status, monitorVars, flag, life, late>>

\* A wait with a timeout, or one whose wake-up is not lost (a socket).
TimeOut(r) ==
  /\ r \notin Untimed
  /\ pc[r] = "waiting"
  /\ Goto(r, "loop")
  /\ UNCHANGED <<status, monitorVars, flag, life, late>>

\* New work for the thread: an event, an acknowledgement, a notification.
Work(r) ==
  /\ r \in Untimed
  /\ pc[r] = "waiting"
  /\ Goto(r, "loop")
  /\ UNCHANGED <<status, monitorVars, flag, life, late>>

\* The thread has nothing left to do (CInitialEvents), was stopped
\* (CPeriodicEvents::Stop) or has no client (CMQTTUploader).
EndByItself(r) ==
  /\ r \in Ending
  /\ pc[r] = "loop"
  /\ Goto(r, "ready")
  /\ UNCHANGED <<status, monitorVars, flag, life, late>>

ReadyForShutdown(r) ==
  /\ pc[r] = "ready"
  /\ status' = [status EXCEPT ![r] = "completed"]
  /\ Goto(r, "unregister")
  /\ UNCHANGED <<monitorVars, flag, life, late>>

Unregister(r) ==
  /\ pc[r] = "unregister"
  /\ status' = [status EXCEPT ![r] = "unsubscribed"]
  /\ Goto(r, "done")
  /\ UNCHANGED <<monitorVars, flag, life, late>>

\* StopPeriodicEvents has joined and deleted the object,
\* StartPeriodicEvents creates a new one under the same name.
Restart(r) ==
  /\ r \in Restartable
  /\ pc[r] = "done" /\ life[r] < MaxLives
  /\ Goto(r, "start")
  /\ life' = [life EXCEPT ![r] = @ + 1]
  /\ flag' = [flag EXCEPT ![r] = FALSE]
  /\ UNCHANGED <<status, monitorVars, late>>

-----------------------------------------------------------------------------
(* The thread of CClientOnOff *)

\* PrepareForShutdown: a second request is ignored (g_bIsShutdownStarted).
\* The sleep of Run orders nothing and is left out.
PrepareForShutdown ==
  /\ at = "idle"
  /\ at' = "notify" /\ group' = 0 /\ todo' = InGroup(0) /\ canNext' = TRUE
  /\ UNCHANGED <<status, cur, allDone, threadVars, late>>

\* Variant: a receiver that was notified before does not hold the next order.
LookForgetful(r) ==
  /\ at = "notify" /\ r \in todo
  /\ todo' = todo \ {r}
  /\ \/ /\ status[r] = "subscribed"
        /\ at' = "write" /\ cur' = r
        /\ canNext' = (canNext /\ group = 0)
     \/ status[r] # "subscribed" /\ UNCHANGED <<at, cur, canNext>>
  /\ UNCHANGED <<status, group, allDone, threadVars, late>>

\* A copy of the entry is taken; one that is SUBSCRIBED is notified next.
Look(r) ==
  /\ at = "notify" /\ r \in todo
  /\ todo' = todo \ {r}
  /\ \/ /\ status[r] = "subscribed"
        /\ at' = "write" /\ cur' = r
        /\ canNext' = (canNext /\ group = 0)
     \/ /\ status[r] = "notified"
        /\ canNext' = (canNext /\ group = 0)
        /\ UNCHANGED <<at, cur>>
     \/ /\ status[r] \in Answered \cup {None}
        /\ UNCHANGED <<at, cur, canNext>>
  /\ UNCHANGED <<status, group, allDone, threadVars, late>>

\* Variant: the copy is not written back to the entry.
WriteNotifiedNot ==
  /\ at = "write"
  /\ at' = "call"
  /\ UNCHANGED <<status, group, todo, cur, canNext, allDone, threadVars, late>>

\* iterReceiver->second = recvrDetail, whatever the entry holds by now.
WriteNotified ==
  /\ at = "write"
  /\ status' = [status EXCEPT ![cur] = "notified"]
  /\ at' = "call"
  /\ UNCHANGED <<group, todo, cur, canNext, allDone, threadVars, late>>

\* pRcvrRef->NotifyShutdown sets the flag of the object that registered first
\* (of no live object when that one was deleted), then wakes its thread.
CallNotify ==
  /\ at = "call"
  /\ flag' = IF life[cur] = 1 THEN [flag EXCEPT ![cur] = TRUE] ELSE flag
  /\ at' = "broadcast"
  /\ UNCHANGED <<status, group, todo, cur, canNext, allDone, pc, life, late>>

Broadcast ==
  /\ at = "broadcast"
  /\ pc' = IF pc[cur] = "waiting" /\ life[cur] = 1
           THEN [pc EXCEPT ![cur] = "loop"] ELSE pc
  /\ at' = "notify" /\ cur' = None
  /\ UNCHANGED <<status, group, todo, canNext, allDone, flag, life, late>>

\* Variant: the walk goes one order too far.
NextGroupPastEnd ==
  /\ at = "notify" /\ todo = {}
  /\ canNext /\ group <= Groups
  /\ group' = group + 1 /\ todo' = InGroup(group + 1)
  /\ UNCHANGED <<status, at, cur, canNext, allDone, threadVars, late>>

NextGroup ==
  /\ at = "notify" /\ todo = {}
  /\ canNext /\ group < Groups
  /\ group' = group + 1 /\ todo' = InGroup(group + 1)
  /\ UNCHANGED <<status, at, cur, canNext, allDone, threadVars, late>>

\* The last order was walked, or one that still has receivers at work.
BeginCheck ==
  /\ at = "notify" /\ todo = {}
  /\ ~canNext \/ group = Groups
  /\ at' = "check" /\ todo' = Receiver /\ allDone' = TRUE
  /\ UNCHANGED <<status, group, cur, canNext, threadVars, late>>

\* Variant: a receiver that was told counts as one that has stopped.
CheckStatusTold(r) ==
  /\ at = "check" /\ r \in todo
  /\ Order[r] = 0 \/ todo \cap InGroup(0) = {}
  /\ todo' = todo \ {r}
  /\ allDone' = (allDone /\ status[r] # "subscribed")
  /\ UNCHANGED <<status, at, group, cur, canNext, threadVars, late>>

\* Variant: the last receiver decides.
CheckStatusLast(r) ==
  /\ at = "check" /\ r \in todo
  /\ Order[r] = 0 \/ todo \cap InGroup(0) = {}
  /\ todo' = todo \ {r}
  /\ allDone' = (status[r] \in Answered \cup {None})
  /\ UNCHANGED <<status, at, group, cur, canNext, threadVars, late>>

\* Variant: a receiver that has unregistered is waited for.
CheckStatusReadyOnly(r) ==
  /\ at = "check" /\ r \in todo
  /\ Order[r] = 0 \/ todo \cap InGroup(0) = {}
  /\ todo' = todo \ {r}
  /\ allDone' = (allDone /\ status[r] \in {"completed", None})
  /\ UNCHANGED <<status, at, group, cur, canNext, threadVars, late>>

\* CheckStatusOfNonDefinedRcvrs, then CheckStatusOfPreDefinedRcvrs.
CheckStatus(r) ==
  /\ at = "check" /\ r \in todo
  /\ Order[r] = 0 \/ todo \cap InGroup(0) = {}
  /\ todo' = todo \ {r}
  /\ allDone' = (allDone /\ status[r] \in Answered \cup {None})
  /\ UNCHANGED <<status, at, group, cur, canNext, threadVars, late>>

NextRound ==
  /\ at = "check" /\ todo = {} /\ ~allDone
  /\ at' = "notify" /\ group' = 0 /\ todo' = InGroup(0) /\ canNext' = TRUE
  /\ UNCHANGED <<status, cur, allDone, threadVars, late>>

\* Run leaves its loop; the device is told that the client is ready.
CompleteShutdown ==
  /\ at = "check" /\ todo = {} /\ allDone
  /\ at' = "complete"
  /\ UNCHANGED <<status, group, todo, cur, canNext, allDone, threadVars, late>>

-----------------------------------------------------------------------------
ThreadStep(r) == Register(r) \/ CheckFlag(r) \/ Block(r) \/ TimeOut(r)
                 \/ ReadyForShutdown(r) \/ Unregister(r)

MonitorStep == \/ \E r \in Receiver : Look(r) \/ CheckStatus(r)
               \/ WriteNotified \/ CallNotify \/ Broadcast
               \/ NextGroup \/ BeginCheck \/ NextRound \/ CompleteShutdown

Next == \/ PrepareForShutdown
        \/ MonitorStep
        \/ \E r \in Receiver : ThreadStep(r) \/ Work(r) \/ EndByItself(r)
                               \/ Restart(r)

Spec == Init /\ [][Next]_vars

\* The scheduler runs every thread that can run.  Nothing obliges new work to
\* arrive, a thread to end by itself or the device to ask for a shutdown.
FairSpec == /\ Spec
            /\ WF_vars(MonitorStep)
            /\ \A r \in Receiver : WF_vars(ThreadStep(r))

-----------------------------------------------------------------------------
(* Properties *)

\* Every variable keeps to the values its code gives it.
TypeOK ==
  /\ status \in [Receiver -> {None, "subscribed", "notified"} \cup Answered]
  /\ at \in {"idle", "notify", "write", "call", "broadcast", "check", "complete"}
  /\ group \in 0 .. Groups
  /\ todo \in SUBSET Receiver
  /\ cur \in Receiver \cup {None}
  /\ at \in {"write", "call", "broadcast"} => cur \in Receiver
  /\ canNext \in BOOLEAN /\ allDone \in BOOLEAN
  /\ pc \in [Receiver -> {"start", "loop", "blocking", "waiting", "ready",
                          "unregister", "done"}]
  /\ flag \in [Receiver -> BOOLEAN]
  /\ life \in [Receiver -> 1 .. MaxLives]
  /\ late \in SUBSET Receiver

\* A receiver the shutdown need not wait for any more: it ended, has not
\* started, or came (or came back) when its entry could not count.
Settled(r) == Ended(r) \/ pc[r] = "start" \/ r \in late \/ life[r] > 1

\* NotifyShutdown is called at most once on a receiver, although the monitor
\* walks the whole registry again every second (Run, CClientOnOff.cpp:345-416).
NotifiedOnce == at = "call" => ~flag[cur]

\* The shutdown is ordered: a receiver is told to stop only when the threads of
\* every earlier order are out of their loops, so that a consumer is still there
\* while its producers work (m_mapNotifOrder, NotifyPreDefinedOnOffRcvrs).
OrderKept == \A q \in Receiver :
               at \in {"write", "call", "broadcast"} /\ cur = q =>
                 \A r \in Receiver : 0 < Order[r] /\ Order[r] < Order[q] => Settled(r)

\* The device is told READY_FOR_SHUTDOWN only when every thread that registered
\* before the shutdown began has left its loop (CheckStatus..., CompleteShutdown).
CompleteMeansEnded == at = "complete" => \A r \in Receiver : Settled(r)

-----------------------------------------------------------------------------
(* Why the three hold: the inductive invariant. *)

\* An entry exists once its thread has registered, and outlives it.
EntryKept == \A r \in Receiver :
               status[r] = None <=> pc[r] = "start" /\ life[r] = 1

\* A receiver that answered is no longer at work; the answer may be overwritten
\* later (LostAnswer), but none is made up.
AnswerTrue == \A r \in Receiver : status[r] \in Answered => Settled(r)

\* Only a receiver whose entry was NOTIFIED has its flag set, and the entry
\* never becomes SUBSCRIBED again.
FlagNotified ==
  /\ \A r \in Receiver : status[r] \in {None, "subscribed"} => ~flag[r]
  /\ at \in {"write", "call"} => ~flag[cur]
  /\ at = "write" => status[cur] # None
  /\ at = "call" => status[cur] \notin {None, "subscribed"}

Walking == at \in {"notify", "write", "call", "broadcast"}

\* Behind the walk everyone is settled: in the orders that were passed and, as
\* long as canNext holds, among the receivers of this order already looked at.
BehindSettled ==
  /\ Walking => /\ todo \subseteq InGroup(group)
                /\ \A r \in Receiver : 0 < Order[r] /\ Order[r] < group => Settled(r)
                /\ canNext /\ group > 0 => \A r \in InGroup(group) \ todo : Settled(r)
  /\ at \in {"write", "call", "broadcast"} => Order[cur] = group

\* The same for the check that decides.
CheckedSettled ==
  /\ at = "check" /\ allDone => \A r \in Receiver \ todo : Settled(r)
  /\ at = "complete" => \A r \in Receiver : Settled(r)

ShutdownInv == EntryKept /\ AnswerTrue /\ FlagNotified /\ BehindSettled
               /\ CheckedSettled

-----------------------------------------------------------------------------
\* The shutdown implements its contract: who is settled need not be waited for,
\* who is being told is who is called next, and who was told has the flag set.
Phase == CASE at = "idle" -> "running"
           [] at = "complete" -> "complete"
           [] OTHER -> "stopping"
AtWork == {r \in Receiver : ~Settled(r)}
Telling == IF at = "call" THEN {cur} ELSE {}
Told == {r \in Receiver : flag[r]}

Contract == INSTANCE ShutdownContract
            WITH phase <- Phase, atWork <- AtWork, telling <- Telling,
                 told <- Told

\* The shutdown implements ShutdownContract: whatever answers and wake-ups get
\* lost, nobody goes back to work, each is told at most once and behind all
\* earlier orders, and completion comes last (CClientOnOff::Run and
\* everything it calls, against every thread that registers).
StopsInOrder == Contract!ASpec

-----------------------------------------------------------------------------
\* The two ways a shutdown may hang: the monitor overwrote the answer of a thread
\* that ended between its read and its write of the entry ...
LostAnswer == \E r \in Receiver : /\ status[r] = "notified"
                                  /\ pc[r] = "done" \/ life[r] > 1

\* ... or NotifyShutdown woke nobody since the thread had checked the flag and
\* was not waiting yet.
LostWakeup == \E r \in Receiver : /\ flag[r] /\ pc[r] = "waiting"
                                  /\ ~(at = "broadcast" /\ cur = r)

\* A shutdown that is asked for completes, unless an answer or a wake-up is lost.
Completes == at # "idle" ~> (at = "complete" \/ LostAnswer \/ LostWakeup)

-----------------------------------------------------------------------------
(* What the code's comments and log texts say and the code does not do *)

\* "to have clean client shutdown" (CClientOnOff.h:23-25): it always completes.
ShutdownCompletes == at # "idle" ~> at = "complete"
=============================================================================
