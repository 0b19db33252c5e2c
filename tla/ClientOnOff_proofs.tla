------------------------- MODULE ClientOnOff_proofs -------------------------
(***************************************************************************)
(* Proofs about the ordered shutdown, for any receivers, orders and ways   *)
(* of waiting.                                                             *)
(***************************************************************************)
EXTENDS ClientOnOff, TLAPS

\* Every variable keeps its type, through every interleaving of the monitor
\* and the receivers' threads.
THEOREM TypeCorrect == Spec => []TypeOK
<1>1. Init => TypeOK
  BY OrderAssumption, KindAssumption DEF Init, TypeOK, None, Answered
<1>2. TypeOK /\ [Next]_vars => TypeOK'
  <2> SUFFICES ASSUME TypeOK, [Next]_vars PROVE TypeOK'
    OBVIOUS
  <2> USE OrderAssumption, KindAssumption
          DEF TypeOK, None, Answered, InGroup, monitorVars, threadVars
  <2>1. CASE UNCHANGED vars
    BY <2>1 DEF vars
  <2>2. CASE PrepareForShutdown
    BY <2>2 DEF PrepareForShutdown
  <2>3. ASSUME NEW r \in Receiver, Look(r) \/ CheckStatus(r)
        PROVE  TypeOK'
    BY <2>3 DEF Look, CheckStatus
  <2>4. CASE WriteNotified \/ CallNotify \/ Broadcast
    BY <2>4 DEF WriteNotified, CallNotify, Broadcast
  <2>5. CASE NextGroup \/ BeginCheck \/ NextRound \/ CompleteShutdown
    <3>1. CASE NextGroup
      <4>1. group' \in 0 .. Groups
        BY <3>1 DEF NextGroup
      <4> QED
        BY <3>1, <4>1 DEF NextGroup
    <3>2. CASE BeginCheck
      BY <3>2 DEF BeginCheck
    <3>3. CASE NextRound
      <4>1. group' \in 0 .. Groups /\ todo' \subseteq Receiver
        BY <3>3 DEF NextRound
      <4> QED
        BY <3>3, <4>1 DEF NextRound
    <3>4. CASE CompleteShutdown
      BY <3>4 DEF CompleteShutdown
    <3> QED
      BY <2>5, <3>1, <3>2, <3>3, <3>4
  <2>6. ASSUME NEW r \in Receiver, ThreadStep(r)
        PROVE  TypeOK'
    BY <2>6 DEF ThreadStep, Goto, Register, CheckFlag, Block, TimeOut,
                ReadyForShutdown, Unregister
  <2>7. ASSUME NEW r \in Receiver, Work(r) \/ EndByItself(r) \/ Restart(r)
        PROVE  TypeOK'
    <3>1. CASE Work(r) \/ EndByItself(r)
      BY <3>1 DEF Goto, Work, EndByItself
    <3>2. CASE Restart(r)
      <4>1. life[r] + 1 \in 1 .. MaxLives
        BY <3>2 DEF Restart
      <4> QED
        BY <3>2, <4>1 DEF Goto, Restart
    <3> QED
      BY <2>7, <3>1, <3>2
  <2>8. CASE MonitorStep
    <3> HIDE DEF TypeOK
    <3> QED
      BY <2>3, <2>4, <2>5, <2>8 DEF MonitorStep
  <2> QED
    BY <2>1, <2>2, <2>6, <2>7, <2>8 DEF Next
<1> QED
  BY <1>1, <1>2, PTL DEF Spec

-----------------------------------------------------------------------------
\* Once the shutdown has begun a settled receiver stays settled: its thread
\* does not come back, or comes back marked as late or as another incarnation.
LEMMA SettledStays ==
  ASSUME TypeOK, Next, at # "idle", NEW r \in Receiver, Settled(r)
  PROVE  Settled(r)'
<1> USE DEF TypeOK, Settled, Ended, Goto, monitorVars, threadVars
<1>1. CASE PrepareForShutdown
  BY <1>1 DEF PrepareForShutdown
<1>2. CASE MonitorStep
  BY <1>2 DEF MonitorStep, Look, CheckStatus, WriteNotified, CallNotify,
              Broadcast, NextGroup, BeginCheck, NextRound, CompleteShutdown
<1>3. ASSUME NEW q \in Receiver,
             ThreadStep(q) \/ Work(q) \/ EndByItself(q)
      PROVE  Settled(r)'
  BY <1>3 DEF ThreadStep, Register, CheckFlag, Block, TimeOut,
              ReadyForShutdown, Unregister, Work, EndByItself
<1>4. ASSUME NEW q \in Receiver, Restart(q)
      PROVE  Settled(r)'
  BY <1>4 DEF Restart
<1> QED
  BY <1>1, <1>2, <1>3, <1>4 DEF Next

\* The invariant behind the three safety properties, see ShutdownInv.
THEOREM InvCorrect == Spec => []ShutdownInv
<1>1. Init => ShutdownInv
  BY OrderAssumption DEF Init, ShutdownInv, EntryKept, AnswerTrue, FlagNotified,
     BehindSettled, CheckedSettled, Walking, Answered, None
<1>2. TypeOK /\ ShutdownInv /\ [Next]_vars => ShutdownInv'
  <2> SUFFICES ASSUME TypeOK, ShutdownInv, [Next]_vars PROVE ShutdownInv'
    OBVIOUS
  <2> USE DEF ShutdownInv
  <2>1. CASE UNCHANGED vars
    BY <2>1 DEF vars, monitorVars, threadVars, EntryKept, AnswerTrue,
       FlagNotified, BehindSettled, CheckedSettled, Walking, Settled, Ended
  <2>2. ASSUME Next PROVE EntryKept'
    BY <2>2 DEF Next, MonitorStep, ThreadStep, PrepareForShutdown, Look,
       CheckStatus, WriteNotified, CallNotify, Broadcast, NextGroup,
       BeginCheck, NextRound, CompleteShutdown, Register, CheckFlag, Block,
       TimeOut, Work, EndByItself, ReadyForShutdown, Unregister, Restart,
       Goto, monitorVars, threadVars, EntryKept, FlagNotified, TypeOK, None,
       Answered
  <2>3. ASSUME Next PROVE AnswerTrue'
    <3> SUFFICES ASSUME NEW r \in Receiver, status'[r] \in Answered
                 PROVE  Settled(r)'
      BY DEF AnswerTrue
    <3>1. Settled(r) \/ pc[r] = "ready"
      BY <2>3 DEF Next, MonitorStep, ThreadStep, PrepareForShutdown, Look,
         CheckStatus, WriteNotified, CallNotify, Broadcast, NextGroup,
         BeginCheck, NextRound, CompleteShutdown, Register, CheckFlag, Block,
         TimeOut, Work, EndByItself, ReadyForShutdown, Unregister, Restart,
         Goto, monitorVars, threadVars, AnswerTrue, TypeOK, None, Answered,
         Settled, Ended
    <3> QED
      BY <2>3, <3>1 DEF Next, MonitorStep, ThreadStep, PrepareForShutdown, Look,
         CheckStatus, WriteNotified, CallNotify, Broadcast, NextGroup,
         BeginCheck, NextRound, CompleteShutdown, Register, CheckFlag, Block,
         TimeOut, Work, EndByItself, ReadyForShutdown, Unregister, Restart,
         Goto, monitorVars, threadVars, EntryKept, AnswerTrue, TypeOK, None,
         Answered, Settled, Ended
  <2>4. ASSUME Next PROVE FlagNotified'
    <3> USE DEF FlagNotified, EntryKept, TypeOK, None, Answered, Goto,
            monitorVars, threadVars
    <3>1. CASE PrepareForShutdown
      BY <3>1 DEF PrepareForShutdown
    <3>2. CASE MonitorStep
      BY <3>2 DEF MonitorStep, Look, CheckStatus, WriteNotified, CallNotify,
                  Broadcast, NextGroup, BeginCheck, NextRound, CompleteShutdown
    <3>3. ASSUME NEW q \in Receiver,
                 ThreadStep(q) \/ Work(q) \/ EndByItself(q) \/ Restart(q)
          PROVE  FlagNotified'
      BY <3>3 DEF ThreadStep, Register, CheckFlag, Block, TimeOut, Restart,
                  ReadyForShutdown, Unregister, Work, EndByItself
    <3> QED
      BY <2>4, <3>1, <3>2, <3>3 DEF Next
  <2>5. ASSUME Next PROVE BehindSettled'
    <3>1. CASE PrepareForShutdown
      BY <3>1, OrderAssumption DEF PrepareForShutdown, BehindSettled, Walking, InGroup
    <3>2. CASE MonitorStep
      <4> USE OrderAssumption
          DEF BehindSettled, Walking, InGroup, TypeOK, threadVars
      <4>0. at # "idle" /\ \A r \in Receiver : Settled(r) => Settled(r)'
        BY <3>2, <2>5, SettledStays DEF MonitorStep, Look, CheckStatus,
           WriteNotified, CallNotify, Broadcast, NextGroup, BeginCheck,
           NextRound, CompleteShutdown
      <4>1. ASSUME NEW r \in Receiver, Look(r) PROVE BehindSettled'
        <5>1. status[r] \in Answered \cup {None} => Settled(r)
          BY DEF AnswerTrue, EntryKept, Settled
        <5>2. todo' = todo \ {r} /\ r \in todo /\ group' = group /\ at = "notify"
          BY <4>1 DEF Look
        <5>3. CASE status[r] = "subscribed"
          BY <4>0, <4>1, <5>2, <5>3 DEF Look, Answered, None
        <5>4. CASE status[r] # "subscribed"
          <6>1. at' = at /\ cur' = cur /\ (canNext' => canNext)
            BY <4>1, <5>4 DEF Look, Answered, None
          <6>2. group > 0 /\ canNext' => Settled(r)
            BY <4>1, <5>1, <5>2, <5>4 DEF Look, Answered, None
          <6> QED
            BY <4>0, <5>2, <6>1, <6>2
        <5> QED
          BY <5>3, <5>4
      <4>2. CASE NextGroup
        BY <4>0, <4>2 DEF NextGroup
      <4>3. CASE WriteNotified \/ CallNotify \/ Broadcast
        BY <4>0, <4>3 DEF WriteNotified, CallNotify, Broadcast
      <4>4. ASSUME NEW r \in Receiver,
                   CheckStatus(r) \/ BeginCheck \/ NextRound \/ CompleteShutdown
            PROVE  BehindSettled'
        BY <4>4 DEF CheckStatus, BeginCheck, NextRound, CompleteShutdown
      <4>5. (BeginCheck \/ NextRound \/ CompleteShutdown) => BehindSettled'
        BY DEF BeginCheck, NextRound, CompleteShutdown
      <4> QED
        BY <3>2, <4>1, <4>2, <4>3, <4>4, <4>5 DEF MonitorStep
    <3>3. ASSUME NEW q \in Receiver,
                 ThreadStep(q) \/ Work(q) \/ EndByItself(q) \/ Restart(q)
          PROVE  BehindSettled'
      <4>1. UNCHANGED monitorVars
        BY <3>3 DEF ThreadStep, Register, CheckFlag, Block, TimeOut, Restart,
                    ReadyForShutdown, Unregister, Work, EndByItself
      <4>2. Walking => \A r \in Receiver : Settled(r) => Settled(r)'
        BY <2>5, SettledStays DEF Walking
      <4> QED
        BY <4>1, <4>2 DEF BehindSettled, Walking, monitorVars, InGroup
    <3> QED
      BY <2>5, <3>1, <3>2, <3>3 DEF Next
  <2>6. ASSUME Next PROVE CheckedSettled'
    <3>1. ASSUME NEW r \in Receiver, CheckStatus(r)
          PROVE  CheckedSettled'
      <4>1. status[r] \in Answered \cup {None} => Settled(r)
        BY DEF AnswerTrue, EntryKept, Settled
      <4>2. \A q \in Receiver : Settled(q) => Settled(q)'
        BY <2>6, <3>1, SettledStays DEF CheckStatus
      <4> QED
        BY <3>1, <4>1, <4>2 DEF CheckStatus, CheckedSettled
    <3>2. CASE CompleteShutdown
      <4>1. \A q \in Receiver : Settled(q) => Settled(q)'
        BY <2>6, <3>2, SettledStays DEF CompleteShutdown
      <4> QED
        BY <3>2, <4>1 DEF CompleteShutdown, CheckedSettled
    <3>3. ASSUME NEW r \in Receiver,
                 \/ PrepareForShutdown \/ Look(r) \/ WriteNotified \/ CallNotify
                 \/ Broadcast \/ NextGroup \/ BeginCheck \/ NextRound
          PROVE  CheckedSettled'
      BY <3>3 DEF CheckedSettled, PrepareForShutdown, Look, WriteNotified,
         CallNotify, Broadcast, NextGroup, BeginCheck, NextRound
    <3>4. ASSUME \/ PrepareForShutdown \/ WriteNotified \/ CallNotify
                 \/ Broadcast \/ NextGroup \/ BeginCheck \/ NextRound
          PROVE  CheckedSettled'
      BY <3>4 DEF CheckedSettled, PrepareForShutdown, WriteNotified,
         CallNotify, Broadcast, NextGroup, BeginCheck, NextRound
    <3>5. ASSUME NEW q \in Receiver,
                 ThreadStep(q) \/ Work(q) \/ EndByItself(q) \/ Restart(q)
          PROVE  CheckedSettled'
      <4>1. UNCHANGED monitorVars
        BY <3>5 DEF ThreadStep, Register, CheckFlag, Block, TimeOut, Restart,
                    ReadyForShutdown, Unregister, Work, EndByItself
      <4>2. at # "idle" => \A r \in Receiver : Settled(r) => Settled(r)'
        BY <2>6, SettledStays
      <4> QED
        BY <4>1, <4>2 DEF CheckedSettled, monitorVars
    <3> QED
      BY <2>6, <3>1, <3>2, <3>3, <3>4, <3>5 DEF Next, MonitorStep
  <2> QED
    BY <2>1, <2>2, <2>3, <2>4, <2>5, <2>6 DEF vars
<1> QED
  BY <1>1, <1>2, TypeCorrect, PTL DEF Spec

\* NotifyShutdown is called at most once on each receiver.
THEOREM NotifyOnce == Spec => []NotifiedOnce
<1>1. ShutdownInv => NotifiedOnce
  BY DEF ShutdownInv, FlagNotified, NotifiedOnce
<1> QED
  BY <1>1, InvCorrect, PTL

\* A receiver is told to stop only behind the receivers of all earlier orders,
\* whatever thread runs in between.
THEOREM OrderSafe == Spec => []OrderKept
<1>1. ShutdownInv => OrderKept
  BY DEF ShutdownInv, BehindSettled, Walking, OrderKept
<1> QED
  BY <1>1, InvCorrect, PTL

\* Completion is reported only when every thread that counts has ended.
THEOREM CompleteSafe == Spec => []CompleteMeansEnded
<1>1. ShutdownInv => CompleteMeansEnded
  BY DEF ShutdownInv, CheckedSettled, CompleteMeansEnded
<1> QED
  BY <1>1, InvCorrect, PTL

-----------------------------------------------------------------------------
(* The shutdown implements ShutdownContract. *)

\* A step that changes neither the flags, who is settled, who is called nor the
\* phase is none of the contract.
LEMMA Stutters ==
  ASSUME flag' = flag, Phase' = Phase, Telling' = Telling,
         \A r \in Receiver : Settled(r)' <=> Settled(r)
  PROVE  [Contract!ANext]_<<Phase, AtWork, Telling, Told>>
<1>1. AtWork' = AtWork /\ Told' = Told
  BY DEF AtWork, Told
<1> QED
  BY <1>1

\* What a receiver's thread does by itself starts it, stops it or puts a new
\* object in its place; who registers during the shutdown is not waited for.
LEMMA ThreadMoves ==
  ASSUME TypeOK, ShutdownInv, NEW q \in Receiver,
         ThreadStep(q) \/ Work(q) \/ EndByItself(q) \/ Restart(q)
  PROVE  [Contract!ANext]_<<Phase, AtWork, Telling, Told>>
<1> USE DEF TypeOK, Goto, monitorVars, threadVars
<1>1. at' = at /\ Phase' = Phase /\ Telling' = Telling
  <2>1. at' = at /\ cur' = cur
    BY DEF ThreadStep, Register, CheckFlag, Block, TimeOut, ReadyForShutdown,
           Unregister, Work, EndByItself, Restart
  <2> QED
    BY <2>1 DEF Phase, Telling
<1>2. CASE Register(q)
  <2>1. flag' = flag /\ \A r \in Receiver \ {q} : Settled(r)' <=> Settled(r)
    BY <1>2 DEF Register, Settled, Ended
  <2>2. CASE Settled(q)'
    <3>1. Settled(q)
      BY <1>2 DEF Register, Settled
    <3> QED
      BY <1>1, <2>1, <2>2, <3>1, Stutters
  <2>3. CASE ~ Settled(q)'
    <3>1. at = "idle" /\ Phase = "running"
      BY <1>2, <2>3 DEF Register, Settled, Phase
    <3>2. AtWork' = AtWork \cup {q} /\ Told' = Told
      BY <2>1, <2>3 DEF AtWork, Told
    <3> QED
      BY <1>1, <3>1, <3>2 DEF Contract!ANext, Contract!Start
  <2> QED
    BY <2>2, <2>3
<1>3. CASE ReadyForShutdown(q)
  <2>1. flag' = flag /\ Settled(q)' /\ \A r \in Receiver \ {q} : Settled(r)' <=> Settled(r)
    BY <1>3 DEF ReadyForShutdown, Settled, Ended
  <2>2. CASE Settled(q)
    BY <1>1, <2>1, <2>2, Stutters
  <2>3. CASE ~ Settled(q)
    <3>1. q \in AtWork /\ AtWork' = AtWork \ {q} /\ Told' = Told
      BY <2>1, <2>3 DEF AtWork, Told
    <3> QED
      BY <1>1, <3>1 DEF Contract!ANext, Contract!Stop
  <2> QED
    BY <2>2, <2>3
<1>4. CASE Restart(q)
  <2>1. Settled(q) /\ \A r \in Receiver : Settled(r)' <=> Settled(r)
    BY <1>4 DEF Restart, Settled, Ended
  <2>2. q \in Receiver \ AtWork /\ AtWork' = AtWork /\ Told' = Told \ {q}
    BY <1>4, <2>1 DEF AtWork, Told, Restart
  <2> QED
    BY <1>1, <2>2 DEF Contract!ANext, Contract!Renew
<1>5. CASE CheckFlag(q) \/ Block(q) \/ TimeOut(q) \/ Unregister(q) \/ Work(q) \/ EndByItself(q)
  <2>1. flag' = flag /\ \A r \in Receiver : Settled(r)' <=> Settled(r)
    BY <1>5 DEF CheckFlag, Block, TimeOut, Unregister, Work, EndByItself, Settled, Ended
  <2> QED
    BY <1>1, <2>1, Stutters
<1> QED
  BY <1>2, <1>3, <1>4, <1>5 DEF ThreadStep

\* What the thread of CClientOnOff does begins the shutdown, tells a receiver
\* behind all the earlier orders, or completes when nobody is at work.
LEMMA MonitorMoves ==
  ASSUME TypeOK, ShutdownInv, PrepareForShutdown \/ MonitorStep
  PROVE  [Contract!ANext]_<<Phase, AtWork, Telling, Told>>
<1> USE DEF TypeOK, monitorVars, threadVars
<1>1. \A r \in Receiver : Settled(r)' <=> Settled(r)
  BY DEF MonitorStep, PrepareForShutdown, Look, CheckStatus, WriteNotified, CallNotify,
         Broadcast, NextGroup, BeginCheck, NextRound, CompleteShutdown, Settled, Ended
<1>2. AtWork' = AtWork
  BY <1>1 DEF AtWork
<1>3. CASE PrepareForShutdown
  <2>1. Phase = "running" /\ Phase' = "stopping" /\ UNCHANGED <<Telling, Told>>
    BY <1>3 DEF PrepareForShutdown, Phase, Telling, Told
  <2> QED
    BY <1>2, <2>1 DEF Contract!ANext, Contract!Begin
<1>4. CASE WriteNotified
  <2>1. /\ Phase = "stopping" /\ Phase' = Phase
        /\ Telling = {} /\ Telling' = {cur} /\ Told' = Told
    BY <1>4 DEF WriteNotified, Phase, Telling, Told
  <2>2. cur \in Receiver \ Told
    BY <1>4 DEF WriteNotified, ShutdownInv, FlagNotified, Told
  <2>3. Contract!Earlier(cur) \cap AtWork = {}
    BY <1>4, <2>2, OrderAssumption
    DEF WriteNotified, ShutdownInv, BehindSettled, Walking, AtWork, Contract!Earlier
  <2> QED
    BY <1>2, <2>1, <2>2, <2>3 DEF Contract!ANext, Contract!Tell
<1>5. CASE CallNotify
  <2>1. Phase' = Phase /\ Telling = {cur} /\ Telling' = {}
    BY <1>5 DEF CallNotify, Phase, Telling
  <2>2. Told' = Told \/ Told' = Told \cup {cur}
    <3>1. CASE life[cur] = 1
      BY <1>5, <3>1 DEF CallNotify, Told
    <3>2. CASE life[cur] # 1
      BY <1>5, <3>2 DEF CallNotify, Told
    <3> QED
      BY <3>1, <3>2
  <2> QED
    BY <1>2, <2>1, <2>2 DEF Contract!ANext, Contract!Hear
<1>6. CASE CompleteShutdown
  <2>1. Phase = "stopping" /\ Phase' = "complete" /\ UNCHANGED <<Telling, Told>>
    BY <1>6 DEF CompleteShutdown, Phase, Telling, Told
  <2>2. AtWork = {}
    BY <1>6 DEF CompleteShutdown, ShutdownInv, CheckedSettled, AtWork
  <2> QED
    BY <1>2, <2>1, <2>2 DEF Contract!ANext, Contract!Complete
<1>7. ASSUME NEW r \in Receiver, Look(r) \/ CheckStatus(r)
      PROVE  [Contract!ANext]_<<Phase, AtWork, Telling, Told>>
  <2>1. Phase' = Phase /\ Telling' = Telling /\ flag' = flag
    BY <1>7 DEF Look, CheckStatus, Phase, Telling
  <2> QED
    BY <1>1, <2>1, Stutters
<1>8. CASE Broadcast \/ NextGroup \/ BeginCheck \/ NextRound
  <2>1. Phase' = Phase /\ Telling' = Telling /\ flag' = flag
    BY <1>8 DEF Broadcast, NextGroup, BeginCheck, NextRound, Phase, Telling
  <2> QED
    BY <1>1, <2>1, Stutters
<1> QED
  BY <1>3, <1>4, <1>5, <1>6, <1>7, <1>8 DEF MonitorStep

\* Every behaviour of the registry, the monitor and the threads is one of
\* ShutdownContract, with any receivers, orders, ways of waiting and restarts.
THEOREM ImplementsShutdown == Spec => StopsInOrder
<1>1. Init => Contract!AInit
  BY DEF Init, Contract!AInit, Phase, AtWork, Telling, Told, Settled
<1>2. TypeOK /\ ShutdownInv /\ [Next]_vars => [Contract!ANext]_<<Phase, AtWork, Telling, Told>>
  <2> SUFFICES ASSUME TypeOK, ShutdownInv, [Next]_vars
               PROVE  [Contract!ANext]_<<Phase, AtWork, Telling, Told>>
    OBVIOUS
  <2>1. CASE UNCHANGED vars
    BY <2>1, Stutters DEF vars, monitorVars, threadVars, Phase, Telling, Settled, Ended
  <2>2. CASE PrepareForShutdown \/ MonitorStep
    BY <2>2, MonitorMoves
  <2>3. ASSUME NEW q \in Receiver,
               ThreadStep(q) \/ Work(q) \/ EndByItself(q) \/ Restart(q)
        PROVE  [Contract!ANext]_<<Phase, AtWork, Telling, Told>>
    BY <2>3, ThreadMoves
  <2> QED
    BY <2>1, <2>2, <2>3 DEF Next
<1> QED
  BY <1>1, <1>2, TypeCorrect, InvCorrect, PTL
  DEF Spec, StopsInOrder, Contract!ASpec, Contract!avars

-----------------------------------------------------------------------------
(* Whom the shutdown may wait for *)

\* Whoever's entry is NOTIFIED was told, is about to be, or is a later
\* incarnation, whom NotifyShutdown does not reach.
NotifiedIsTold ==
  \A r \in Receiver :
    status[r] = "notified" => flag[r] \/ (at = "call" /\ cur = r) \/ life[r] > 1

\* The monitor waits for a thread that is asleep or gone only if its answer or
\* its wake-up was lost, or if it is being told right now: the safety half of
\* Completes (NotifyRcvrs, CheckStatusOfPreDefinedRcvrs).
THEOREM WaitExcused ==
  Spec => [](\A r \in Receiver :
               status[r] = "notified" /\ pc[r] \in {"waiting", "done"} =>
                 \/ LostAnswer \/ LostWakeup
                 \/ at \in {"call", "broadcast"} /\ cur = r)
<1>1. Init => NotifiedIsTold
  BY DEF Init, NotifiedIsTold, None
<1>2. TypeOK /\ NotifiedIsTold /\ [Next]_vars => NotifiedIsTold'
  <2> SUFFICES ASSUME TypeOK, NotifiedIsTold, [Next]_vars
               PROVE  NotifiedIsTold'
    OBVIOUS
  <2> USE DEF TypeOK, NotifiedIsTold, Goto, monitorVars, threadVars
  <2>1. CASE UNCHANGED vars
    BY <2>1 DEF vars
  <2>2. CASE PrepareForShutdown
    BY <2>2 DEF PrepareForShutdown
  <2>3. CASE WriteNotified
    BY <2>3 DEF WriteNotified
  <2>4. CASE CallNotify
    BY <2>4 DEF CallNotify
  <2>5. CASE Broadcast \/ NextGroup \/ BeginCheck \/ NextRound \/ CompleteShutdown
    BY <2>5 DEF Broadcast, NextGroup, BeginCheck, NextRound, CompleteShutdown
  <2>6. ASSUME NEW q \in Receiver, Look(q) \/ CheckStatus(q)
        PROVE  NotifiedIsTold'
    BY <2>6 DEF Look, CheckStatus
  <2>7. ASSUME NEW q \in Receiver,
               ThreadStep(q) \/ Work(q) \/ EndByItself(q) \/ Restart(q)
        PROVE  NotifiedIsTold'
    BY <2>7 DEF ThreadStep, Register, CheckFlag, Block, TimeOut, Restart,
                ReadyForShutdown, Unregister, Work, EndByItself
  <2> HIDE DEF NotifiedIsTold
  <2> QED
    BY <2>1, <2>2, <2>3, <2>4, <2>5, <2>6, <2>7 DEF Next, MonitorStep
<1>3. TypeOK /\ NotifiedIsTold =>
        \A r \in Receiver :
          status[r] = "notified" /\ pc[r] \in {"waiting", "done"} =>
            \/ LostAnswer \/ LostWakeup
            \/ at \in {"call", "broadcast"} /\ cur = r
  BY DEF NotifiedIsTold, LostAnswer, LostWakeup
<1> QED
  BY <1>1, <1>2, <1>3, TypeCorrect, PTL DEF Spec
=============================================================================
