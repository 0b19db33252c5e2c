--------------------------- MODULE ShutdownContract ---------------------------
(***************************************************************************)
(* What the shutdown promises, with no word about registries, statuses and *)
(* rounds: once it has begun nobody goes to work any more, each receiver   *)
(* is told to stop at most once and only when nobody of an earlier order   *)
(* is at work, and it is complete when nobody is.                          *)
(***************************************************************************)
EXTENDS Integers

CONSTANTS Receiver,
          Order             \* receiver -> its order, 0 for one without

VARIABLES phase,            \* "running", "stopping" or "complete"
          atWork,           \* receivers the shutdown has to wait for
          telling,          \* the receiver being told, or nobody
          told              \* receivers whose object was told to stop

avars == <<phase, atWork, telling, told>>

AInit == phase = "running" /\ atWork = {} /\ telling = {} /\ told = {}

Start == \E r \in Receiver : /\ phase = "running"
                             /\ atWork' = atWork \cup {r}
                             /\ UNCHANGED <<phase, telling, told>>

Stop == \E r \in atWork : /\ atWork' = atWork \ {r}
                          /\ UNCHANGED <<phase, telling, told>>

\* A new object takes the place of one that has stopped.
Renew == \E r \in Receiver \ atWork : /\ told' = told \ {r}
                                      /\ UNCHANGED <<phase, atWork, telling>>

Begin == /\ phase = "running"
         /\ phase' = "stopping"
         /\ UNCHANGED <<atWork, telling, told>>

Earlier(r) == {q \in Receiver : 0 < Order[q] /\ Order[q] < Order[r]}

Tell == \E r \in Receiver \ told : /\ phase = "stopping" /\ telling = {}
                                   /\ Earlier(r) \cap atWork = {}
                                   /\ telling' = {r}
                                   /\ UNCHANGED <<phase, atWork, told>>

\* The object that is told may be gone by then.
Hear == /\ telling # {}
        /\ told' \in {told, told \cup telling}
        /\ telling' = {}
        /\ UNCHANGED <<phase, atWork>>

Complete == /\ phase = "stopping" /\ atWork = {}
            /\ phase' = "complete"
            /\ UNCHANGED <<atWork, telling, told>>

ANext == Start \/ Stop \/ Renew \/ Begin \/ Tell \/ Hear \/ Complete

ASpec == AInit /\ [][ANext]_avars
=============================================================================
