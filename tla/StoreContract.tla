---------------------------- MODULE StoreContract ----------------------------
(***************************************************************************)
(* What the ingest path promises about the events handed to it, with no    *)
(* word about queues, threads or transactions: events reach the disk in    *)
(* the order they came, an event leaves the disk only after its upload,    *)
(* and one that was given up (dropped, or only counted in an overflow      *)
(* record) never shows up later.                                           *)
(***************************************************************************)
EXTENDS Integers

CONSTANT N                  \* events, numbered in the order they come

VARIABLE fate               \* event -> what has become of it

Event == 1 .. N

Become(S, f) == [e \in Event |-> IF e \in S THEN f ELSE fate[e]]

With(f) == {e \in Event : fate[e] = f}

CInit == fate = [e \in Event |-> "new"]

Enter == \E e \in With("new"), f \in {"pending", "dropped"} :
            /\ \A d \in With("new") : e <= d
            /\ fate' = Become({e}, f)

Ignore == \E e \in With("pending") : fate' = Become({e}, "counted")

Drop == \E S \in SUBSET (With("pending") \cup With("counted")) :
           fate' = Become(S, "dropped")

\* Rows become durable and uploaded ones leave the disk, together.
Commit == \E S \in SUBSET With("pending"), C \in SUBSET With("stored") :
             /\ \A e \in S : \A d \in With("pending") : d < e => d \in S
             /\ fate' = [e \in Event |-> CASE e \in S -> "stored"
                                          [] e \in C -> "cleared"
                                          [] OTHER   -> fate[e]]

\* A row of a transaction that is still open may be uploaded already.
Clear == \E e \in With("pending") : fate' = Become({e}, "cleared")

CNext == Enter \/ Ignore \/ Drop \/ Commit \/ Clear

CSpec == CInit /\ [][CNext]_fate
=============================================================================
