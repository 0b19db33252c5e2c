---------------------------- MODULE MCActivation ----------------------------
(* Instances of Activation for TLC. *)
EXTENDS Activation

\* Devices are alike, so it does not matter which one the cloud begins with.
First == CHOOSE d \in Device : TRUE
MCInit == Init /\ owner \in {None, First}
MCSpec == MCInit /\ [][Next]_vars /\ Fairness
=============================================================================
