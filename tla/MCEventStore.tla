---------------------------- MODULE MCEventStore ----------------------------
(* Instances of EventStore for TLC. *)
EXTENDS EventStore

Mixed == [e \in Event |-> IF e % 2 = 1 THEN 2 ELSE 1]
AllIgnite == Event
FirstForeign == Event \ {1}
=============================================================================
