--------------------------- MODULE MCStreamUpload ---------------------------
(* Instances of StreamUpload for TLC; the .cfg files choose among them.     *)
EXTENDS StreamUpload

Rows2 == {1, 2}
NoRows == {}
Row1 == {1}
Row2 == {2}

EventThread == {"event"}
BothThreads == {"event", "alert"}

NoFaults == {}
AllFaults == FaultKind

\* State constraint: a behaviour is followed up to the step that disturbs the
\* book-keeping; every property checked under it is about those before.
Intact == ~ Broken
=============================================================================
