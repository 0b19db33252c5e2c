--------------------------- MODULE UploadContract ---------------------------
(***************************************************************************)
(* What the stream uploader promises about the rows of the event and alert *)
(* tables, with no word about MIDs, threads or connections: a row leaves   *)
(* the upload queue of the data base only after the broker has its data    *)
(* (at-least-once), unless a reconnection broke the book-keeping.          *)
(***************************************************************************)
CONSTANT Row                \* rows of TABLE_EVENT_STORE and TABLE_ALERT_STORE

VARIABLES pending,          \* rows waiting in the data base for the upload
          delivered,        \* rows whose data the broker has received
          cleared,          \* rows removed (or marked as streamed) afterwards
          broken            \* the MID book-keeping was mixed between sessions

avars == <<pending, delivered, cleared, broken>>

AInit == pending = {} /\ delivered = {} /\ cleared = {} /\ broken = FALSE

Accept == \E r \in Row \ (pending \cup cleared) :
             /\ pending' = pending \cup {r}
             /\ UNCHANGED <<delivered, cleared, broken>>

Receive == \E S \in SUBSET (pending \cup cleared) :
              /\ delivered' = delivered \cup S
              /\ UNCHANGED <<pending, cleared, broken>>

Clear == \E S \in SUBSET pending :
            /\ broken \/ S \subseteq delivered
            /\ pending' = pending \ S
            /\ cleared' = cleared \cup S
            /\ UNCHANGED <<delivered, broken>>

Break == broken' = TRUE /\ UNCHANGED <<pending, delivered, cleared>>

ANext == Accept \/ Receive \/ Clear \/ Break

ASpec == AInit /\ [][ANext]_avars
=============================================================================
