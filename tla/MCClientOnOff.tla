---------------------------- MODULE MCClientOnOff ----------------------------
(* Receivers for TLC: one of the first order with a timed wait, one of the  *)
(* first and one of the second order that wait untimed, a non-defined one.  *)
EXTENDS ClientOnOff

CONSTANTS client,     \* CIgniteMQTTClient
          uploader,   \* CMQTTUploader
          midHandler, \* CMidHandler
          periodic    \* CPeriodicEvents, registered by name

MCOrder == [r \in Receiver |-> CASE r \in {client, uploader} -> 1
                                 [] r = midHandler -> 2
                                 [] OTHER -> 0]
=============================================================================
