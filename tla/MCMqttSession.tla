---------------------------- MODULE MCMqttSession ---------------------------
(* Instance of MqttSession for TLC. *)
EXTENDS MqttSession
=============================================================================
