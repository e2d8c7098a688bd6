-------------------------- MODULE MCMqttTransport --------------------------
(* Model values for the runs of MqttTransport.                             *)
EXTENDS MqttTransport

CONSTANTS c1, c2
=============================================================================
