--------------------------- MODULE MCMqttRuntime ---------------------------
(***************************************************************************)
(* A plain configuration, one with CA and one with PSK, on a build that    *)
(* probes the TLS capability and asks for the clock mode and one that does *)
(* neither.                                                                *)
(***************************************************************************)
EXTENDS MqttRuntime

CONSTANTS plain, caTls, pskTls, noConfig

MCConfig == {plain, caTls, pskTls}
MCTls == {caTls, pskTls}
MCPsk == {pskTls}
MCOption == {[probe |-> FALSE, mode |-> FALSE], [probe |-> TRUE, mode |-> TRUE]}
=============================================================================
