--------------------------- MODULE MCCloudService ---------------------------
(* One request, two wake-ups, two connections, one publish at a time: the  *)
(* instance small enough for liveness.  Several publishes and requests in  *)
(* between are covered by CloudServiceProofs.                              *)
EXTENDS CloudService

CONSTANTS r1, o1
=============================================================================
