--------------------------- MODULE MCConfigTrial ---------------------------
(* Three configurations and trials in a row, so that late reports of one  *)
(* trial meet the next.                                                   *)
EXTENDS ConfigTrial

CONSTANTS c1, c2, c3
=============================================================================
