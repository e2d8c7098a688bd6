----------------------------- MODULE MCBootState -----------------------------
(* BootState on two record contents, three words and five saves.          *)
EXTENDS BootState

CONSTANTS r1, r2

=============================================================================
