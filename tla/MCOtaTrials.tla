----------------------------- MODULE MCOtaTrials -----------------------------
(* OtaTrials with a factory image, a working and a faulty candidate.       *)
EXTENDS OtaTrials

CONSTANTS factory, good, faulty
=============================================================================
