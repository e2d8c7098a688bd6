-------------------------- MODULE VerifiedTransfer --------------------------
(***************************************************************************)
(* What the download promises the boot record: an image is accepted only   *)
(* while the file that holds it is whole, and from then on nothing the     *)
(* modem still has to do changes that file, until another transfer of the  *)
(* same file is begun.                                                     *)
(***************************************************************************)
VARIABLES phase,   \* "resting", "working" or "accepted"
          whole    \* the file holds exactly the image that was asked for

vars == <<phase, whole>>

Init == phase = "resting" /\ whole \in BOOLEAN

Begin == phase # "working" /\ phase' \in {"working", "resting"} /\ UNCHANGED whole

Change == phase # "accepted" /\ UNCHANGED phase /\ whole' \in BOOLEAN

Accept == phase = "working" /\ whole /\ phase' = "accepted" /\ UNCHANGED whole

GiveUp == phase = "working" /\ phase' = "resting" /\ UNCHANGED whole

Next == Begin \/ Change \/ Accept \/ GiveUp

Spec == Init /\ [][Next]_vars
=============================================================================
