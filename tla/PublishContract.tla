-------------------------- MODULE PublishContract --------------------------
(***************************************************************************)
(* What the MQTT transport promises of its publishes, as seen by whoever   *)
(* gets the publish_event callback: one operation at a time, and for each  *)
(* accepted one at most one SUBMITTED and then exactly one CONFIRMED or    *)
(* FAILED, CONFIRMED only after SUBMITTED.                                 *)
(***************************************************************************)
EXTENDS Naturals, Sequences

CONSTANT MaxOps            \* bound on the operations

VARIABLES accepted,        \* operations handed out so far
          told             \* publish_event: what was reported of the last one

vars == <<accepted, told>>

Settled == told # <<>> /\ told[Len(told)] \in {"confirmed", "failed"}

Init == accepted = 0 /\ told = <<>>

Accept ==
    /\ accepted = 0 \/ Settled
    /\ accepted < MaxOps
    /\ accepted' = accepted + 1
    /\ told' = <<>>

Tell(event) ==
    /\ accepted > 0 /\ ~Settled
    /\ told' = Append(told, event)
    /\ UNCHANGED accepted

Next ==
    \/ Accept
    \/ told = <<>> /\ Tell("submitted")
    \/ told = <<"submitted">> /\ Tell("confirmed")
    \/ Tell("failed")

Spec == Init /\ [][Next]_vars
=============================================================================
