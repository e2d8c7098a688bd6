---------------------------- MODULE CloudBootstrap ----------------------------
(***************************************************************************)
(* The bootstrap cursor of components/cloud/src/abox_cloud_service.c       *)
(* (ABoxCloudBootstrap): what every connection reports before anything     *)
(* else, in which order, and which receipts count. It is the promise the   *)
(* full cloud service keeps as well (CloudService).                        *)
(***************************************************************************)
EXTENDS Naturals

CONSTANTS Operation,      \* names of publish operations
          NoOperation,    \* 0
          MaxGeneration   \* bound on the connections

VARIABLES generation,  \* the connection
          ready,       \* it is up
          stage,       \* 1 manifest, 2 heartbeat, 3 state, 0 done or not begun
          in_flight,   \* the job under way
          operation,   \* its publish
          ever_ready   \* an earlier bootstrap was completed

vars == <<generation, ready, stage, in_flight, operation, ever_ready>>

Due(n) == CASE n = 1 -> "manifest" [] n = 2 -> "heartbeat" [] n = 3 -> "state"
            [] OTHER -> "none"

Init == /\ generation = 1 /\ ready = FALSE /\ stage = 0
        /\ in_flight = "none" /\ operation = NoOperation /\ ever_ready = FALSE

NetworkChanged ==
    /\ generation < MaxGeneration
    /\ generation' = generation + 1
    /\ ready' = FALSE /\ stage' = 0
    /\ in_flight' = "none" /\ operation' = NoOperation
    /\ UNCHANGED ever_ready

SetReady ==
    /\ ~ready
    /\ ready' = TRUE /\ stage' = 1
    /\ UNCHANGED <<generation, in_flight, operation, ever_ready>>

Begin(op) ==
    /\ ready /\ in_flight = "none" /\ Due(stage) # "none"
    /\ in_flight' = Due(stage) /\ operation' = op
    /\ UNCHANGED <<generation, ready, stage, ever_ready>>

(* A receipt that matches ends the job, and takes the cursor on only if it *)
(* confirms.                                                               *)
Counts(confirmed) ==
    IF confirmed /\ in_flight = Due(stage)
    THEN stage' = (stage + 1) % 4 /\ ever_ready' = (ever_ready \/ in_flight = "state")
    ELSE UNCHANGED <<stage, ever_ready>>

Receipt(confirmed) ==
    /\ in_flight # "none"
    /\ in_flight' = "none" /\ operation' = NoOperation
    /\ Counts(confirmed)
    /\ UNCHANGED <<generation, ready>>

(* An owner that polls may begin the next job at once.                     *)
Turn(op, confirmed) ==
    /\ ready /\ in_flight # "none"
    /\ Counts(confirmed)
    /\ Due(stage') # "none"
    /\ in_flight' = Due(stage') /\ operation' = op
    /\ UNCHANGED <<generation, ready>>

Next == \/ NetworkChanged \/ SetReady
        \/ \E op \in Operation : Begin(op)
        \/ \E confirmed \in BOOLEAN : Receipt(confirmed) \/ \E op \in Operation : Turn(op, confirmed)

Spec == Init /\ [][Next]_vars
=============================================================================
