-------------------------- MODULE EnrolmentRequest --------------------------
(***************************************************************************)
(* What enrolment promises the operator who approves a box.  It asks the   *)
(* server only while it has no configuration and is not abandoned, once at *)
(* a time, and learns what becomes of its request from the answers alone.  *)
(* The request the operator sees is kept through failed transfers,         *)
(* restarts of the modem and failed trials, until the server has declined  *)
(* or closed it; a configuration is tried only after it was approved.      *)
(***************************************************************************)
VARIABLES phase,   \* "none", "held", "trial", "enrolled" or "abandoned"
          asking,  \* a question to the server is under way
          server   \* the request at the server; only an approved one is ever "closed"

vars == <<phase, asking, server>>

Init == phase = "none" /\ asking = FALSE /\ server = "none"

Settled == {"none", "declined", "closed"}

(* The server opens a request anew only for a box that holds none, and     *)
(* decides on its own account.                                             *)
Opens == server \in Settled /\ phase \notin {"held", "trial"} /\ server' = "open"
Decides == \/ server = "open" /\ server' \in {"approved", "declined"}
           \/ server = "approved" /\ server' = "closed"

ServerMoves == (Opens \/ Decides) /\ UNCHANGED <<phase, asking>>

Ask == /\ ~asking /\ phase \in {"none", "held"}
       /\ asking' = TRUE
       /\ UNCHANGED <<phase, server>>

(* What an answer, or the lack of one, makes of the phase.                 *)
Grant == phase = "none" /\ server # "none" /\ phase' = "held"
Try == phase = "held" /\ server \in {"approved", "closed"} /\ phase' = "trial"
Release == phase = "held" /\ server \in {"declined", "closed"} /\ phase' = "none"

Answered == /\ asking /\ asking' = FALSE
            /\ UNCHANGED phase \/ Grant \/ Try \/ Release
            /\ UNCHANGED server

Fail == phase = "trial" /\ phase' = "held"
Enrol == phase = "trial" /\ phase' = "enrolled"
Abandon == phase \in {"none", "held", "trial"} /\ phase' = "abandoned"

Next == \/ ServerMoves \/ Ask \/ Answered
        \/ (Fail \/ Enrol \/ Abandon) /\ UNCHANGED <<asking, server>>

Spec == Init /\ [][Next]_vars
=============================================================================
