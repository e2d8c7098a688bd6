--------------------------- MODULE CommandService ---------------------------
(***************************************************************************)
(* What the AT client promises the owners of the modem: a command it       *)
(* accepted is either withdrawn by its owner or answered exactly once; one *)
(* command is on the wire at a time; and while the session is closed,      *)
(* nothing is accepted and nothing is written, but everything accepted     *)
(* before is still answered.                                               *)
(***************************************************************************)
CONSTANT Op

VARIABLES place,   \* where each command is
          gate     \* whether the session takes commands

vars == <<place, gate>>

Places == {"new", "queued", "running", "detached", "settled", "withdrawn"}

Init == place = [o \in Op |-> "new"] /\ gate = "open"

Move(o, from, to) == /\ place[o] = from
                     /\ place' = [place EXCEPT ![o] = to]

Accept(o) == gate = "open" /\ Move(o, "new", "queued") /\ UNCHANGED gate

Begin(o) == /\ gate = "open"
            /\ \A p \in Op : place[p] # "running"
            /\ Move(o, "queued", "running")
            /\ UNCHANGED gate

Settle(o) == Move(o, "running", "settled") /\ UNCHANGED gate

(* An owner gives up commands of its own that were not answered yet.       *)
Withdraw(O) == /\ \A o \in O : place[o] \in {"queued", "running"}
               /\ place' = [o \in Op |-> IF o \in O THEN "withdrawn" ELSE place[o]]
               /\ UNCHANGED gate

(* The session closes over all it had accepted; the command on the wire    *)
(* may be answered by the very event that closes it.                       *)
Close(O) == /\ \A o \in O : place[o] = "running"
            /\ place' = [o \in Op |-> IF o \in O THEN "settled"
                                      ELSE IF place[o] \in {"queued", "running"} THEN "detached"
                                      ELSE place[o]]
            /\ gate' = "closed"

Notify(o) == gate = "closed" /\ Move(o, "detached", "settled") /\ UNCHANGED gate

Reopen == /\ gate = "closed"
          /\ \A o \in Op : place[o] # "detached"
          /\ gate' = "open"
          /\ UNCHANGED place

Next == \/ \E o \in Op : Accept(o) \/ Begin(o) \/ Settle(o) \/ Notify(o)
        \/ \E O \in SUBSET Op : Withdraw(O) \/ Close(O)
        \/ Reopen

Spec == Init /\ [][Next]_vars
=============================================================================
