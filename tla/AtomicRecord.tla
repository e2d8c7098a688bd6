---------------------------- MODULE AtomicRecord ----------------------------
(***************************************************************************)
(* What the Boot State store promises to the Boot and to the App: one      *)
(* record that a save replaces at a single instant, whatever happens       *)
(* during the save.  A save that reports failure, or that a power loss     *)
(* cuts short, has either replaced the record or left it alone; one that   *)
(* reports success has replaced it.                                        *)
(***************************************************************************)
CONSTANTS Record,      \* the contents a record can have
          NoRecord     \* what a load answers when nothing was ever stored

VARIABLES stored,      \* what StateLoad answers
          saving,      \* the content a running StateSave writes, or NoRecord
          result       \* what the last StateSave returned

vars == <<stored, saving, result>>

Init == stored = NoRecord /\ saving = NoRecord /\ result = "none"

(* A save starts, or is refused before it touches anything.                *)
Begin(r) == /\ saving = NoRecord
            /\ saving' = r
            /\ result' = "none"
            /\ UNCHANGED stored

Refuse == /\ saving = NoRecord
          /\ result' = "failed"
          /\ UNCHANGED <<stored, saving>>

(* The instant at which the new content replaces the old one.              *)
Commit == /\ saving # NoRecord
          /\ stored' = saving
          /\ UNCHANGED <<saving, result>>

(* A failing save may still have replaced the record, a successful one has. *)
Return(answer) == /\ saving # NoRecord
                  /\ stored' \in {stored, saving}
                  /\ answer = "saved" => stored' = saving
                  /\ saving' = NoRecord
                  /\ result' = answer

PowerLoss == /\ saving' = NoRecord
             /\ result' = "none"
             /\ UNCHANGED stored

Next == \/ \E r \in Record : Begin(r)
        \/ Refuse
        \/ Commit
        \/ \E answer \in {"saved", "failed"} : Return(answer)
        \/ PowerLoss

Spec == Init /\ [][Next]_vars
=============================================================================
