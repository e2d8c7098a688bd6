---------------------------- MODULE ConfigSwitch ----------------------------
(***************************************************************************)
(* What a configuration trial promises: the configuration in use and the   *)
(* stored one change together, only to a configuration that was proved     *)
(* first, and every other end of a trial leaves both as they were.         *)
(***************************************************************************)
CONSTANTS Config,
          NoConfig,    \* nothing enrolled yet
          Damaged      \* what a failed Flash write leaves

VARIABLES current,     \* the configuration in use
          stored,      \* the one in Flash
          phase,       \* "settled", "trying", "undoing" or "stuck"
          proved       \* the configuration that passed its proof, if any

vars == <<current, stored, phase, proved>>

Init == /\ current \in Config \cup {NoConfig}
        /\ stored = current
        /\ phase = "settled" /\ proved = NoConfig

Begin == /\ phase = "settled"
         /\ phase' \in {"trying", "undoing"} /\ proved' = NoConfig
         /\ UNCHANGED <<current, stored>>

Prove(c) == /\ phase = "trying" /\ c # current
            /\ proved' = c
            /\ UNCHANGED <<current, stored, phase>>

Commit == /\ phase = "trying" /\ proved # NoConfig
          /\ current' = proved /\ stored' = proved
          /\ phase' = "settled"
          /\ UNCHANGED proved

(* Neither a trial that is given up nor one that is undone changes what is *)
(* in use; a write that failed may leave the Flash damaged.                *)
GiveUp == /\ phase = "trying"
          /\ phase' = "settled"
          /\ UNCHANGED <<current, stored, proved>>

Undo == /\ phase = "trying"
        /\ phase' \in {"undoing", "stuck"}
        /\ stored' = stored \/ (proved # NoConfig /\ stored' \in {current, Damaged})
        /\ UNCHANGED <<current, proved>>

Repair == /\ phase = "undoing"
          /\ stored' \in {current, Damaged}
          /\ UNCHANGED <<current, phase, proved>>

Undone == /\ phase = "undoing" /\ stored = current
          /\ phase' = "settled"
          /\ UNCHANGED <<current, stored, proved>>

Stick == /\ phase = "undoing"
         /\ phase' = "stuck"
         /\ UNCHANGED <<current, stored, proved>>

Attest == /\ phase = "stuck"
          /\ phase' = "settled" /\ stored' = current
          /\ UNCHANGED <<current, proved>>

Next == \/ Begin \/ Commit \/ GiveUp \/ Undo \/ Repair \/ Undone \/ Stick \/ Attest
        \/ \E c \in Config : Prove(c)

Spec == Init /\ [][Next]_vars
=============================================================================
