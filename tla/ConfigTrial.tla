----------------------------- MODULE ConfigTrial -----------------------------
(***************************************************************************)
(* The trial of a new MQTT configuration: the trial's states, the slot in  *)
(* which its actions wait for the communication owner, the service that    *)
(* hands them out, and the commit of the candidate to Flash.               *)
(*                                                                         *)
(*   components/mqtt/src/abox_mqtt_trial.c            the trial            *)
(*   components/mqtt/src/abox_mqtt_trial_executor.c   the slot             *)
(*   components/cloud/src/abox_maintenance_service.c  poll, commit, events *)
(*   components/core/src/abox_config_store.c          candidate, or stable *)
(*                                                                         *)
(* The product and its MQTT runtime are outside: they carry out the        *)
(* actions they are handed, report what became of them, late and in any    *)
(* order, and hold to the contract of docs/internal/mqtt_tls_foundation.md:*)
(* RESTORED is reported only with the old configuration running and stored.*)
(* A deadline is the freedom to find, at any poll, that it has passed.     *)
(***************************************************************************)
EXTENDS Naturals

CONSTANTS Config,      \* configurations
          NoConfig,    \* NULL: nothing enrolled yet
          Damaged,     \* what a failed Flash write leaves
          MaxSession   \* bound on the trials started

ASSUME TrialAssumption == /\ NoConfig \notin Config /\ Damaged \notin Config
                          /\ Damaged # NoConfig
                          /\ MaxSession \in Nat

Session == 0..MaxSession
State == {"idle", "wait_accept", "preparing", "connecting", "subscribing", "verifying",
          "committing", "restoring", "committed", "failed", "restore_failed"}
Action == {"none", "prepare", "connect", "subscribe", "verify", "commit", "restore"}
NetState == {"down", "prepared", "connected", "ready", "failed"}

VARIABLES trial,    \* the trial: state, session, active, candidate
          slot,     \* the executor's deferred action
          work,     \* external: the action the product accepted last
          net,      \* external: what the MQTT runtime drives, and how far it is
          proofs,   \* external: sessions whose proof message is acknowledged, or will be
          stored,   \* external: the configuration in Flash
          proved    \* history: the candidate whose proof the trial accepted

vars == <<trial, slot, work, net, proofs, stored, proved>>

NoWork == [action |-> "none", session |-> 0, config |-> NoConfig]

running(t) == t.state \in {"wait_accept", "preparing", "connecting", "subscribing",
                           "verifying", "committing"}
timed(t) == running(t) /\ t.state # "wait_accept"

-----------------------------------------------------------------------------
(* The executor: an action waits until it is taken, and a restore takes    *)
(* the place of whatever waits.                                            *)
Accepts(q, action) == q.action = "none" \/ action = "restore"
Entry(t, action) ==
    [action |-> action, session |-> t.session,
     config |-> IF action = "restore" THEN t.active ELSE t.candidate]

(* Faulty variant: Take hands out whatever waits.                          *)
PendingAnySession(t, q) == q.action # "none"

HasPending(t, q) == q.action # "none" /\ q.session = t.session

-----------------------------------------------------------------------------
(* The trial, on the pair of itself and its slot.                          *)
Restore(t) == <<[t EXCEPT !.state = "restoring"], Entry(t, "restore")>>

(* Enter a state whose action the slot may refuse.                         *)
Enter(t, q, state, action) ==
    IF Accepts(q, action) THEN <<[t EXCEPT !.state = state], Entry(t, action)>>
    ELSE Restore(t)

(* Faulty variant: a deadline is not looked at once the commit began.      *)
PollUncommitting(t, q) ==
    {<<t, q>>} \cup
    (IF timed(t) /\ t.state # "committing" THEN {Restore(t)}
     ELSE IF t.state = "restoring" THEN {<<[t EXCEPT !.state = "restore_failed"], q>>}
     ELSE {})

(* Poll: what it finds, the deadline reached or not.                       *)
Poll(t, q) ==
    {<<t, q>>} \cup
    (IF timed(t) THEN {Restore(t)}
     ELSE IF t.state = "restoring" THEN {<<[t EXCEPT !.state = "restore_failed"], q>>}
     ELSE {})

(* Each state waits for one event, which leads to the next.                *)
Successor(event) ==
    CASE event = "accepted"   -> <<"wait_accept", "preparing", "prepare">>
      [] event = "prepared"   -> <<"preparing", "connecting", "connect">>
      [] event = "connected"  -> <<"connecting", "subscribing", "subscribe">>
      [] event = "subscribed" -> <<"subscribing", "verifying", "verify">>
      [] event = "proved"     -> <<"verifying", "committing", "commit">>

(* What Event does once the deadline was found not to have passed.         *)
React(t, q, event, own) ==
    CASE t.state = "restoring" ->
           IF event = "restored" THEN <<[t EXCEPT !.state = "failed"], q>>
           ELSE IF event = "error" THEN <<[t EXCEPT !.state = "restore_failed"], q>>
           ELSE <<t, q>>
      [] running(t) /\ event = "error" -> Restore(t)
      [] running(t) /\ event = "saved" ->
           IF t.state = "committing"
           THEN <<[t EXCEPT !.state = "committed", !.active = t.candidate], q>> ELSE <<t, q>>
      [] running(t) /\ event \notin {"error", "saved", "restored"} ->
           IF t.state = Successor(event)[1] /\ (event = "proved" => own)
           THEN Enter(t, q, Successor(event)[2], Successor(event)[3]) ELSE <<t, q>>
      [] OTHER -> <<t, q>>

(* Event(session, event, proof): what may come of it.                      *)
Event(t, q, session, event, own) ==
    IF session # t.session \/ session = 0 THEN {<<t, q>>}
    ELSE {React(p[1], p[2], event, own) : p \in Poll(t, q)}

Becomes(pair) == trial' = pair[1] /\ slot' = pair[2]

-----------------------------------------------------------------------------
(* Calls of the product.                                                   *)
MayStart == /\ ~running(trial)
            /\ trial.state \notin {"restoring", "restore_failed"}
            /\ trial.session < MaxSession

NewTrial(state, active, candidate) ==
    [state |-> state, session |-> trial.session + 1, active |-> active, candidate |-> candidate]

Start(c) ==
    /\ MayStart
    /\ stored # NoConfig /\ c # stored
    /\ trial' = NewTrial("wait_accept", stored, c)
    /\ proved' = NoConfig
    /\ UNCHANGED <<slot, work, net, proofs, stored>>

StartFirst(c) ==
    /\ MayStart
    /\ stored = NoConfig
    /\ Becomes(Enter(NewTrial("preparing", NoConfig, c), slot, "preparing", "prepare"))
    /\ proved' = NoConfig
    /\ UNCHANGED <<work, net, proofs, stored>>

(* An event the product reports of a session, which may be an old one.     *)
Report(session, event, own) ==
    /\ \E p \in Event(trial, slot, session, event, own) :
          /\ Becomes(p)
          /\ proved' = IF p[1].state = "committing" /\ trial.state = "verifying"
                       THEN trial.candidate ELSE proved
    /\ UNCHANGED <<work, net, proofs, stored>>

ReportAccepted(session) == Report(session, "accepted", FALSE)
ReportError(session) == Report(session, "error", FALSE)
ReportProved(session) == session \in proofs /\ Report(session, "proved", TRUE)
ReportOther(session) == Report(session, "proved", FALSE)

ReportRestored ==
    /\ work.action = "restore" /\ work.session = trial.session
    /\ stored = work.config
    /\ net.config = work.config /\ (net.config # NoConfig => net.state = "ready")
    /\ Report(work.session, "restored", FALSE)

Cancel ==
    /\ running(trial)
    /\ IF trial.state = "wait_accept"
       THEN trial' = [trial EXCEPT !.state = "failed"] /\ UNCHANGED slot
       ELSE Becomes(Restore(trial))
    /\ UNCHANGED <<work, net, proofs, stored, proved>>

(* The product has put the old configuration back by other means.          *)
RecoveryComplete ==
    /\ trial.state = "restore_failed"
    /\ trial' = [trial EXCEPT !.state = "failed"]
    /\ stored' = trial.active
    /\ net' = [config |-> trial.active, state |-> "down"]
    /\ work' = NoWork
    /\ UNCHANGED <<slot, proofs, proved>>

-----------------------------------------------------------------------------
(* MaintenanceService_Poll: the deadline, then the action that waits, which*)
(* the product accepts and begins, or refuses.                             *)
Begun(q) ==
    /\ work' = q
    /\ net' = IF q.action \in {"prepare", "restore"}
              THEN [config |-> q.config, state |-> "down"] ELSE net
    /\ proofs' = IF q.action = "verify" THEN proofs \cup {q.session} ELSE proofs

MaintenancePoll ==
    /\ \E p \in Poll(trial, slot) :
          LET t == p[1]
              q == p[2]
          IN  \/ /\ ~HasPending(t, q)
                 /\ Becomes(<<t, NoWork>>)
                 /\ UNCHANGED <<work, net, proofs>>
              \/ /\ HasPending(t, q)
                 /\ Becomes(<<t, NoWork>>)
                 /\ Begun(q)
              \/ /\ HasPending(t, q)
                 /\ Becomes(React(t, NoWork, "error", FALSE))
                 /\ UNCHANGED <<work, net, proofs>>
    /\ UNCHANGED <<stored, proved>>

(* Faulty variant: the deadline is read again after the write.             *)
SavedLate(t, q, ok) ==
    Event(t, q, t.session, IF ok THEN "saved" ELSE "error", FALSE)

(* The event that ends a commit carries the time the commit began with, so *)
(* the deadline cannot pass in between.                                    *)
Saved(t, q, ok) == {React(t, q, IF ok THEN "saved" ELSE "error", FALSE)}

(* ConfigStore_Commit: Flash holds the candidate, or else the stable       *)
(* configuration written once more, or neither can be read back.           *)
StoreCommit(candidate, stable) == {candidate, stable, Damaged}

(* MaintenanceService_Commit.                                              *)
Commit ==
    /\ work.action = "commit" /\ trial.session = work.session
    /\ trial.state = "committing"
    /\ \E p \in Poll(trial, slot) :
          IF p[1].state # "committing"
          THEN Becomes(p) /\ UNCHANGED stored
          ELSE \E written \in StoreCommit(trial.candidate, trial.active) :
                  /\ stored' = written
                  /\ \E r \in Saved(trial, slot, written = trial.candidate) : Becomes(r)
    /\ work' = NoWork
    /\ UNCHANGED <<net, proofs, proved>>

-----------------------------------------------------------------------------
(* The runtime gets on, and tells the trial by RuntimeEvent: an event, and *)
(* the action it makes superfluous is taken out of the slot.               *)
RuntimeEvent(event, state, action) ==
    \E p \in Event(trial, slot, trial.session, event, FALSE) :
       IF p[1].state = state /\ HasPending(p[1], p[2])
       THEN Becomes(IF p[2].action = action THEN <<p[1], NoWork>>
                    ELSE React(p[1], NoWork, "error", FALSE))
       ELSE Becomes(p)

NetStep(from, to, event, state, action) ==
    /\ net.state = from /\ net.config # NoConfig
    /\ net' = [net EXCEPT !.state = to]
    /\ RuntimeEvent(event, state, action)
    /\ UNCHANGED <<work, stored, proved>>

NetPrepared == NetStep("down", "prepared", "prepared", "connecting", "connect") /\ UNCHANGED proofs
NetConnected == NetStep("prepared", "connected", "connected", "subscribing", "subscribe") /\ UNCHANGED proofs
(* The proof message goes out on the candidate's own connection.           *)
NetReady ==
    /\ NetStep("connected", "ready", "subscribed", "verifying", "verify")
    /\ proofs' = IF trial'.state = "verifying" THEN proofs \cup {trial.session} ELSE proofs

NetFails ==
    /\ net.state # "failed"
    /\ net' = [net EXCEPT !.state = "failed"]
    /\ \E p \in Event(trial, slot, trial.session, "error", FALSE) : Becomes(p)
    /\ UNCHANGED <<work, proofs, stored, proved>>

(* RDY: the runtime starts over with what it drives.                       *)
NetRestarts ==
    /\ net' = [net EXCEPT !.state = "down"]
    /\ UNCHANGED <<trial, slot, work, proofs, stored, proved>>

(* While it restores, the product rewrites the old configuration.          *)
Rewrite ==
    /\ work.action = "restore" /\ trial.state = "restoring" /\ work.session = trial.session
    /\ stored' \in {work.config, Damaged}
    /\ UNCHANGED <<trial, slot, work, net, proofs, proved>>

-----------------------------------------------------------------------------
Init ==
    /\ stored \in Config \cup {NoConfig}
    /\ trial = [state |-> "idle", session |-> 0, active |-> NoConfig, candidate |-> NoConfig]
    /\ slot = NoWork /\ work = NoWork
    /\ net = [config |-> stored, state |-> "down"]
    /\ proofs = {} /\ proved = NoConfig

Product == \/ \E c \in Config : Start(c) \/ StartFirst(c)
           \/ \E s \in 1..trial.session :
                 ReportAccepted(s) \/ ReportError(s) \/ ReportProved(s) \/ ReportOther(s)
           \/ ReportRestored \/ Cancel \/ RecoveryComplete \/ Rewrite \/ Commit

Runtime == NetPrepared \/ NetConnected \/ NetReady \/ NetFails \/ NetRestarts

Next == Product \/ Runtime \/ MaintenancePoll

Spec == Init /\ [][Next]_vars

(* The main loop polls, and a deadline that is waited for passes.          *)
Expires == MaintenancePoll /\ trial'.state # trial.state
FairSpec == Spec /\ WF_vars(Expires)

-----------------------------------------------------------------------------
(* Every variable keeps its type; sessions are never numbered again.       *)
Choice == Config \cup {NoConfig}
Work == [action : Action, session : Session, config : Choice]
TypeOK ==
    /\ trial \in [state : State, session : Session, active : Choice, candidate : Choice]
    /\ slot \in Work /\ work \in Work
    /\ net \in [config : Choice, state : NetState]
    /\ proofs \subseteq Session
    /\ stored \in Choice \cup {Damaged}
    /\ proved \in Choice

(* The configuration in use is the trial's active one, or the stored one   *)
(* before the first trial.                                                 *)
Switch == INSTANCE ConfigSwitch
          WITH current <- IF trial.session = 0 THEN stored ELSE trial.active,
               phase <- IF running(trial) THEN "trying"
                        ELSE IF trial.state = "restoring" THEN "undoing"
                        ELSE IF trial.state = "restore_failed" THEN "stuck"
                        ELSE "settled"

(* Whatever comes late, is refused, fails or expires: the configuration in *)
(* use and the one in Flash change together and only to a candidate whose  *)
(* own proof was accepted, and every other end leaves them as they were    *)
(* (Event, Commit, ConfigStore_Commit).                                    *)
ImplementsConfigSwitch == Switch!Spec

(* An action is handed out only while its trial is at the state that asked *)
(* for it; no action of a candidate is begun once its trial restores, and  *)
(* none of an earlier session (Take, enqueue).                             *)
StateOf(action) ==
    CASE action = "prepare" -> {"preparing"}
      [] action = "connect" -> {"connecting"}
      [] action = "subscribe" -> {"subscribing"}
      [] action = "verify" -> {"verifying"}
      [] action = "commit" -> {"committing"}
      [] action = "restore" -> {"restoring", "restore_failed", "failed"}
ActionInTime ==
    [][work' # work /\ work' # NoWork =>
          work'.session = trial.session /\ trial'.state \in StateOf(work'.action)]_vars

(* The trial never mistakes the progress of another connection for the     *)
(* candidate's: from CONNECTING on the runtime drives the candidate, and   *)
(* before PREPARING and after a failed trial the old configuration.        *)
NetInStep ==
    /\ trial.state \in {"connecting", "subscribing", "verifying", "committing", "committed"}
          => net.config = trial.candidate
    /\ trial.state \in {"wait_accept", "failed"} => net.config = trial.active

(* Every trial that was accepted ends, and so does every restoration.      *)
TrialEnds ==
    timed(trial) \/ trial.state = "restoring" ~> trial.state \in {"committed", "failed", "restore_failed"}
=============================================================================
