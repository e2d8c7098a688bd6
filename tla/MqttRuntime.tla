---------------------------- MODULE MqttRuntime ----------------------------
(***************************************************************************)
(* The MQTT runtime: which configuration the connection uses, and the TLS  *)
(* context, its lease and its binding that a secured one needs first.      *)
(*                                                                         *)
(*   components/mqtt/src/abox_mqtt_runtime.c   phases, stop, safety latch  *)
(*   components/mqtt/src/abox_mqtt_tls.c       binding of the TLS client   *)
(*   components/ec800/src/abox_ec800_tls.c     lease and set-up of the     *)
(*                                             TLS context                 *)
(*                                                                         *)
(* `r` holds ABoxMqttRuntime with its lease, its binding and its command   *)
(* adapter; of `active` only whether there is one, which is all it reads.  *)
(* Every call is one action, with all it calls.  The transport, the modem  *)
(* and the product are external: the transport opens only behind the gate, *)
(* takes a configuration only while closed and brings its own mqtt_stop    *)
(* (MqttTransport), as ABoxMqttRuntimePort_BindCore demands; the adapter   *)
(* answers as in Ec800At.  A full command queue only delays.               *)
(***************************************************************************)
EXTENDS Naturals

CONSTANTS Config, NoConfig,
          Tls, Psk,     \* configurations with tls_enabled, and with mode PSK
          Steps,        \* commands that set up a TLS context (5 or 9)
          Option,       \* the builds: probe_tls_capability, query_clock_mode
          MaxFaults     \* bound on what disturbs a change under way

ASSUME RuntimeAssumption ==
    /\ NoConfig \notin Config /\ Tls \subseteq Config /\ Psk \subseteq Tls
    /\ Steps \in Nat \ {0} /\ MaxFaults \in Nat
    /\ Option \subseteq [probe : BOOLEAN, mode : BOOLEAN]

VARIABLES r,            \* ABoxMqttRuntime
          option,       \* options of this build
          allowed,      \* recovery_allowed of the product
          ca, time,     \* ca_ready, time_valid
          modem,        \* external: the session, the binding, the TLS context
          faults        \* disturbances so far

env == <<option, allowed, ca, time, faults>>
vars == <<r, modem, env>>

Resting == {"READY", "FAILED", "UNENROLLED", "BLOCKED"}
Stageable == {"READY", "FAILED", "UNENROLLED", "PREPARED"}
Stopping == {"STOP_WAIT_DRAIN", "STOP_UNBIND"}
Leaving == Stopping \cup {"DISCONNECT", "UNBIND"}
Connecting == {"PREPARED", "CONNECT", "CONNECTED"}
Securing == {"WAIT_CA", "PROBE_TLS", "CLOCK_MODE", "CLOCK", "PREPARE", "BIND"}
State == Resting \cup Leaving \cup Connecting \cup Securing
(* ABoxAsyncStatus; nothing here tells an error from a timeout or a        *)
(* cancellation.                                                           *)
Async == {"IDLE", "PENDING", "OK", "FAILED", "QUARANTINED"}
Command == {"probe", "mode", "clock", "context", "bind", "unbind"}

(* What one turn meets: a deadline passed or not, its command on the wire  *)
(* or still queued, the transport's answers to apply_config and mqtt_stop  *)
(* (closed or unsafe; a stop that goes on changes nothing).  Of the        *)
(* answers no phase asks for together one combination stands for all.      *)
Turn == {w \in [late : BOOLEAN, wire : BOOLEAN, applies : BOOLEAN, closed : BOOLEAN] :
            (w.wire => w.late) /\ (~w.closed => w.late /\ w.wire /\ w.applies)}

-----------------------------------------------------------------------------
(* The command adapter: one command of the runtime, of the lease or of the *)
(* binding at a time.                                                      *)
Free(x) == x.result # "PENDING" /\ ~x.quarantined

Submit(x, who, cmd) == [x EXCEPT !.op = who, !.result = "PENDING", !.cmd = cmd]

Outcome(x, who) == IF x.op = who THEN x.result ELSE "FAILED"

Drained(x, who, wire) == x.op = who /\ ~x.quarantined /\ (x.result = "PENDING" => ~wire)

Cancel(x, who, wire) ==
    IF x.op # who \/ x.quarantined \/ x.result # "PENDING" THEN x
    ELSE IF wire THEN [x EXCEPT !.quarantined = TRUE, !.result = "FAILED"]
    ELSE [x EXCEPT !.result = "FAILED", !.cmd = "none"]

(* ec800_tls.c: the lease of one context, set up by Steps commands.        *)
LeaseStop(x, wire) ==
    IF ~x.lease_waiting THEN [x EXCEPT !.lease = "FAILED"]
    ELSE [Cancel(x, "lease", wire) EXCEPT
            !.lease = IF Drained(x, "lease", wire) THEN "FAILED" ELSE "QUARANTINED",
            !.lease_waiting = FALSE]

LeaseNext(x) ==
    IF x.step = Steps THEN [x EXCEPT !.lease = "OK"]
    ELSE IF Free(x) THEN [Submit(x, "lease", "context") EXCEPT !.lease_waiting = TRUE] ELSE x

LeasePoll(x, w) ==
    LET s == Outcome(x, "lease")
    IN  IF x.lease # "PENDING" THEN x
        ELSE IF w.late THEN LeaseStop(x, w.wire)
        ELSE IF ~x.lease_waiting THEN LeaseNext(x)
        ELSE IF s = "PENDING" THEN x
        ELSE IF s # "OK" THEN LeaseStop(x, w.wire)
        ELSE LeaseNext([x EXCEPT !.lease_waiting = FALSE, !.step = @ + 1])

(* Release, after the binding is undone.                                   *)
Releasable(x) == x.lease \notin {"none", "PENDING", "QUARANTINED"} /\ ~x.pinned
Released(x) == [x EXCEPT !.lease = "none", !.cred = NoConfig, !.step = 0]

(* mqtt_tls.c: the binding of the TLS client to the leased context.        *)
MayBind(x) == x.bind \notin {"PENDING", "QUARANTINED"}

Begin(x, on) == [x EXCEPT !.bind = "PENDING", !.bind_on = on, !.bind_waiting = FALSE]

BindStop(x, wire) ==
    IF ~x.bind_waiting THEN [x EXCEPT !.bind = "FAILED"]
    ELSE [Cancel(x, "bind", wire) EXCEPT
            !.bind = IF Drained(x, "bind", wire) THEN "FAILED" ELSE "QUARANTINED",
            !.bind_waiting = FALSE]

BindPoll(x, w) ==
    LET s == Outcome(x, "bind")
    IN  IF x.pinned /\ x.lease # "OK"
        THEN IF x.bind = "PENDING" THEN BindStop(x, w.wire) ELSE [x EXCEPT !.bind = "FAILED"]
        ELSE IF x.bind # "PENDING" THEN x
        ELSE IF w.late THEN BindStop(x, w.wire)
        ELSE IF ~x.bind_waiting
        THEN IF Free(x)
             THEN [Submit(x, "bind", IF x.bind_on THEN "bind" ELSE "unbind") EXCEPT !.bind_waiting = TRUE]
             ELSE x
        ELSE IF s = "PENDING" THEN x
        ELSE IF s # "OK" THEN BindStop(x, w.wire)
        ELSE [x EXCEPT !.bind_waiting = FALSE, !.bind = "OK", !.pinned = @ /\ x.bind_on]

-----------------------------------------------------------------------------
(* The gate in front of the transport: set_security_ready and set_paused.  *)
Shut(x) == [x EXCEPT !.gate = FALSE]

(* fail: a failure while leaving, or under quarantine, blocks.             *)
Fail(x) ==
    LET unsafe == x.state \in Leaving \/ x.quarantined
    IN  [Shut(x) EXCEPT !.waiting = 0, !.blocked = @ \/ unsafe,
                        !.state = IF unsafe THEN "BLOCKED" ELSE "FAILED"]

(* ABoxMqttRuntime_Block: what waits is cancelled; what may be in effect   *)
(* in the modem stays leased and pinned.                                   *)
Cancelled(x, wire) ==
    LET b == IF x.bind = "PENDING" THEN BindStop(x, wire) ELSE x
        l == IF b.lease = "PENDING" THEN LeaseStop(b, wire) ELSE b
    IN  Cancel(l, l.op, wire)

Block(x, wire) ==
    IF x.locked THEN x
    ELSE [Shut(Cancelled(x, wire)) EXCEPT
            !.blocked = TRUE, !.locked = TRUE, !.waiting = 0, !.state = "BLOCKED"]

(* apply_config, then the gate opens on the configuration.                 *)
Prepared(x) == [x EXCEPT !.applied = x.requested, !.gate = TRUE, !.state = "PREPARED"]

(* start, and the fail of every caller when apply_config refuses.          *)
Start(x, w, closed) ==
    IF ~allowed THEN Block(x, w.wire)
    ELSE IF x.requested \in Tls THEN [x EXCEPT !.state = "WAIT_CA"]
    ELSE IF w.applies /\ closed THEN Prepared([x EXCEPT !.active_tls = FALSE])
    ELSE Fail(x)

(* prepare_tls: acquires the context and begins its set-up.                *)
PrepareTls(x) ==
    IF x.lease # "none" \/ (option.probe /\ ~x.probed) THEN Fail(x)
    ELSE IF x.requested \notin Psk /\ ~(ca /\ time) THEN Fail([x EXCEPT !.lease = "IDLE"])
    ELSE [x EXCEPT !.lease = "PENDING", !.cred = x.requested, !.step = 0, !.state = "PREPARE"]

(* ABoxMqttTls_Unbind, on the way to state s.                              *)
Unbind(x, s) == IF MayBind(x) THEN [Begin(x, FALSE) EXCEPT !.state = s] ELSE Fail(x)

StopComplete(x) ==
    [x EXCEPT !.active = FALSE, !.requested = NoConfig, !.staged = FALSE,
              !.active_tls = FALSE, !.waiting = 0, !.state = "UNENROLLED"]

-----------------------------------------------------------------------------
(* ABoxMqttRuntime_Init, without configuration or with one that start takes*)
Blank == [state |-> "FAILED", requested |-> NoConfig, active |-> FALSE, staged |-> FALSE,
          waiting |-> 0, active_tls |-> FALSE, blocked |-> FALSE, locked |-> FALSE,
          probed |-> FALSE, gate |-> FALSE, applied |-> NoConfig,
          lease |-> "none", lease_waiting |-> FALSE, step |-> 0, cred |-> NoConfig,
          bind |-> "IDLE", bind_on |-> FALSE, bind_waiting |-> FALSE, pinned |-> FALSE,
          op |-> "none", result |-> "IDLE", cmd |-> "none", quarantined |-> FALSE]

NewModem == [open |-> FALSE, bound |-> FALSE, context |-> NoConfig]

Init ==
    /\ option \in Option /\ allowed \in BOOLEAN /\ ca \in BOOLEAN /\ time = FALSE
    /\ modem = NewModem /\ faults = 0
    /\ \/ r = Blank
       \/ \E c \in Config, w \in Turn :
            w.applies /\ r = Start([Blank EXCEPT !.requested = c], w, TRUE)

Stay == UNCHANGED <<modem, env>>

(* Staging, activating or restoring during a change is a disturbance.      *)
Disturbs == IF r.state \in Resting THEN UNCHANGED faults
            ELSE faults < MaxFaults /\ faults' = faults + 1

(* ABoxMqttRuntime_Stage: `requested` is the staged candidate from here on.*)
Stage(c) ==
    IF ~allowed THEN \E wire \in BOOLEAN : r' = Block(r, wire) /\ UNCHANGED faults
    ELSE /\ ~r.blocked /\ r.state \in Stageable
         /\ r' = [r EXCEPT !.requested = c, !.staged = TRUE]
         /\ Disturbs

(* Faulty variant: the transport keeps its gate while it is replaced.      *)
ActivatedOpen(x) == [x EXCEPT !.staged = FALSE, !.waiting = 0, !.state = "DISCONNECT"]

Activated(x) == [Shut(x) EXCEPT !.staged = FALSE, !.waiting = 0, !.state = "DISCONNECT"]

(* ABoxMqttRuntime_Activate                                                *)
Activate ==
    /\ ~r.blocked /\ r.state \in Stageable /\ r.staged
    /\ r' = Activated(r)
    /\ Disturbs

(* ABoxMqttRuntime_Restore: gives up a connection under way, then stages   *)
(* and activates.                                                          *)
Restore(c) ==
    LET x == IF r.state \in Connecting THEN [Shut(r) EXCEPT !.state = "FAILED"] ELSE r
    IN  IF ~allowed THEN \E wire \in BOOLEAN : r' = Block(x, wire) /\ UNCHANGED faults
        ELSE /\ IF ~x.blocked /\ x.state \in Stageable
                THEN r' = Activated([x EXCEPT !.requested = c]) ELSE r' = x
             /\ Disturbs

(* Faulty variant: a lease of a connection that never came up is forgotten.*)
StopFirstForgets ==
    /\ ~r.blocked /\ r.state \in {"READY", "FAILED", "PREPARED"}
    /\ r' = [Shut(r) EXCEPT !.waiting = 0, !.state = "STOP_WAIT_DRAIN"]
    /\ UNCHANGED faults

(* ABoxMqttRuntime_StopFirst; called in other states it only answers.      *)
StopFirst ==
    /\ ~r.blocked /\ r.state \in {"READY", "FAILED", "PREPARED"}
    /\ r' = IF r.lease # "none" /\ ~r.active_tls
            THEN [Shut(r) EXCEPT !.blocked = TRUE, !.state = "BLOCKED"]
            ELSE [Shut(r) EXCEPT !.waiting = 0, !.state = "STOP_WAIT_DRAIN"]
    /\ UNCHANGED faults

(* The product blocks explicitly.                                          *)
BlockNow == \E wire \in BOOLEAN : r' = Block(r, wire) /\ UNCHANGED faults

(* ABoxMqttRuntime_RecoveryComplete, with the client idle.                 *)
RecoveryComplete ==
    /\ r.blocked /\ allowed /\ ~r.quarantined /\ r.result # "PENDING" /\ r.lease = "none"
    /\ r' = [r EXCEPT !.blocked = FALSE, !.locked = FALSE,
                      !.state = IF r.active THEN "FAILED" ELSE "UNENROLLED"]
    /\ UNCHANGED faults

Product ==
    /\ \/ \E c \in Config : Stage(c) \/ Restore(c)
       \/ Activate \/ StopFirst \/ BlockNow \/ RecoveryComplete
    /\ UNCHANGED <<modem, option, allowed, ca, time>>

-----------------------------------------------------------------------------
(* ABoxMqttRuntime_Poll, by phase.  Result of the runtime's own command.   *)
Own == Outcome(r, "runtime")

Ask(x, cmd) == Submit(x, "runtime", cmd)

(* READY: the modem's clock is asked for while the time is not valid.      *)
PollReady(w) ==
    LET rest == [r EXCEPT !.waiting = 0]
        first == IF option.mode THEN "mode" ELSE "clock"
    IN  /\ r.state = "READY"
        /\ r.waiting # 0 => Own # "PENDING"
        /\ r' = IF r.waiting = 2 /\ Own = "OK"
                THEN IF Free(r) THEN [Ask(r, "clock") EXCEPT !.waiting = 1] ELSE rest
                ELSE IF r.waiting = 0 /\ ~time /\ w.late /\ Free(r)
                THEN [Ask(r, first) EXCEPT !.waiting = IF option.mode THEN 2 ELSE 1]
                ELSE rest
        /\ Stay

(* mqtt_stop: the session is closed when it returns 1.                     *)
TransportStops(w) ==
    modem' = IF w.closed THEN [modem EXCEPT !.open = FALSE] ELSE modem

PollDisconnect(w) ==
    /\ r.state = "DISCONNECT"
    /\ r' = IF ~w.closed THEN Fail(r)
            ELSE IF r.active_tls THEN Unbind(r, "UNBIND")
            ELSE Start(r, w, TRUE)
    /\ TransportStops(w) /\ UNCHANGED env

PollStop(w) ==
    /\ r.state = "STOP_WAIT_DRAIN"
    /\ r' = IF ~w.closed THEN Fail(r)
            ELSE IF r.active_tls THEN Unbind(r, "STOP_UNBIND")
            ELSE StopComplete(r)
    /\ TransportStops(w) /\ UNCHANGED env

(* UNBIND and STOP_UNBIND: unbound, the lease is released.                 *)
PollUnbind(w) ==
    LET x == BindPoll(r, w)
    IN  /\ r.state \in {"UNBIND", "STOP_UNBIND"}
        /\ r' = IF x.bind = "PENDING" THEN x
                ELSE IF x.bind # "OK" \/ ~Releasable(x) THEN Fail(x)
                ELSE IF r.state = "STOP_UNBIND" THEN StopComplete(Released(x))
                ELSE Start([Released(x) EXCEPT !.active_tls = FALSE], w, ~modem.open)
        /\ Stay

(* Faulty variant: a connection may take for ever.                         *)
PollConnectPatient(w) ==
    r.state = "CONNECT" /\ modem.open /\ r' = [r EXCEPT !.state = "CONNECTED"] /\ Stay

(* CONNECT and CONNECTED end when the session is connected, when it is     *)
(* subscribed, or at a deadline.  Subscribed, it commits what is requested.*)
PollConnect(w) ==
    /\ r.state = "CONNECT"
    /\ \/ modem.open /\ r' = [r EXCEPT !.state = "CONNECTED"]
       \/ w.late /\ r' = Fail(r)
    /\ Stay

PollConnected(w) ==
    /\ r.state = "CONNECTED"
    /\ \/ modem.open /\ r' = [r EXCEPT !.active = TRUE, !.state = "READY"]
       \/ w.late /\ r' = Fail(r)
    /\ Stay

PollPrepared == r.state = "PREPARED" /\ r' = [r EXCEPT !.state = "CONNECT"] /\ Stay

PollWaitCa ==
    /\ r.state = "WAIT_CA"
    /\ r.requested \in Psk \/ ca
    /\ IF option.probe /\ ~r.probed
       THEN Free(r) /\ r' = [Ask(r, "probe") EXCEPT !.state = "PROBE_TLS"]
       ELSE IF r.requested \in Psk THEN r' = PrepareTls(r)
       ELSE /\ Free(r)
            /\ r' = IF option.mode THEN [Ask(r, "mode") EXCEPT !.state = "CLOCK_MODE"]
                    ELSE [Ask(r, "clock") EXCEPT !.state = "CLOCK"]
    /\ Stay

PollClockMode ==
    /\ r.state = "CLOCK_MODE" /\ Own # "PENDING"
    /\ IF Own # "OK" THEN r' = Fail(r)
       ELSE Free(r) /\ r' = [Ask(r, "clock") EXCEPT !.state = "CLOCK"]
    /\ Stay

(* PROBE_TLS: an unsupported context cannot be repaired by a reset.        *)
PollProbe ==
    /\ r.state = "PROBE_TLS" /\ Own # "PENDING"
    /\ \E supported \in BOOLEAN :
         r' = IF Own = "OK" /\ ~supported
              THEN Fail([r EXCEPT !.locked = TRUE, !.blocked = TRUE])
              ELSE IF Own # "OK" \/ r.lease # "none" THEN Fail(r)
              ELSE [r EXCEPT !.probed = TRUE, !.state = "WAIT_CA"]
    /\ Stay

PollClock ==
    /\ r.state = "CLOCK" /\ Own # "PENDING"
    /\ r' = IF Own # "OK" \/ ~time THEN Fail(r) ELSE PrepareTls(r)
    /\ Stay

PollPrepare(w) ==
    LET x == LeasePoll(r, w)
    IN  /\ r.state = "PREPARE"
        /\ r' = IF x.lease = "PENDING" THEN x
                ELSE IF x.lease # "OK" \/ x.pinned \/ ~MayBind(x) THEN Fail(x)
                ELSE [Begin(x, TRUE) EXCEPT !.pinned = TRUE, !.state = "BIND"]
        /\ Stay

PollBind(w) ==
    LET x == BindPoll(r, w)
    IN  /\ r.state = "BIND"
        /\ r' = IF x.bind = "PENDING" THEN x
                ELSE IF x.bind # "OK" \/ ~(w.applies /\ ~modem.open) THEN Fail(x)
                ELSE Prepared([x EXCEPT !.active_tls = TRUE])
        /\ Stay

Poll(w) ==
    IF ~allowed THEN r' = Block(r, w.wire) /\ Stay
    ELSE \/ PollReady(w) \/ PollDisconnect(w) \/ PollStop(w) \/ PollUnbind(w)
         \/ PollConnect(w) \/ PollConnected(w) \/ PollPrepared
         \/ PollWaitCa \/ PollClockMode \/ PollProbe \/ PollClock
         \/ PollPrepare(w) \/ PollBind(w)

-----------------------------------------------------------------------------
(* RDY: client, lease and binding are new, then the runtime decides what   *)
(* goes on.  A reset nobody waited for is a disturbance.                   *)
Reborn ==
    [r EXCEPT !.probed = FALSE, !.lease = "none", !.lease_waiting = FALSE, !.step = 0,
              !.cred = NoConfig, !.bind = "IDLE", !.bind_on = FALSE, !.bind_waiting = FALSE,
              !.pinned = FALSE, !.op = "none", !.result = "IDLE", !.cmd = "none",
              !.quarantined = FALSE, !.active_tls = FALSE, !.waiting = 0, !.gate = FALSE]

(* Faulty variant: a reset also clears the safety latch.                   *)
ResumedUnlocked(x, w) ==
    LET y == [x EXCEPT !.blocked = FALSE]
    IN  IF ~allowed THEN Block(x, FALSE)
        ELSE IF x.state \in Stopping THEN StopComplete(y)
        ELSE IF x.requested = NoConfig \/ x.staged THEN [y EXCEPT !.state = "FAILED"]
        ELSE Start(y, w, TRUE)

Resumed(x, w) ==
    LET y == [x EXCEPT !.blocked = FALSE]
    IN  IF ~allowed THEN Block(x, FALSE)
        ELSE IF x.locked THEN [x EXCEPT !.state = "BLOCKED"]
        ELSE IF x.state \in Stopping THEN StopComplete(y)
        ELSE IF x.requested = NoConfig \/ x.staged THEN [y EXCEPT !.state = "FAILED"]
        ELSE Start(y, w, TRUE)

OnModemReset ==
    /\ \E w \in Turn : r' = Resumed(Reborn, w)
    /\ modem' = NewModem
    /\ IF r.quarantined THEN UNCHANGED faults ELSE Disturbs
    /\ UNCHANGED <<option, allowed, ca, time>>

(* What the modem does when a command takes effect.                        *)
Effect ==
    CASE r.cmd = "bind"    -> [modem EXCEPT !.bound = TRUE]
      [] r.cmd = "unbind"  -> [modem EXCEPT !.bound = FALSE]
      [] r.cmd = "context" -> [modem EXCEPT !.context = IF r.step + 1 = Steps THEN r.cred ELSE NoConfig]
      [] OTHER             -> modem

(* The command is answered; one that is refused may have had its effect.   *)
Answer ==
    /\ r.result = "PENDING"
    /\ \/ /\ r' = [r EXCEPT !.result = "OK", !.cmd = "none"]
          /\ modem' = Effect
          /\ time' \in {time, time \/ r.cmd = "clock"}
       \/ /\ r' = [r EXCEPT !.result = "FAILED", !.cmd = "none"]
          /\ modem' \in {modem, Effect}
          /\ UNCHANGED time
    /\ UNCHANGED <<option, allowed, ca, faults>>

(* A timeout or a failed write, of this owner or another, closes the       *)
(* session; a command already sent may still take effect.                  *)
Quarantine ==
    /\ ~r.quarantined /\ faults < MaxFaults
    /\ \E sent \in BOOLEAN :
         r' = [r EXCEPT !.quarantined = TRUE, !.cmd = IF sent THEN @ ELSE "none",
                        !.result = IF @ = "PENDING" THEN "FAILED" ELSE @]
    /\ faults' = faults + 1
    /\ UNCHANGED <<modem, option, allowed, ca, time>>

LateEffect ==
    /\ r.result # "PENDING" /\ r.cmd # "none"
    /\ r' = [r EXCEPT !.cmd = "none"] /\ modem' = Effect
    /\ UNCHANGED env

(* The session of the transport: it opens only behind the gate, and may    *)
(* close by itself at any time.                                            *)
Link ==
    /\ modem.open \/ (r.gate /\ ~r.quarantined)
    /\ modem' = [modem EXCEPT !.open = ~@]
    /\ UNCHANGED <<r, env>>

(* The product's answers change: the CA file arrives, recovery is allowed  *)
(* or not.                                                                 *)
World ==
    /\ ca' \in {ca, TRUE} /\ allowed' \in BOOLEAN
    /\ UNCHANGED <<r, modem, option, time, faults>>

Next == \/ Product
        \/ \E w \in Turn : Poll(w)
        \/ OnModemReset \/ Answer \/ Quarantine \/ LateEffect \/ Link \/ World

(* The product polls, time passes, the transport's stop ends (StopEnds of  *)
(* MqttTransport), the AT client answers or times out, and a quarantined   *)
(* modem is restarted (recover of abox_app_service.c).                     *)
Fairness ==
    /\ WF_vars(\E w \in Turn : w.late /\ Poll(w))
    /\ WF_vars(Answer)
    /\ WF_vars(r.quarantined /\ OnModemReset)

Spec == Init /\ [][Next]_vars /\ Fairness

-----------------------------------------------------------------------------
(* Every variable has its type, and a set-up stays within its steps.       *)
TypeOK ==
    /\ r \in [state : State, requested : Config \cup {NoConfig}, active : BOOLEAN,
              staged : BOOLEAN, waiting : 0..2, active_tls : BOOLEAN, blocked : BOOLEAN,
              locked : BOOLEAN, probed : BOOLEAN, gate : BOOLEAN, applied : Config \cup {NoConfig},
              lease : Async \cup {"none"}, lease_waiting : BOOLEAN, step : 0..Steps,
              cred : Config \cup {NoConfig}, bind : Async, bind_on : BOOLEAN,
              bind_waiting : BOOLEAN, pinned : BOOLEAN,
              op : {"none", "runtime", "lease", "bind"}, result : Async,
              cmd : Command \cup {"none"}, quarantined : BOOLEAN]
    /\ option \in Option /\ allowed \in BOOLEAN /\ ca \in BOOLEAN /\ time \in BOOLEAN
    /\ modem \in [open : BOOLEAN, bound : BOOLEAN,
                  context : Config \cup {NoConfig}]
    /\ faults \in 0..MaxFaults

(* No silent downgrade: whenever the transport has, or opens, a session of *)
(* a TLS configuration, its client is bound to the TLS context and that    *)
(* context holds this configuration's credentials, whatever was cancelled, *)
(* timed out, reset or staged in between.  (prepare_tls, the BIND and      *)
(* UNBIND phases, and the gate of Activate, Restore, fail and OnModemReset)*)
Secured ==
    modem.open /\ r.applied \in Tls => modem.bound /\ modem.context = r.applied

(* While the safety latch is set nothing connects and nothing is tried:    *)
(* neither a restart of the modem, nor a restore, nor a later permission   *)
(* leads out of BLOCKED or FAILED.  (safety_locked)                        *)
LockedIsShut ==
    r.locked => r.blocked /\ ~r.gate /\ r.state \in {"BLOCKED", "FAILED"}

(* A stop ends clean: it reaches UNENROLLED only with the session closed   *)
(* and the TLS context unbound and given back, also when the last change   *)
(* failed half way or the modem restarts on the way.  (StopFirst,          *)
(* stop_poll, and OnModemReset in the STOP phases)                         *)
Clean == ~modem.open /\ ~r.gate /\ r.lease = "none" /\ ~r.pinned
StopIsClean == [][r.state \in Stopping /\ r'.state = "UNENROLLED" => Clean']_vars

(* A change of configuration comes to rest, READY or refused, unless it    *)
(* waits for a CA file the product has not: every phase has a deadline, an *)
(* answer or the restart of the modem to end it.  (ABoxMqttRuntime_Poll)   *)
AtRest == r.state \in Resting \/ (r.state = "WAIT_CA" /\ ~ca /\ r.requested \notin Psk)
Settles == ~AtRest ~> AtRest
=============================================================================
