----------------------------- MODULE AppService -----------------------------
(***************************************************************************)
(* The App's main loop around the modem: the receiver that an interrupt    *)
(* fills and the loop empties, its restart after a lost byte, and the      *)
(* power cycle that reopens an AT session nobody can trust any more.       *)
(*                                                                         *)
(*   components/ec800/src/abox_ec800_rx.c            the receiver          *)
(*   components/cloud/src/abox_app_service.c         the main loop         *)
(*   components/ec_power/src/ec_power.c              the modem's supply    *)
(*   components/ec_power/src/abox_ec800_recovery.c   the cooldown          *)
(*                                                                         *)
(* Interrupts come between any two steps of a poll.  Bytes are numbered by *)
(* their place in the modem's stream.  Delays are the freedom to elapse,   *)
(* but for the cooldown, whose arithmetic on a wrapping tick is kept.  The *)
(* ports of a product that always enables its communication are assumed.   *)
(***************************************************************************)
EXTENDS Integers

CONSTANTS RingSize,      \* size of the drain ring
          CounterRange,  \* head and tail count modulo this
          Span,          \* bound on the bytes of one DMA event
          Serials,       \* bytes are numbered modulo this
          TickRange,     \* the millisecond tick counts modulo this
          Cooldown       \* least time between two power cycles

ASSUME AppAssumption ==
    /\ {RingSize, CounterRange, Span, Serials, TickRange, Cooldown} \subseteq Nat \ {0}
    /\ RingSize < CounterRange
    /\ TickRange % 2 = 0 /\ Cooldown < TickRange \div 2

VARIABLES stage,              \* where the poll is
          rx,                 \* the receiver: head, tail, ring, restart_requested
          rx_starting, rx_failed,
          quarantined,        \* the AT client
          power,              \* state of the power sequence
          reset_pending,
          waiting,            \* of the recovery
          ahead,              \* now - next_restart_ms, once it waits
          held,               \* an OTA transfer or maintenance forbids a restart
          serial,             \* external: number of the next byte the modem sends
          fed,                \* history: number of the byte the client expects
          torn,               \* history: it was fed a byte that does not follow
          since               \* history: time since the last power cycle

rxvars == <<rx, rx_starting, rx_failed>>
recoveryvars == <<waiting, ahead, since>>
streamvars == <<serial, fed, torn>>
loopvars == <<stage, rx, rx_starting, rx_failed, quarantined, power, reset_pending,
          waiting, ahead, since, held, serial, fed, torn>>

Serial == 0..Serials - 1
AnyByte == Serials            \* after a break the client was told of
After(n, k) == (n + k) % Serials

-----------------------------------------------------------------------------
(* The receiver.                                                           *)
Index(n) == n % RingSize
Backlog(r) == (r.head - r.tail) % CounterRange

(* push_span: the bytes from `first` on, all of them or none.              *)
Pushed(r, first, length) ==
    IF length = 0 THEN r
    ELSE IF length > RingSize - Backlog(r) THEN [r EXCEPT !.restart_requested = TRUE]
    ELSE [r EXCEPT !.head = (@ + length) % CounterRange,
                   !.ring = [i \in 0..RingSize - 1 |->
                               LET k == CHOOSE k \in 0..RingSize - 1 : Index(r.head + k) = i
                               IN  IF k < length THEN After(first, k) ELSE r.ring[i]]]

(* OnDmaEvent: the DMA buffer's end may part the bytes into two spans; a   *)
(* receiver that waits for its restart takes none.                         *)
OnDmaEvent ==
    /\ \E length \in 1..Span : \E part \in 0..length :
          LET one == Pushed(rx, serial, part)
              two == Pushed(one, After(serial, part), length - part)
          IN  /\ serial' = After(serial, length)
              /\ rx' = IF rx.restart_requested THEN rx
                       ELSE IF one.restart_requested THEN one ELSE two
    /\ UNCHANGED <<stage, rx_starting, rx_failed, quarantined, power, reset_pending, recoveryvars,
                   held, fed, torn>>

(* The UART reports an error: bytes were lost, reception must restart.     *)
UartError ==
    /\ serial' \in Serial \ {serial}
    /\ rx' = [rx EXCEPT !.restart_requested = TRUE]
    /\ UNCHANGED <<stage, rx_starting, rx_failed, quarantined, power, reset_pending, recoveryvars,
                   held, fed, torn>>

-----------------------------------------------------------------------------
(* AbortAll and OnModemReset, as far as the loop sees them.                *)
AbortAll == quarantined' = TRUE /\ fed' = AnyByte
SessionGoesOn == UNCHANGED <<quarantined, fed>>

(* Faulty variant: the client's commands end, but only RDY opens it.       *)
OnModemResetUntold == AbortAll

OnModemReset == quarantined' = FALSE /\ fed' = AnyByte

ReceiverRestarts == /\ rx_starting' = TRUE /\ rx_failed' = FALSE
                    /\ rx' = [rx EXCEPT !.restart_requested = TRUE]

PowerAfter(s) == CASE s = "restart_wait" -> "off_hold"
                   [] s = "off_hold"     -> "rail_stable"
                   [] s = "rail_stable"  -> "key_hold"
                   [] OTHER              -> "done"

(* ABoxAppService_Poll begins: EC_Power_Task, and a finished power cycle.  *)
(* Some milliseconds passed since the last poll; a transfer or maintenance *)
(* needs an open session to begin.                                         *)
PollBegins(milliseconds) ==
    /\ stage = "idle" /\ stage' = "take"
    /\ ahead' = IF waiting THEN (ahead + milliseconds) % TickRange ELSE 0
    /\ since' = IF waiting /\ since < Cooldown THEN since + milliseconds ELSE since
    /\ held' \in IF quarantined THEN {held, FALSE} ELSE BOOLEAN
    /\ power' \in {power, PowerAfter(power)}
    /\ IF reset_pending /\ power' = "done"
       THEN reset_pending' = FALSE /\ ReceiverRestarts /\ OnModemReset
       ELSE UNCHANGED <<reset_pending, rxvars>> /\ SessionGoesOn
    /\ UNCHANGED <<waiting, serial, torn>>

(* Faulty variant: the session goes on over the break.                     *)
BreakUntold == SessionGoesOn

Break == IF rx_starting THEN SessionGoesOn ELSE AbortAll

(* The first attempt to restart comes at once, the next ones are timed.    *)
TakeRequest ==
    /\ stage = "take"
    /\ rx' = [rx EXCEPT !.restart_requested = FALSE]
    /\ IF rx.restart_requested /\ ~rx_failed
       THEN Break /\ rx_failed' = TRUE /\ stage' = "restart"
       ELSE /\ SessionGoesOn /\ UNCHANGED rx_failed
            /\ stage' = IF rx_failed THEN "retry" ELSE "drain"
    /\ UNCHANGED <<rx_starting, power, reset_pending, recoveryvars, held, serial, torn>>

(* AfterRestart                                                            *)
Restarted(r) == [r EXCEPT !.head = 0, !.tail = 0, !.restart_requested = FALSE]

(* restart_rx stops the reception, clears the receiver and starts it       *)
(* again; an error may come while it does.                                 *)
RestartSucceeds ==
    /\ stage \in {"restart", "retry"} /\ stage' = "drain"
    /\ rx_starting' = FALSE /\ rx_failed' = FALSE
    /\ rx' = Restarted(rx)
    /\ serial' \in Serial
    /\ SessionGoesOn
    /\ UNCHANGED <<power, reset_pending, recoveryvars, held, torn>>

RestartFails ==
    /\ stage \in {"restart", "retry"} /\ stage' = "recover"
    /\ rx_starting' = FALSE
    /\ \E r \in {rx, Restarted(rx)} : rx' = [r EXCEPT !.restart_requested = TRUE]
    /\ AbortAll
    /\ UNCHANGED <<rx_failed, power, reset_pending, recoveryvars, held, serial, torn>>

RestartWaits ==
    /\ stage = "retry" /\ stage' = "recover"
    /\ rx' = [rx EXCEPT !.restart_requested = TRUE]
    /\ SessionGoesOn
    /\ UNCHANGED <<rx_starting, rx_failed, power, reset_pending, recoveryvars, held, serial, torn>>

(* ABoxEc800At_Task and all that follows: a timeout may close the session. *)
Work == quarantined' \in {quarantined, TRUE}

(* Drain looks at the request once, and then takes spans until the ring is *)
(* empty.  What is fed may close the session, and RDY opens it.            *)
DrainBegins ==
    /\ stage = "drain"
    /\ IF rx.restart_requested THEN stage' = "recover" /\ Work
                               ELSE stage' = "draining" /\ UNCHANGED quarantined
    /\ UNCHANGED <<rxvars, power, reset_pending, recoveryvars, held, streamvars>>

Available == LET rest == RingSize - Index(rx.tail)
             IN  IF rest < Backlog(rx) THEN rest ELSE Backlog(rx)

DrainSpan ==
    /\ stage = "draining" /\ Available > 0
    /\ LET byte(k) == rx.ring[Index(rx.tail + k)] IN
       /\ fed' = After(byte(Available - 1), 1)
       /\ torn' = (\/ torn
                   \/ fed \notin {AnyByte, byte(0)}
                   \/ \E k \in 1..Available - 1 : byte(k) # After(byte(k - 1), 1))
    /\ rx' = [rx EXCEPT !.tail = (@ + Available) % CounterRange]
    /\ quarantined' \in BOOLEAN
    /\ UNCHANGED <<stage, rx_starting, rx_failed, power, reset_pending, recoveryvars, held, serial>>

DrainEnds ==
    /\ stage = "draining" /\ Available = 0
    /\ stage' = "recover" /\ Work
    /\ UNCHANGED <<rxvars, power, reset_pending, recoveryvars, held, streamvars>>

(* Faulty variant: the difference is compared as an unsigned number.       *)
CooledDownUnsigned == ~waiting \/ ahead >= 0

(* ABoxEc800Recovery_Poll: (int32_t)(now_ms - next_restart_ms) < 0 waits.  *)
CooledDown == ~waiting \/ ahead < TickRange \div 2

CanRestart == power = "done" /\ ~held

(* recover, called once in every poll whatever gates the cloud.  An error  *)
(* of the transport asks for it as much as a closed session does.          *)
PowerCycle ==
    /\ stage = "recover" /\ stage' = "idle"
    /\ CanRestart /\ CooledDown
    /\ AbortAll
    /\ power' \in {"restart_wait", "off_hold"}
    /\ reset_pending' = TRUE
    /\ waiting' = TRUE /\ ahead' = (0 - Cooldown) % TickRange /\ since' = 0
    /\ UNCHANGED <<rxvars, held, serial, torn>>

NoPowerCycle ==
    /\ stage = "recover" /\ stage' = "idle"
    /\ quarantined => ~(CanRestart /\ CooledDown)
    /\ UNCHANGED <<rxvars, quarantined, power, reset_pending, recoveryvars, held, streamvars>>

-----------------------------------------------------------------------------
LoopInit ==
    /\ stage = "idle"
    /\ rx = [head |-> 0, tail |-> 0, ring |-> [i \in 0..RingSize - 1 |-> 0],
             restart_requested |-> TRUE]
    /\ rx_starting = TRUE /\ rx_failed = FALSE
    /\ quarantined = FALSE
    /\ power = "off_hold" /\ reset_pending = FALSE
    /\ waiting = FALSE /\ ahead = 0 /\ since = 0 /\ held = FALSE
    /\ serial = 0 /\ fed = AnyByte /\ torn = FALSE

(* The loop polls at least once in a millisecond.                          *)
Begins == \E milliseconds \in {0, 1} : PollBegins(milliseconds)

Poll == \/ Begins \/ TakeRequest
        \/ RestartSucceeds \/ RestartFails \/ RestartWaits
        \/ DrainBegins \/ DrainSpan \/ DrainEnds
        \/ PowerCycle \/ NoPowerCycle

LoopNext == Poll \/ OnDmaEvent \/ UartError

LoopSpec == LoopInit /\ [][LoopNext]_loopvars

(* The loop polls, time passes, a delay of the power sequence ends, and so *)
(* does what holds a restart back; the ring is found empty in the end.     *)
FairLoopSpec == /\ LoopSpec
                /\ WF_loopvars(Poll)
                /\ SF_loopvars(PollBegins(1))
                /\ SF_loopvars(Begins /\ power' # power)
                /\ SF_loopvars(Begins /\ ~held')
                /\ SF_loopvars(DrainEnds)

-----------------------------------------------------------------------------
(* The client is fed the modem's bytes without a gap, a repetition or a    *)
(* swap, unless it was told of the break before the first byte behind it:  *)
(* an overflow ends the running command and restarts the receiver          *)
(* (push_span, Drain, ABoxAppService_Poll).                                *)
NeverTorn == ~torn

(* Two power cycles are never closer than the cooldown.                    *)
RestartsSpaced == [][reset_pending' /\ ~reset_pending /\ waiting => since >= Cooldown]_loopvars

(* A session that was closed is opened again, by RDY or by a power cycle,  *)
(* even while the receiver cannot be restarted (recover).                  *)
SessionReopens == quarantined ~> ~quarantined

(* Once the cooldown is over, a closed session that may be restarted is.   *)
CooldownIsBounded ==
    [][ stage = "recover" /\ stage' = "idle" /\ quarantined /\ CanRestart /\ since >= Cooldown
        => reset_pending' ]_loopvars
=============================================================================
