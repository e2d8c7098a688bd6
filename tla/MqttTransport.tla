--------------------------- MODULE MqttTransport ---------------------------
(***************************************************************************)
(* The MQTT session over the modem: configure, open, connect, subscribe,   *)
(* publish one message at a time, close, drain, and either try again or    *)
(* come to rest.                                                           *)
(*                                                                         *)
(*   components/mqtt/src/abox_mqtt_ec800.c          the transport          *)
(*   components/mqtt/src/abox_mqtt_ec800_bridge.c   who may start it when  *)
(*                                                                         *)
(* `m` holds the transport's fields and its one command at the AT client.  *)
(* Everything runs on one thread: a call, a line and a turn of Poll are    *)
(* each one action.  The replies and the result lines of the modem come    *)
(* one by one, late or never; a deadline may pass at any moment.           *)
(* RequestReconnect, which nothing under src/ calls, is left out.          *)
(***************************************************************************)
EXTENDS Naturals, Sequences, FiniteSets

CONSTANTS Config,       \* endpoints
          NoConfig,
          Subs,         \* subscription_count
          MaxOps,       \* bound on the publishes
          MaxOpens      \* bound on the clients the modem opens

Rest == {"IDLE", "PAUSED"}
State == Rest \cup {"CONFIGURING", "OPENING", "CONNECTING", "SUBSCRIBING", "READY",
                    "CLOSING", "RETRY_WAIT", "BLOCKED"}
Step == {"setup", "reg", "attach_query", "attach", "pdp_query", "apn", "activate", "verify"}
Command == {"none", "setup", "open", "conn", "sub", "disc", "close", "pub"}

ASSUME MqttAssumption ==
    /\ NoConfig \notin Config
    /\ Subs \in Nat /\ MaxOps \in Nat /\ MaxOpens \in Nat

VARIABLES m,            \* ABoxMqttEc800, and its command at the AT client
          modem         \* external: the modem's MQTT client and what it has yet to say

vars == <<m, modem>>

-----------------------------------------------------------------------------
(* change(state), published(event).  What belongs to one phase or to one   *)
(* publish is set when that begins and is shown as 0 outside it.           *)
Change(x, state) ==
    [x EXCEPT !.state = state, !.pending = FALSE, !.result = "none", !.urc = "none",
              !.code = "none", !.step = "setup", !.closing = 0, !.sub = 0]

Tell(x, event) == IF x.op = 0 THEN x ELSE [x EXCEPT !.told = Append(@, event)]

Settle(x, event) == [Tell(x, event) EXCEPT !.active = FALSE, !.prompt = FALSE, !.op = 0, !.msg = 0]

FailPublish(x) == IF x.active THEN Settle(x, "failed") ELSE x

(* The AT client is through with the command, one way or another (done).   *)
Done(x, result) ==
    LET y == [x EXCEPT !.pending = FALSE, !.result = IF result = "OK" THEN "ok" ELSE "failed",
                       !.cmd = "none", !.stage = "none"]
    IN  IF result = "OK" THEN y
        ELSE [FailPublish(y) EXCEPT !.quarantined = @ \/ result = "TIMEOUT",
                                    !.close = @ \/ y.state = "READY"]

Quarantine(x) ==
    LET y == [x EXCEPT !.quarantined = TRUE]
    IN  IF y.cmd = "none" THEN y ELSE Done(y, "ERROR")

Blocked(x) == Change(Quarantine(x), "BLOCKED")

Submit(x, cmd, room) ==
    IF x.pending \/ x.quarantined \/ ~room THEN x
    ELSE [x EXCEPT !.cmd = cmd, !.stage = "queued", !.pending = TRUE, !.result = "none"]

(* command_expired: a queued command does not age, one on the wire does.   *)
Expired(x, late) == late /\ (x.pending => x.stage \in {"wire", "data", "given"})

FailClosed(x) ==
    LET y == FailPublish(x)
        refused == x.state = "CONNECTING" /\ x.urc = "failed" /\ x.code = "refused"
    IN  IF y.pending \/ y.quarantined THEN Blocked(y)
        ELSE IF y.state = "CONFIGURING" THEN Change(y, "RETRY_WAIT")
        ELSE [Change(y, "CLOSING") EXCEPT !.closing = IF refused THEN 2 ELSE 0]

-----------------------------------------------------------------------------
(* What a turn of Poll cannot foresee: whether the deadline of the phase   *)
(* has passed, whether the AT client has a slot, what a query has answered *)
(* and whether nothing has come for URC_DRAIN_MS.                          *)
Turn == [late : BOOLEAN, room : BOOLEAN, good : BOOLEAN, quiet : BOOLEAN]

Unsent(x) == ~x.pending /\ x.result = "none"

(* configure(): ATE0 and the QMTCFG commands are "setup"; the answer to a  *)
(* query decides the way through the rest.                                 *)
Configured(x, good) ==
    LET to(step) == [x EXCEPT !.result = "none", !.step = step]
        opening == Change(x, "OPENING")
        failed == FailClosed([x EXCEPT !.result = "none"])
    IN  CASE x.step = "setup" -> to(IF good THEN "reg" ELSE "setup")
          [] x.step = "reg" -> IF good THEN to("attach_query") ELSE failed
          [] x.step = "attach_query" -> to(IF good THEN "pdp_query" ELSE "attach")
          [] x.step = "attach" -> to("pdp_query")
          [] x.step = "pdp_query" -> IF good THEN opening ELSE to("apn")
          [] x.step = "apn" -> to("activate")
          [] x.step = "activate" -> to("verify")
          [] x.step = "verify" -> IF good THEN opening ELSE failed

Configuring(x, t) ==
    IF Unsent(x) THEN IF Expired(x, t.late) THEN FailClosed(x) ELSE Submit(x, "setup", t.room)
    ELSE IF x.result = "failed" THEN FailClosed(x)
    ELSE IF x.result = "ok" THEN Configured(x, t.good)
    ELSE x

(* The common parts of opening(), connecting() and subscribing(): the      *)
(* command, then both its OK and its result line.                          *)
Sent(x, cmd, t) ==
    IF ~Unsent(x) THEN x
    ELSE IF Expired(x, t.late) THEN FailClosed(x)
    ELSE Submit(x, cmd, t.room)

Waits(x, y) == y.state = x.state /\ ~Unsent(y)

Await(x, t, next) ==
    IF x.result = "failed" \/ x.urc = "failed" \/ Expired(x, t.late) THEN FailClosed(x)
    ELSE IF x.urc = "ok" /\ x.result = "ok" THEN next
    ELSE x

(* Faulty variant: any failed result line counts as "not opened".          *)
OpeningUnsure(x, t) ==
    LET y == Sent(x, "open", t)
    IN  IF ~Waits(x, y) THEN y
        ELSE IF y.urc = "failed" /\ y.result = "ok" THEN Change(y, "RETRY_WAIT")
        ELSE Await(y, t, Change(y, "CONNECTING"))

Opening(x, t) ==
    LET y == Sent(x, "open", t)
    IN  IF ~Waits(x, y) THEN y
        ELSE IF y.urc = "failed" /\ y.code = "unopened" /\ y.result = "ok" /\ ~y.pending
        THEN Change(y, "RETRY_WAIT")
        ELSE IF y.urc = "failed" /\ y.pending THEN y
        ELSE Await(y, t, Change(y, "CONNECTING"))

Connecting(x, t) ==
    LET y == Sent(x, "conn", t)
    IN  IF Waits(x, y) THEN Await(y, t, Change(y, "SUBSCRIBING")) ELSE y

(* Every QMTSUB has a number of its own.                                   *)
Subscribed(x, t) ==
    LET sent == Sent(x, "sub", t)
        y == IF Unsent(x) THEN [sent EXCEPT !.sid = @ + 1] ELSE sent
    IN  IF Waits(x, sent)
        THEN Await(y, t, [y EXCEPT !.sub = @ + 1, !.result = "none", !.urc = "none"])
        ELSE sent

Subscribing(x, t) == IF x.sub = Subs THEN Change(x, "READY") ELSE Subscribed(x, t)

Closing(x, t) ==
    IF Unsent(x)
    THEN IF Expired(x, t.late) THEN Blocked(x)
         ELSE Submit(x, IF x.closing = 0 THEN "disc" ELSE "close", t.room)
    ELSE IF x.result = "failed" /\ x.closing = 1 THEN Blocked(x)
    ELSE IF x.result = "none" THEN x
    ELSE IF x.closing = 0 THEN [x EXCEPT !.result = "none", !.closing = 1]
    ELSE Change(x, "RETRY_WAIT")

(* Faulty variant: RETRY_WAIT ends while the modem may still report.       *)
WaitingUndrained(x, t) ==
    IF x.paused THEN Change(x, "PAUSED")
    ELSE IF x.enabled /\ x.security /\ t.late THEN Change(x, "CONFIGURING")
    ELSE IF ~x.enabled THEN Change(x, "IDLE")
    ELSE x

(* The retry delay has passed too when t.late.                             *)
Waiting(x, t) ==
    IF ~t.quiet \/ x.cmd # "none" THEN x
    ELSE IF x.paused THEN Change(x, "PAUSED")
    ELSE IF x.enabled /\ x.security /\ t.late THEN Change(x, "CONFIGURING")
    ELSE IF ~x.enabled THEN Change(x, "IDLE")
    ELSE x

Ready(x, t) == IF x.active /\ t.late THEN FailClosed(Settle(x, "failed")) ELSE x

Phase(x, t) ==
    CASE x.state = "READY" -> Ready(x, t)
      [] x.state = "CONFIGURING" -> Configuring(x, t)
      [] x.state = "OPENING" -> Opening(x, t)
      [] x.state = "CONNECTING" -> Connecting(x, t)
      [] x.state = "SUBSCRIBING" -> Subscribing(x, t)
      [] x.state = "CLOSING" -> Closing(x, t)
      [] x.state = "RETRY_WAIT" -> Waiting(x, t)
      [] OTHER -> x

(* An open in flight is resolved before a close request is served.         *)
Resolved(x, t) ==
    IF ~(x.close /\ x.state = "OPENING") THEN x
    ELSE LET y == Opening(x, t)
         IN  IF y.state = "RETRY_WAIT" THEN [y EXCEPT !.close = FALSE] ELSE y

Polled(x, t) ==
    LET y == Resolved(x, t)
    IN  IF x.quarantined \/ x.locked
        THEN IF x.state = "BLOCKED" THEN FailPublish(x) ELSE Change(FailPublish(x), "BLOCKED")
        ELSE IF y.close /\ y.state = "OPENING" THEN y
        ELSE IF y.close /\ y.state \notin {"CLOSING", "RETRY_WAIT"}
        THEN IF y.pending THEN y ELSE FailClosed([y EXCEPT !.close = FALSE])
        ELSE Phase(y, t)

(* Nothing comes after a quiet spell: the modem has said what it had to.   *)
Poll ==
    \E t \in Turn :
        /\ t.quiet => modem.duty = {}
        /\ m' = Polled(m, t)
        /\ UNCHANGED modem

-----------------------------------------------------------------------------
(* The calls of the bridge, the runtime and the boot application.          *)
Call(x) == m' = x /\ UNCHANGED modem

Start(x) ==
    IF ~x.security \/ x.paused \/ x.borrowed \/ x.quarantined \/ x.state = "BLOCKED" THEN x
    ELSE Change([x EXCEPT !.enabled = TRUE], "CONFIGURING")

Resume(x) ==
    IF x.borrowed THEN x ELSE Start([x EXCEPT !.locked = FALSE, !.paused = FALSE])

SetPaused(paused) ==
    LET x == [m EXCEPT !.paused = paused]
    IN  Call(IF paused \/ ~x.security THEN x
             ELSE CASE x.state = "PAUSED" -> Resume(x)
                    [] x.state = "IDLE" -> Start(x)
                    [] OTHER -> x)

SetSecurityReady(ready) ==
    LET x == [m EXCEPT !.security = ready] IN Call(IF ready THEN x ELSE FailPublish(x))

(* Faulty variant: an open in flight is not closed once it is resolved.    *)
StoppedInFlight(x) ==
    LET y == [x EXCEPT !.enabled = FALSE]
    IN  CASE x.state = "BLOCKED" -> x
          [] x.state \in Rest \cup {"RETRY_WAIT", "CLOSING", "OPENING"} -> y
          [] OTHER -> IF y.pending THEN [y EXCEPT !.close = TRUE] ELSE FailClosed(y)

Stopped(x) ==
    LET y == [x EXCEPT !.enabled = FALSE]
    IN  CASE x.state = "BLOCKED" -> x
          [] x.state \in Rest \cup {"RETRY_WAIT", "CLOSING"} -> y
          [] x.state = "OPENING" /\ Unsent(x) -> Change(y, "RETRY_WAIT")
          [] x.state = "OPENING" /\ ~Unsent(x) -> [y EXCEPT !.close = TRUE]
          [] OTHER -> IF y.pending THEN [y EXCEPT !.close = TRUE] ELSE FailClosed(y)

Stop == Call(Stopped(m))

Pause ==
    LET x == Stopped([m EXCEPT !.paused = TRUE])
    IN  Call(IF x.state = "IDLE" THEN Change(x, "PAUSED") ELSE x)

Configure(config) ==
    /\ m.state \in Rest
    /\ ~m.borrowed
    /\ m.cmd = "none"
    /\ Call([m EXCEPT !.config = config, !.locked = FALSE])

(* A message of QoS 0 has the identifier 0, one of QoS 1 a new one.        *)
Publish(qos) ==
    /\ m.state = "READY" /\ m.security /\ ~m.active /\ ~m.borrowed
    /\ m.cmd = "none"
    /\ m.next < MaxOps
    /\ LET x == Submit(m, "pub", TRUE)
       IN  /\ x # m
           /\ Call([x EXCEPT !.next = @ + 1, !.op = x.next + 1, !.active = TRUE, !.told = <<>>,
                             !.msg = IF qos = 1 THEN x.next + 1 ELSE 0])

CancelPublish ==
    /\ m.active
    /\ LET x == Settle(m, "failed")
       IN  Call(IF x.stage \in {"wire", "data", "given"} THEN Blocked(x)
                ELSE [x EXCEPT !.cmd = "none", !.stage = "none"])

BorrowWorkspace ==
    /\ m.state = "PAUSED"
    /\ ~m.borrowed
    /\ m.cmd = "none"
    /\ Call([m EXCEPT !.borrowed = TRUE])

ReturnWorkspace ==
    /\ m.borrowed
    /\ Call([m EXCEPT !.borrowed = FALSE, !.locked = FALSE])

Calls ==
    \/ \E b \in BOOLEAN : SetPaused(b) \/ SetSecurityReady(b)
    \/ Stop \/ Pause
    \/ \E c \in Config : Configure(c)
    \/ \E qos \in 0..1 : Publish(qos)
    \/ CancelPublish
    \/ BorrowWorkspace \/ ReturnWorkspace

-----------------------------------------------------------------------------
(* The AT client: the command goes to the wire when the others are done,   *)
(* runs out of time there, or goes down with a session somebody closes.    *)
Write ==
    /\ m.stage = "queued" /\ ~m.quarantined
    /\ \/ Call([m EXCEPT !.stage = "wire"])
       \/ Call(Done([m EXCEPT !.quarantined = TRUE], "SEND_FAIL"))

OnWire == m.stage \in {"wire", "data", "given"}

Timeout == OnWire /\ Call(Done(m, "TIMEOUT"))

OthersQuarantine == ~m.quarantined /\ Call(Quarantine(m))

(* A message that breaks off locks the receiver, and that the AT session.  *)
RxLocks == modem.client = "connected" /\ ~m.locked /\ Call([m EXCEPT !.locked = TRUE])
AtSeesLock == m.locked /\ ~m.quarantined /\ Call(Quarantine(m))

AtClient == Write \/ Timeout \/ OthersQuarantine \/ RxLocks \/ AtSeesLock

-----------------------------------------------------------------------------
(* The modem's replies to the command on the wire.                         *)
Says(x, client, duty) ==
    /\ m' = x
    /\ modem' = [modem EXCEPT !.client = client, !.duty = duty,
                              !.config = IF client = "closed" THEN NoConfig ELSE @]

Asked(cmd) == m.cmd = cmd /\ m.stage = "wire"
Owes(d) == modem.duty \cup {d}

Ok ==
    \/ Asked("setup") /\ Says(Done(m, "OK"), modem.client, modem.duty)
    \/ /\ Asked("open") /\ modem.client = "closed" /\ modem.opens < MaxOpens
       /\ m' = Done(m, "OK")
       /\ modem' = [modem EXCEPT !.client = "opening", !.opens = @ + 1, !.config = m.config,
                                 !.duty = Owes(<<"open", modem.opens + 1>>)]
    \/ /\ Asked("conn") /\ modem.client = "open"
       /\ Says(Done(m, "OK"), "open", Owes(<<"conn", modem.opens>>))
    \/ /\ Asked("sub") /\ modem.client = "connected"
       /\ Says(Done(m, "OK"), "connected", Owes(<<"sub", m.sid>>))
    \/ /\ Asked("disc") /\ modem.client \in {"connected", "lost"}
       /\ \E client \in {"open", "closed"} : Says(Done(m, "OK"), client, modem.duty)
    \/ Asked("close") /\ Says(Done(m, "OK"), "closed", modem.duty)
    \/ /\ m.cmd = "pub" /\ m.stage = "given"
       /\ Says(Done(m, "OK"), modem.client, modem.duty)

(* A client the broker has refused is gone when QMTCLOSE does not find it. *)
Error ==
    /\ OnWire
    /\ Says(Done(m, "ERROR"),
            IF m.cmd = "close" /\ modem.client = "refused" THEN "closed" ELSE modem.client,
            modem.duty)

(* Faulty variant: a failed write is reported a second time.               *)
WriteFailedTwice(x) ==
    LET y == Done([x EXCEPT !.quarantined = TRUE, !.prompt = TRUE], "SEND_FAIL")
    IN  [y EXCEPT !.close = TRUE, !.told = Append(@, "failed")]

(* SendPayload fails: the AT client has told `done` before it returns.     *)
WriteFailed(x) ==
    LET y == Done([x EXCEPT !.quarantined = TRUE, !.prompt = TRUE], "SEND_FAIL")
    IN  [Settle(y, "failed") EXCEPT !.close = TRUE]

Prompt ==
    /\ Asked("pub")
    /\ IF m.active /\ ~m.prompt /\ m.state = "READY"
       THEN \/ Says([Tell(m, "submitted") EXCEPT !.prompt = TRUE, !.stage = "given"],
                    modem.client, Owes(<<"pub", m.op, m.msg>>))
            \/ Call(WriteFailed(m))
       ELSE Call([m EXCEPT !.stage = "data"])

-----------------------------------------------------------------------------
(* The result lines, late as they may be, and what the transport makes of  *)
(* each (event).                                                           *)
Heard(urc, code) == [m EXCEPT !.urc = urc, !.code = code]

OpenLine(n) ==
    LET mine == modem.client = "opening" /\ n = modem.opens
        duty == modem.duty \ {<<"open", n>>}
        to(urc, code) == IF m.state = "OPENING" THEN Heard(urc, code) ELSE m
    IN  /\ <<"open", n>> \in modem.duty
        /\ \/ mine /\ Says(to("ok", "none"), "open", duty)
           \/ Says(to("failed", "unopened"), IF mine THEN "closed" ELSE modem.client, duty)
           \/ Says(to("failed", "none"), IF mine THEN "open" ELSE modem.client, duty)

ConnLine(n) ==
    LET mine == modem.client = "open" /\ n = modem.opens
        duty == modem.duty \ {<<"conn", n>>}
        to(urc, code) == IF m.state = "CONNECTING" THEN Heard(urc, code) ELSE m
    IN  /\ <<"conn", n>> \in modem.duty
        /\ \/ mine /\ Says(to("ok", "none"), "connected", duty)
           \/ mine /\ Says(to("failed", "refused"), "refused", duty)
           \/ Says(to("failed", "none"), IF mine THEN "lost" ELSE modem.client, duty)

SubLine(id) ==
    /\ <<"sub", id>> \in modem.duty
    /\ \E urc \in {"ok", "failed"} :
          /\ urc = "ok" => modem.client = "connected"
          /\ Says(IF m.state = "SUBSCRIBING" /\ id = m.sid THEN [m EXCEPT !.urc = urc] ELSE m,
                  modem.client, modem.duty \ {<<"sub", id>>})

(* Faulty variant: any result line settles the publish.                    *)
MatchesAny(x, id) == x.active /\ x.prompt /\ x.state = "READY"

Matches(x, id) == x.active /\ x.prompt /\ id = x.msg /\ x.state = "READY"

(* After a prompt the AT client takes any +QMTPUBEX for the end of its     *)
(* publish command.                                                        *)
PubLine(o, id) ==
    LET d == <<"pub", o, id>>
        settled(good) ==
            IF ~Matches(m, id) THEN m
            ELSE [Settle(m, IF good THEN "confirmed" ELSE "failed") EXCEPT !.close = @ \/ ~good]
        ended(x) == IF x.cmd = "pub" /\ x.stage \in {"data", "given"} THEN Done(x, "OK") ELSE x
    IN  /\ d \in modem.duty
        /\ \E good \in BOOLEAN :
              /\ m' = ended(settled(good))
              /\ modem' = [modem EXCEPT !.duty = @ \ {d}]

Lose ==
    /\ modem.client \in {"open", "connected"}
    /\ Says(m, "lost", Owes(<<"stat", modem.opens>>))

StatLine(n) ==
    /\ <<"stat", n>> \in modem.duty
    /\ Says(IF m.state = "READY" THEN [m EXCEPT !.close = TRUE] ELSE m,
            modem.client, modem.duty \ {<<"stat", n>>})

Forget == \E d \in modem.duty : Says(m, modem.client, modem.duty \ {d})

(* Faulty variant: the lent workspace is not asked for after a reset.      *)
OnModemResetLent(x) ==
    LET y == [FailPublish(x) EXCEPT !.locked = FALSE, !.close = FALSE]
    IN  Change(y, IF y.enabled /\ ~y.paused /\ y.security THEN "CONFIGURING"
                  ELSE IF y.paused THEN "PAUSED" ELSE "IDLE")

OnModemReset(x) ==
    LET y == [FailPublish(x) EXCEPT !.locked = FALSE, !.close = FALSE]
    IN  Change(y, IF y.enabled /\ ~y.paused /\ y.security /\ ~y.borrowed /\ ~y.quarantined
                  THEN "CONFIGURING"
                  ELSE IF y.paused THEN "PAUSED" ELSE "IDLE")

(* RDY: the AT client ends its commands and its quarantine first.          *)
ModemReset ==
    LET x == IF m.cmd = "none" THEN m ELSE Done(m, "ERROR")
    IN  Says(OnModemReset([x EXCEPT !.quarantined = FALSE]), "closed", {})

Lines ==
    \/ \E n \in 1..modem.opens : OpenLine(n) \/ ConnLine(n) \/ StatLine(n)
    \/ \E id \in 1..m.sid : SubLine(id)
    \/ \E o \in 1..MaxOps, id \in 0..MaxOps : PubLine(o, id)

Modem == Ok \/ Error \/ Prompt \/ Lines \/ Forget \/ Lose \/ ModemReset

-----------------------------------------------------------------------------
Init ==
    /\ \E c \in Config, security \in BOOLEAN :
          m = [state |-> "IDLE", enabled |-> FALSE, paused |-> FALSE, security |-> security,
               borrowed |-> FALSE, close |-> FALSE, closing |-> 0, step |-> "setup",
               pending |-> FALSE, result |-> "none", urc |-> "none", code |-> "none",
               sub |-> 0, sid |-> 0, op |-> 0, active |-> FALSE, prompt |-> FALSE, msg |-> 0,
               next |-> 0, config |-> c, cmd |-> "none", stage |-> "none",
               quarantined |-> FALSE, locked |-> FALSE, told |-> <<>>]
    /\ modem = [client |-> "closed", config |-> NoConfig, opens |-> 0, duty |-> {}]

Next == Poll \/ Calls \/ AtClient \/ Modem

Spec == Init /\ [][Next]_vars

-----------------------------------------------------------------------------
(* Every variable keeps its type.                                          *)
Verdict == {"none", "ok", "failed"}
Record == [state : State, enabled : BOOLEAN, paused : BOOLEAN, security : BOOLEAN,
           borrowed : BOOLEAN, close : BOOLEAN, closing : 0..2, step : Step,
           pending : BOOLEAN, result : Verdict, urc : Verdict,
           code : {"none", "unopened", "refused"}, sub : 0..Subs, sid : Nat,
           op : 0..MaxOps, active : BOOLEAN, prompt : BOOLEAN, msg : 0..MaxOps,
           next : 0..MaxOps, config : Config, cmd : Command,
           stage : {"none", "queued", "wire", "data", "given"},
           quarantined : BOOLEAN, locked : BOOLEAN,
           told : Seq({"submitted", "confirmed", "failed"})]

Client == {"closed", "opening", "open", "refused", "connected", "lost"}
Duties == ({"open", "conn", "stat"} \X (0..MaxOpens)) \cup ({"sub"} \X Nat)
          \cup ({"pub"} \X (0..MaxOps) \X (0..MaxOps))

TypeOK ==
    /\ m \in Record
    /\ modem \in [client : Client, config : Config \cup {NoConfig}, opens : 0..MaxOpens,
                  duty : SUBSET Duties]

(* A transport at rest has drained its session: no command of it is at the *)
(* AT client and no result line of it can come any more, so that a stop    *)
(* may be reported as complete (Stop, Pause, the drain of RETRY_WAIT).     *)
RestIsDrained == m.state \in Rest => modem.duty = {} /\ m.cmd = "none"

(* The transport knows what the modem has: at rest, while it waits to try  *)
(* again and while it configures there is no client; a session is one of   *)
(* the endpoint it is configured with; no command is at the AT client that *)
(* it has stopped waiting for (Poll, Stop, OnModemReset, fail_closed).     *)
ClientInStep ==
    /\ m.state \in Rest \cup {"RETRY_WAIT", "CONFIGURING"} => modem.client = "closed"
    /\ m.state = "CONNECTING" => modem.client \in {"open", "refused", "connected", "lost"}
    /\ m.state \in {"SUBSCRIBING", "READY"} => modem.client \in {"connected", "lost"}
    /\ modem.client # "closed" /\ m.state # "BLOCKED" => modem.config = m.config
    /\ m.cmd # "none" /\ m.state # "BLOCKED" => m.pending

(* While the receive buffer is lent no client can bring a message into it, *)
(* whatever is started, resumed or reset meanwhile (BorrowWorkspace,       *)
(* Start, OnModemReset).                                                   *)
BorrowedIsQuiet == m.borrowed => modem.client = "closed" /\ m.state \notin {"CONFIGURING", "OPENING"}

(* A publish of QoS 1 is confirmed by its own result line and by no late   *)
(* one of another (event, +QMTPUBEX).                                      *)
ConfirmedByOwn ==
    [][LET o == m.msg
       IN  o # 0 /\ m'.told = Append(m.told, "confirmed")
           => <<"pub", o, o>> \in modem.duty \ modem'.duty]_vars

(* What is reported of publishes keeps the contract of the callback        *)
(* (published, done, fail_closed, CancelPublish, SetSecurityReady).        *)
Contract == INSTANCE PublishContract WITH accepted <- m.next, told <- m.told
ImplementsPublishContract == Contract!Spec

(* A stop ends: at rest, blocked, or called off by a new start, unless a   *)
(* publish was cancelled in the queue and the transport waits for its end. *)
Stranded == m.pending /\ m.cmd = "none"
StopEnds == ~m.enabled ~> m.state \in Rest \cup {"BLOCKED"} \/ m.enabled \/ Stranded

(* The loop polls and its deadlines pass; the AT client writes and times   *)
(* out; the modem has nothing left to say at some point.                   *)
PollLate == \E t \in Turn : /\ t.late /\ t.room
                            /\ t.quiet <=> modem.duty = {}
                            /\ m' = Polled(m, t)
                            /\ UNCHANGED modem

Fairness ==
    /\ WF_vars(PollLate)
    /\ WF_vars(Write)
    /\ WF_vars(Timeout)
    /\ WF_vars(Lines \/ Forget)

FairSpec == Spec /\ Fairness
=============================================================================
