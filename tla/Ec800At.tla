------------------------------ MODULE Ec800At ------------------------------
(***************************************************************************)
(* The AT client that the modem's owners share: a table of queued          *)
(* commands, one command on the wire, and a quarantine that closes the     *)
(* session until the modem is reset.                                       *)
(*                                                                         *)
(*   components/ec800/src/abox_ec800_at.c             the client           *)
(*   components/ec800/src/abox_ec800_command_port.c   the command adapter  *)
(*                                                                         *)
(* Everything runs on one thread, but the client calls its owners back in  *)
(* the middle of its own work and they call it again from there: `phase`   *)
(* says which callback is running.  Replies carry no tag: what a line      *)
(* completes depends on the active command only.  Bytes become lines, time *)
(* becomes the freedom to time out, and commands and replies become the    *)
(* kinds the client tells apart.  +QMTPUBEX, which only the MQTT transport *)
(* causes, is left out.                                                    *)
(***************************************************************************)
EXTENDS Naturals, FiniteSets

CONSTANTS Op,          \* commands; each is submitted at most once
          NoOp,
          Owner,
          NoOwner,     \* ABOX_EC800_OWNER_NONE
          OwnerOf,     \* the owner of each command
          KindOf,      \* what sort of command it is
          Urgent,      \* commands of ABOX_EC800_PRIORITY_HIGH
          Guarded,     \* owners that go through a command adapter
          QueueSize    \* ABOX_EC800_AT_QUEUE_SIZE

Kind == {"plain", "payload", "urc", "post"}
Slot == 1..QueueSize
Result == {"OK", "ERROR", "TIMEOUT", "SEND_OK", "SEND_FAIL"}
AsyncStatus == {"idle", "pending", "ok", "error", "cancelled", "quarantined"}

ASSUME AtAssumption == /\ NoOp \notin Op
                       /\ NoOwner \notin Owner
                       /\ OwnerOf \in [Op -> Owner]
                       /\ KindOf \in [Op -> Kind]
                       /\ Urgent \subseteq Op
                       /\ Guarded \subseteq Owner
                       /\ QueueSize \in Nat

VARIABLES queue,         \* the table, by slot
          active,        \* the command on the wire
          wait_payload,  \* active_wait_payload
          payload_sent,  \* active_payload_sent
          raw,           \* raw_owner while raw_remaining > 0
          guard,         \* abort_guard_tick runs
          quarantined,
          phase,         \* the callback that runs, if any
          line,          \* the line being dispatched
          pending,       \* detached commands whose owners are still to be told
          verdict,       \* what they are told
          after,         \* what terminate_all returns to
          adapter,       \* result of each command adapter
          rx,            \* the +QMTRECV parser
          modem,         \* external: how far the modem is with each command
          outcome        \* history: what became of each command

atvars == <<queue, active, wait_payload, payload_sent, raw, guard, quarantined>>
callvars == <<phase, line, pending, verdict, after>>
vars == <<queue, active, wait_payload, payload_sent, raw, guard, quarantined,
          phase, line, pending, verdict, after, adapter, rx, modem, outcome>>

EmptyQueue == [s \in Slot |-> NoOp]
Queued == {queue[s] : s \in Slot} \ {NoOp}
Held == Queued \cup pending \cup ({active} \ {NoOp})
NoLine == [op |-> NoOp, text |-> "none"]

terminating == phase \in {"notify", "broadcast"}

(* payload_command, waits_for_urc                                          *)
Payload(o) == KindOf[o] \in {"payload", "post"}
WaitsForUrc(o) == KindOf[o] \in {"urc", "post"}

-----------------------------------------------------------------------------
(* The modem.  Each reply is a line that takes a command from one stage to *)
(* the next; a command that gets no reply stays where it is.               *)
Text == {"prompt", "ok", "error", "send_ok", "send_fail", "urc"}
Stage == {"none", "asked", "data", "given", "report", "done"}

Reply(k) ==
    {<<"asked", "error", "done">>}
    \cup (CASE k = "plain"   -> {<<"asked", "ok", "done">>}
            [] k = "urc"     -> {<<"asked", "ok", "report">>, <<"report", "urc", "done">>}
            [] k = "payload" -> {<<"asked", "prompt", "data">>, <<"data", "error", "done">>}
                                \cup {<<"given", t, "done">> : t \in {"ok", "error", "send_ok", "send_fail"}}
            [] k = "post"    -> {<<"asked", "prompt", "data">>, <<"data", "error", "done">>,
                                 <<"given", "error", "done">>, <<"given", "ok", "report">>,
                                 <<"report", "urc", "done">>})

Written(o) == modem' = [modem EXCEPT ![o] = "asked"]

(* The payload, or an escape, reaches a command that asked for data.       *)
DataTo(stage) ==
    IF \E o \in Op : modem[o] = "data"
    THEN \E o \in Op : modem[o] = "data" /\ modem' = [modem EXCEPT ![o] = stage]
    ELSE UNCHANGED modem

-----------------------------------------------------------------------------
(* terminate_all(result), with `act` on the wire and q in the table: every *)
(* command is detached, then the owners are told one after the other.      *)
Detached(act, q) == ({act} \cup {q[s] : s \in Slot}) \ {NoOp}

Terminate(act, q, result, back) ==
    /\ active' = NoOp /\ queue' = EmptyQueue /\ raw' = NoOwner
    /\ wait_payload' = FALSE /\ payload_sent' = FALSE
    /\ pending' = Detached(act, q) /\ verdict' = result
    /\ phase' = "notify" /\ after' = back

(* Cancel of an active payload command sends an escape and starts the      *)
(* abort guard; nobody knows whether the modem was waiting for data.       *)
Escape(o) ==
    IF o # NoOp /\ Payload(o) /\ ~payload_sent
    THEN guard' = TRUE /\ (DataTo("done") \/ UNCHANGED modem)
    ELSE UNCHANGED <<guard, modem>>

(* Faulty variant: a timeout leaves the session open.                      *)
UntrustedWrites == {"SEND_FAIL"}

(* The done callback of a command adapter: after a timeout or a failed     *)
(* write an untagged late reply may follow, so it quarantines the session. *)
Untrusted == {"TIMEOUT", "SEND_FAIL"}
Closes(o, result) == OwnerOf[o] \in Guarded /\ result \in Untrusted

(* Faulty variant: what arrives during quarantine is not recorded.         *)
AnsweredIfOpen(o, result) ==
    IF OwnerOf[o] \notin Guarded \/ quarantined THEN adapter
    ELSE [adapter EXCEPT ![OwnerOf[o]] = IF result = "OK" THEN "ok" ELSE "error"]

Answered(o, result) ==
    IF OwnerOf[o] \notin Guarded THEN adapter
    ELSE [adapter EXCEPT ![OwnerOf[o]] =
             IF Closes(o, result) \/ quarantined THEN "quarantined"
             ELSE IF result = "OK" THEN "ok" ELSE "error"]

(* raw_owner once the active command is gone.                              *)
RawAfter(o) == IF raw = OwnerOf[o] THEN NoOwner ELSE raw

(* complete(result), and the owner's done callback.                        *)
Complete(result, back) ==
    /\ outcome' = [outcome EXCEPT ![active] = result]
    /\ adapter' = Answered(active, result)
    /\ IF Closes(active, result)
       THEN /\ quarantined' = TRUE
            /\ Terminate(NoOp, queue, "ERROR", back)
       ELSE /\ active' = NoOp /\ raw' = RawAfter(active)
            /\ wait_payload' = FALSE /\ payload_sent' = FALSE
            /\ phase' = back
            /\ UNCHANGED <<queue, quarantined, pending, verdict, after>>

-----------------------------------------------------------------------------
(* What an owner may call from its poll or from inside a callback.         *)
FirstFree(s) == queue[s] = NoOp /\ \A t \in Slot : queue[t] = NoOp => s <= t
HasPending(w) == \E o \in Queued \cup ({active} \ {NoOp}) : OwnerOf[o] = w

(* Faulty variant: Submit does not look at the gates.                      *)
EnqueueUngated(o) ==
    /\ \E s \in Slot : FirstFree(s) /\ queue' = [queue EXCEPT ![s] = o]
    /\ outcome' = [outcome EXCEPT ![o] = "accepted"]
    /\ UNCHANGED <<active, wait_payload, payload_sent, raw, guard, quarantined,
                   callvars, rx, modem>>

Enqueue(o) ==
    /\ ~quarantined /\ ~terminating
    /\ \E s \in Slot : FirstFree(s) /\ queue' = [queue EXCEPT ![s] = o]
    /\ outcome' = [outcome EXCEPT ![o] = "accepted"]
    /\ UNCHANGED <<active, wait_payload, payload_sent, raw, guard, quarantined,
                   callvars, rx, modem>>

Submit(o) ==
    /\ outcome[o] = "new"
    /\ OwnerOf[o] \notin Guarded
    /\ Enqueue(o)
    /\ UNCHANGED adapter

(* submit of the command adapter.                                          *)
AdapterSubmit(o) ==
    LET w == OwnerOf[o] IN
    /\ outcome[o] = "new"
    /\ w \in Guarded /\ adapter[w] # "pending" /\ ~HasPending(w)
    /\ Enqueue(o)
    /\ adapter' = [adapter EXCEPT ![w] = "pending"]

(* A write that fails may have sent a prefix: the session is lost.         *)
SendPayload(force) ==
    /\ active # NoOp /\ Payload(active) /\ ~payload_sent
    /\ wait_payload \/ force
    /\ \/ /\ wait_payload' = TRUE /\ payload_sent' = TRUE
          /\ DataTo("given")
          /\ UNCHANGED <<queue, active, raw, guard, quarantined, callvars>>
       \/ /\ quarantined' = TRUE
          /\ Terminate(active, queue, "SEND_FAIL", phase)
          /\ Escape(active)
          /\ UNCHANGED line
    /\ UNCHANGED <<adapter, rx, outcome>>

(* BeginRaw, which an owner calls when a line announces the length; while  *)
(* no command is on the wire every owner is shown the line; and the last   *)
(* of those bytes.                                                         *)
BeginRaw(w) ==
    /\ phase = "line" /\ ~quarantined
    /\ active # NoOp => w = OwnerOf[active]
    /\ raw = NoOwner
    /\ raw' = w
    /\ UNCHANGED <<queue, active, wait_payload, payload_sent, guard, quarantined,
                   callvars, adapter, rx, modem, outcome>>

RawTaken ==
    /\ phase = "idle" /\ raw # NoOwner
    /\ raw' = NoOwner
    /\ UNCHANGED <<queue, active, wait_payload, payload_sent, guard, quarantined,
                   callvars, adapter, rx, modem, outcome>>

(* Cancel(owner): silent, and without quarantine.                          *)
Owned(w) == {o \in Queued \cup ({active} \ {NoOp}) : OwnerOf[o] = w}
QueueWithout(w) == [s \in Slot |-> IF queue[s] \in Owned(w) THEN NoOp ELSE queue[s]]
Cancelled(O) == [o \in Op |-> IF o \in O THEN "cancelled" ELSE outcome[o]]

Cancel(w) ==
    /\ w \notin Guarded
    /\ IF active \in Owned(w)
       THEN active' = NoOp /\ Escape(active)
       ELSE UNCHANGED <<active, guard, modem>>
    /\ raw' = IF raw = w THEN NoOwner ELSE raw
    /\ queue' = QueueWithout(w)
    /\ outcome' = Cancelled(Owned(w))
    /\ UNCHANGED <<wait_payload, payload_sent, quarantined, callvars, adapter, rx>>

(* cancel of the command adapter: only a command that was never written    *)
(* can be taken back.                                                      *)
AdapterCancel(w) ==
    /\ w \in Guarded /\ adapter[w] = "pending" /\ ~quarantined
    /\ IF active \in Owned(w)
       THEN /\ quarantined' = TRUE
            /\ Terminate(active, queue, "ERROR", phase)
            /\ Escape(active)
            /\ UNCHANGED <<line, adapter, outcome>>
       ELSE /\ queue' = QueueWithout(w)
            /\ outcome' = Cancelled(Owned(w))
            /\ adapter' = [adapter EXCEPT ![w] = "cancelled"]
            /\ UNCHANGED <<active, wait_payload, payload_sent, raw, guard, quarantined,
                           callvars, modem>>
    /\ UNCHANGED rx

(* Quarantine, and AbortAll, by any owner or by the application.           *)
Quarantine ==
    /\ quarantined' = TRUE
    /\ IF terminating
       THEN UNCHANGED <<queue, active, wait_payload, payload_sent, raw, guard, callvars, modem>>
       ELSE /\ Terminate(active, queue, "ERROR", phase)
            /\ Escape(active)
            /\ UNCHANGED line
    /\ UNCHANGED <<adapter, rx, outcome>>

-----------------------------------------------------------------------------
(* Task: a locked parser, a timeout, and the next command.                 *)
(* next_command: the lowest slot among those of the highest priority.      *)
NextCommand(s) ==
    /\ queue[s] # NoOp
    /\ \A t \in Slot : queue[t] # NoOp =>
          \/ queue[s] \in Urgent /\ queue[t] \notin Urgent
          \/ (queue[s] \in Urgent <=> queue[t] \in Urgent) /\ s <= t

StartNext(s, back) ==
    LET o == queue[s]
        rest == [queue EXCEPT ![s] = NoOp]
    IN  \/ /\ active' = o /\ queue' = rest
           /\ wait_payload' = FALSE /\ payload_sent' = FALSE
           /\ Written(o)
           /\ phase' = back
           /\ UNCHANGED <<raw, guard, quarantined, pending, verdict, after>>
        \/ /\ quarantined' = TRUE
           /\ Terminate(o, rest, "SEND_FAIL", back)
           /\ guard' = (guard \/ Payload(o))
           /\ Written(o) \/ UNCHANGED modem

MayStart == ~guard /\ ~quarantined /\ active = NoOp /\ Queued # {}

TaskLocked ==
    /\ phase = "idle" /\ ~quarantined /\ rx = "locked"
    /\ Quarantine

TaskTimeout ==
    /\ phase = "idle" /\ ~quarantined /\ rx # "locked"
    /\ active # NoOp
    /\ Escape(active)
    /\ Complete("TIMEOUT", "timeout")
    /\ UNCHANGED <<line, rx>>

TaskStart ==
    /\ phase = "idle" /\ rx # "locked"
    /\ MayStart
    /\ \E s \in Slot : NextCommand(s) /\ StartNext(s, "idle")
    /\ UNCHANGED <<line, adapter, rx, outcome>>

(* The owner of the command that timed out has returned.                   *)
TaskReturns ==
    /\ phase = "timeout"
    /\ IF MayStart THEN \E s \in Slot : NextCommand(s) /\ StartNext(s, "idle")
       ELSE phase' = "idle" /\ UNCHANGED <<atvars, pending, verdict, after, modem>>
    /\ UNCHANGED <<line, adapter, rx, outcome>>

(* Faulty variant: the guard is only looked at behind an active command.   *)
GuardExpiresBusy ==
    /\ phase = "idle" /\ guard /\ active # NoOp
    /\ guard' = FALSE
    /\ UNCHANGED <<queue, active, wait_payload, payload_sent, raw, quarantined,
                   callvars, adapter, rx, modem, outcome>>

(* ABORT_GUARD_MS have passed.                                             *)
GuardExpires ==
    /\ phase = "idle" /\ guard
    /\ guard' = FALSE
    /\ UNCHANGED <<queue, active, wait_payload, payload_sent, raw, quarantined,
                   callvars, adapter, rx, modem, outcome>>

-----------------------------------------------------------------------------
(* Feed.  A line comes from the modem, is offered to the owners, and then  *)
(* may complete the active command, whoever it was meant for.              *)
LineArrives(o) ==
    /\ phase = "idle" /\ rx = "line" /\ raw = NoOwner
    /\ \E reply \in Reply(KindOf[o]) :
          /\ modem[o] = reply[1]
          /\ modem' = [modem EXCEPT ![o] = reply[3]]
          /\ line' = [op |-> o, text |-> reply[2]]
          /\ wait_payload' = (wait_payload \/ (active # NoOp /\ reply[2] = "prompt" /\ ~payload_sent))
    /\ phase' = "line"
    /\ UNCHANGED <<queue, active, payload_sent, raw, guard, quarantined,
                   pending, verdict, after, adapter, rx, outcome>>

(* A line that the parser or a raw transfer takes for data.                *)
LineSwallowed(o) ==
    /\ phase = "idle" /\ (rx # "line" \/ raw # NoOwner)
    /\ \E reply \in Reply(KindOf[o]) :
          /\ modem[o] = reply[1]
          /\ modem' = [modem EXCEPT ![o] = reply[3]]
    /\ UNCHANGED <<atvars, callvars, adapter, rx, outcome>>

(* result_urc and terminal, and what emit_line makes of them.              *)
Completes(l, o) ==
    \/ l.text = "urc" /\ KindOf[l.op] = KindOf[o]
    \/ l.text \in {"error", "send_ok", "send_fail"}
    \/ l.text = "ok" /\ ~WaitsForUrc(o) /\ (Payload(o) => payload_sent)

Results(text) == CASE text = "ok" -> {"OK"}
                   [] text = "error" -> {"ERROR"}
                   [] text = "send_ok" -> {"SEND_OK"}
                   [] text = "send_fail" -> {"SEND_FAIL"}
                   [] text = "urc" -> {"OK", "ERROR"}

LineReturns ==
    /\ phase = "line"
    /\ line' = NoLine
    /\ IF active # NoOp /\ Completes(line, active)
       THEN \E result \in Results(line.text) : Complete(result, "idle")
       ELSE phase' = "idle" /\ UNCHANGED <<queue, active, wait_payload, payload_sent, raw, quarantined,
                                           pending, verdict, after, adapter, outcome>>
    /\ UNCHANGED <<guard, rx, modem>>

(* +QMTRECV hands the bytes to the parser, until the message is complete   *)
(* or the parser has lost track of where it ends.                          *)
Receive ==
    /\ phase = "idle" /\ raw = NoOwner
    /\ \/ rx = "line" /\ rx' = "collecting"
       \/ rx = "collecting" /\ rx' \in {"line", "locked"}
    /\ UNCHANGED <<atvars, callvars, adapter, modem, outcome>>

-----------------------------------------------------------------------------
(* OnModemReset: RDY was read, or the application has cycled the power.    *)
OnModemReset ==
    /\ phase = "idle"
    /\ (rx = "line" /\ raw = NoOwner) \/ quarantined
    /\ modem' = [o \in Op |-> IF modem[o] = "none" THEN "none" ELSE "done"]
    /\ Terminate(active, queue, "ERROR", "reset")
    /\ guard' = (guard \/ (active # NoOp /\ Payload(active) /\ ~payload_sent))
    /\ UNCHANGED <<line, quarantined, adapter, rx, outcome>>

(* terminate_all tells the next owner.                                     *)
Notify(o) ==
    /\ phase = "notify" /\ o \in pending
    /\ pending' = pending \ {o}
    /\ outcome' = [outcome EXCEPT ![o] = verdict]
    /\ adapter' = Answered(o, verdict)
    /\ quarantined' = (quarantined \/ Closes(o, verdict))
    /\ UNCHANGED <<queue, active, wait_payload, payload_sent, raw, guard,
                   phase, line, verdict, after, rx, modem>>

AllNotified ==
    /\ phase = "notify" /\ pending = {}
    /\ IF after = "reset"
       THEN /\ phase' = "broadcast"
            /\ raw' = NoOwner /\ guard' = FALSE /\ quarantined' = FALSE /\ rx' = "line"
       ELSE /\ phase' = after
            /\ UNCHANGED <<raw, guard, quarantined, rx>>
    /\ UNCHANGED <<queue, active, wait_payload, payload_sent, line, pending, verdict, after,
                   adapter, modem, outcome>>

(* Every owner has seen RDY; the adapters were reset by their runtime.     *)
ResetReturns ==
    /\ phase = "broadcast"
    /\ phase' = "idle"
    /\ adapter' = [w \in Guarded |-> "idle"]
    /\ UNCHANGED <<atvars, line, pending, verdict, after, rx, modem, outcome>>

-----------------------------------------------------------------------------
Init ==
    /\ queue = EmptyQueue /\ active = NoOp
    /\ wait_payload = FALSE /\ payload_sent = FALSE
    /\ raw = NoOwner /\ guard = FALSE /\ quarantined = FALSE
    /\ phase = "idle" /\ line = NoLine /\ pending = {} /\ verdict = "OK" /\ after = "idle"
    /\ adapter = [w \in Guarded |-> "idle"]
    /\ rx = "line"
    /\ modem = [o \in Op |-> "none"]
    /\ outcome = [o \in Op |-> "new"]

Call == \/ \E o \in Op : Submit(o) \/ AdapterSubmit(o)
        \/ \E force \in BOOLEAN : SendPayload(force)
        \/ \E w \in Owner : BeginRaw(w) \/ Cancel(w) \/ AdapterCancel(w)
        \/ Quarantine

Task == TaskLocked \/ TaskTimeout \/ TaskStart \/ GuardExpires
Return == TaskReturns \/ LineReturns \/ AllNotified \/ ResetReturns \/ \E o \in Op : Notify(o)
Feed == \/ \E o \in Op : LineArrives(o) \/ LineSwallowed(o)
        \/ RawTaken \/ Receive

Next == Call \/ Task \/ Return \/ Feed \/ OnModemReset

Spec == Init /\ [][Next]_vars

(* The main loop calls Task, time passes, and callbacks return.            *)
FairSpec == /\ Spec
            /\ WF_vars(TaskLocked) /\ WF_vars(TaskTimeout) /\ WF_vars(TaskStart) /\ WF_vars(GuardExpires)
            /\ WF_vars(Return)

-----------------------------------------------------------------------------
(* Every variable keeps its type.                                          *)
TypeOK ==
    /\ queue \in [Slot -> Op \cup {NoOp}]
    /\ active \in Op \cup {NoOp}
    /\ wait_payload \in BOOLEAN /\ payload_sent \in BOOLEAN
    /\ raw \in Owner \cup {NoOwner}
    /\ guard \in BOOLEAN /\ quarantined \in BOOLEAN
    /\ phase \in {"idle", "line", "timeout", "notify", "broadcast"}
    /\ line \in [op : Op \cup {NoOp}, text : Text \cup {"none"}]
    /\ pending \subseteq Op
    /\ verdict \in Result
    /\ after \in {"idle", "line", "timeout", "reset"}
    /\ adapter \in [Guarded -> AsyncStatus]
    /\ rx \in {"line", "collecting", "locked"}
    /\ modem \in [Op -> Stage]
    /\ outcome \in [Op -> {"new", "accepted", "cancelled"} \cup Result]

(* Where each command is, read from the client's own tables; a command     *)
(* that was accepted and is in none of them is lost.                       *)
PlaceOf(o) == IF o = active THEN "running"
              ELSE IF o \in Queued THEN "queued"
              ELSE IF o \in pending THEN "detached"
              ELSE IF outcome[o] = "new" THEN "new"
              ELSE IF outcome[o] = "cancelled" THEN "withdrawn"
              ELSE IF outcome[o] \in Result THEN "settled"
              ELSE "lost"

Commands == INSTANCE CommandService
            WITH place <- [o \in Op |-> PlaceOf(o)],
                 gate <- IF quarantined \/ terminating THEN "closed" ELSE "open"

(* The client keeps the promise of CommandService: whatever callbacks call *)
(* back, each accepted command is answered exactly once or withdrawn, and  *)
(* a closed session accepts and writes nothing (terminate_all, Submit).    *)
ImplementsCommandService == Commands!Spec

(* A line completes only the command it answers, although replies carry no *)
(* tag, as long as no owner without a command adapter took a command back  *)
(* or let one time out (emit_line, and done of the adapter).               *)
Disciplined == \A o \in Op : OwnerOf[o] \notin Guarded => outcome[o] \notin {"cancelled", "TIMEOUT"}
ReplyIsOwn ==
    Disciplined /\ phase = "line" /\ active # NoOp /\ Completes(line, active) => line.op = active

(* An adapter waits exactly as long as the client holds its command, so    *)
(* its owner neither waits for ever nor submits beside a live command.     *)
AdapterInStep ==
    \A w \in Guarded :
        /\ adapter[w] = "pending" => \E o \in Held : OwnerOf[o] = w
        /\ HasPending(w) => adapter[w] = "pending"

(* Every command the client accepts is answered or withdrawn in the end.   *)
AllSettle == \A o \in Op : outcome[o] = "accepted" ~> outcome[o] # "accepted"
=============================================================================
