---------------------------- MODULE Ec800AtProofs ----------------------------
(***************************************************************************)
(* The AT client keeps the promise of CommandService for any number of     *)
(* commands, owners and slots, and as long as no owner without a command   *)
(* adapter takes a command back or lets one time out, a line completes     *)
(* only the command it answers.                                            *)
(***************************************************************************)
EXTENDS Ec800At, TLAPS

USE AtAssumption

(* A command is accepted and not yet answered exactly when it is in one of *)
(* the client's tables, and it is in one place only.                       *)
Places ==
    /\ \A o \in Op : outcome[o] = "accepted" <=> o \in Held
    /\ active \notin Queued \cup pending
    /\ Queued \cap pending = {}
    /\ \A s, t \in Slot : queue[s] = queue[t] /\ queue[s] # NoOp => s = t

(* A closed session holds nothing but commands whose owners are about to   *)
(* be told; so does the callback of a timeout hold no active command.      *)
Gates ==
    /\ quarantined \/ terminating => active = NoOp /\ Queued = {}
    /\ pending # {} => phase = "notify"
    /\ phase = "timeout" => active = NoOp

IInv == TypeOK /\ Places /\ Gates

(* terminate_all detaches everything it was given.                         *)
LEMMA TerminateDetaches ==
    ASSUME NEW act \in Op \cup {NoOp}, NEW q \in [Slot -> Op \cup {NoOp}],
           NEW result \in Result, NEW back, Terminate(act, q, result, back)
    PROVE  /\ active' = NoOp /\ Queued' = {} /\ pending' = Detached(act, q)
           /\ Held' = Detached(act, q)
           /\ queue' \in [Slot -> Op \cup {NoOp}]
           /\ pending' \subseteq Op /\ verdict' = result
           /\ phase' = "notify" /\ after' = back
           /\ raw' = NoOwner /\ wait_payload' = FALSE /\ payload_sent' = FALSE
BY DEF Terminate, Detached, Queued, Held, EmptyQueue

(* The modem's stages stay stages.                                         *)
LEMMA ModemStages ==
    ASSUME TypeOK
    PROVE  /\ \A stage \in Stage : DataTo(stage) => modem' \in [Op -> Stage]
           /\ \A o \in Op : Written(o) => modem' \in [Op -> Stage]
           /\ \A o \in Op \cup {NoOp} : Escape(o) => modem' \in [Op -> Stage] /\ guard' \in BOOLEAN
           /\ \A o \in Op : \A reply \in Reply(KindOf[o]) :
                 reply[1] \in Stage /\ reply[2] \in Text /\ reply[3] \in Stage
<1>1. \A stage \in Stage : DataTo(stage) => modem' \in [Op -> Stage]
  BY DEF TypeOK, DataTo
<1>2. \A o \in Op : Written(o) => modem' \in [Op -> Stage]
  BY DEF TypeOK, Written, Stage
<1>3. \A o \in Op \cup {NoOp} : Escape(o) => modem' \in [Op -> Stage] /\ guard' \in BOOLEAN
  <2>1. "done" \in Stage
    BY DEF Stage
  <2> QED
    BY <1>1, <2>1 DEF Escape, TypeOK
<1>4. ASSUME NEW o \in Op, NEW reply \in Reply(KindOf[o])
      PROVE  reply[1] \in Stage /\ reply[2] \in Text /\ reply[3] \in Stage
  <2>1. KindOf[o] \in Kind
    OBVIOUS
  <2> QED
    BY <2>1 DEF Reply, Kind, Stage, Text
<1> QED
  BY <1>1, <1>2, <1>3, <1>4

(* An adapter stores a status of its own.                                  *)
LEMMA AnsweredStatus ==
    ASSUME TypeOK, NEW o \in Op, NEW result
    PROVE  Answered(o, result) \in [Guarded -> AsyncStatus]
BY DEF TypeOK, Answered, AsyncStatus

(* complete: the active command is answered, and either everything else is *)
(* detached or everything else stays.                                      *)
LEMMA CompleteSettles ==
    ASSUME IInv, active # NoOp, NEW result \in Result, NEW back, Complete(result, back)
    PROVE  /\ active \in Op /\ active' = NoOp
           /\ outcome' = [outcome EXCEPT ![active] = result]
           /\ Held' = Held \ {active}
           /\ wait_payload' = FALSE /\ payload_sent' = FALSE
           /\ raw' \in {NoOwner, raw} /\ quarantined' \in BOOLEAN
           /\ adapter' \in [Guarded -> AsyncStatus]
           /\ verdict' \in Result
           /\ \/ /\ quarantined' = TRUE /\ phase' = "notify" /\ after' = back
                 /\ queue' = EmptyQueue /\ pending' = Queued /\ Queued' = {} /\ verdict' = "ERROR"
                 /\ Closes(active, result)
              \/ /\ UNCHANGED <<queue, quarantined, pending, verdict, after>>
                 /\ phase' = back /\ Queued' = Queued
                 /\ ~Closes(active, result)
<1>1. active \in Op /\ ~quarantined /\ ~terminating /\ pending = {}
  BY DEF IInv, TypeOK, Gates, terminating
<1>2. adapter' \in [Guarded -> AsyncStatus]
  BY <1>1, AnsweredStatus DEF Complete, IInv
<1>3. CASE Closes(active, result)
  <2>1. Terminate(NoOp, queue, "ERROR", back) /\ quarantined' = TRUE
    BY <1>3 DEF Complete
  <2>2. Detached(NoOp, queue) = Queued
    BY DEF Detached, Queued
  <2>3. "ERROR" \in Result /\ queue \in [Slot -> Op \cup {NoOp}]
    BY DEF Result, IInv, TypeOK
  <2>4. /\ active' = NoOp /\ Queued' = {} /\ pending' = Queued /\ Held' = Queued
        /\ verdict' = "ERROR" /\ phase' = "notify" /\ after' = back
        /\ raw' = NoOwner /\ wait_payload' = FALSE /\ payload_sent' = FALSE
    BY <2>1, <2>2, <2>3, TerminateDetaches
  <2>5. Held \ {active} = Queued
    BY <1>1 DEF Held, IInv, Places
  <2>6. queue' = EmptyQueue
    BY <2>1 DEF Terminate
  <2>7. outcome' = [outcome EXCEPT ![active] = result]
    BY DEF Complete
  <2> QED
    BY <1>1, <1>2, <1>3, <2>1, <2>3, <2>4, <2>5, <2>6, <2>7
<1>4. CASE ~Closes(active, result)
  BY <1>1, <1>2, <1>4 DEF Complete, Held, Queued, RawAfter, IInv, TypeOK, Places, Gates
<1> QED
  BY <1>3, <1>4

-----------------------------------------------------------------------------
(* The initial state satisfies the invariant.                              *)
LEMMA InitIInv == Init => IInv
<1> SUFFICES ASSUME Init PROVE IInv
  OBVIOUS
<1>1. TypeOK
  BY DEF Init, TypeOK, EmptyQueue, NoLine, Result, AsyncStatus, Stage
<1>2. Queued = {} /\ Held = {}
  BY DEF Init, EmptyQueue, Queued, Held
<1> QED
  BY <1>1, <1>2 DEF Init, IInv, Places, Gates, terminating, EmptyQueue

(* A command that enters the table.                                        *)
LEMMA EnqueueKeeps ==
    ASSUME IInv, NEW o \in Op, outcome[o] = "new", Enqueue(o),
           adapter' \in [Guarded -> AsyncStatus]
    PROVE  IInv' /\ Queued' = Queued \cup {o}
<1>1. PICK s \in Slot : queue[s] = NoOp /\ queue' = [queue EXCEPT ![s] = o]
  BY DEF Enqueue, FirstFree
<1>2. ~quarantined /\ ~terminating /\ outcome' = [outcome EXCEPT ![o] = "accepted"]
      /\ UNCHANGED <<active, wait_payload, payload_sent, raw, guard, quarantined, callvars, rx, modem>>
  BY DEF Enqueue
<1>3. Queued' = Queued \cup {o}
  BY <1>1 DEF Queued, IInv, TypeOK
<1>4. o \notin Held
  BY DEF IInv, Places
<1>5. Held' = Held \cup {o}
  BY <1>2, <1>3 DEF Held, callvars
<1>6. TypeOK'
  BY <1>1, <1>2 DEF IInv, TypeOK, callvars
<1>7. Places'
  <2>1. \A p \in Op : outcome'[p] = "accepted" <=> p \in Held'
    BY <1>2, <1>5 DEF IInv, Places, TypeOK
  <2>2. \A t \in Slot : queue[t] # o
    BY <1>4 DEF Held, Queued
  <2>3. \A t, u \in Slot : queue'[t] = queue'[u] /\ queue'[t] # NoOp => t = u
    BY <1>1, <2>2 DEF IInv, Places, TypeOK
  <2> QED
    BY <1>2, <1>3, <1>4, <2>1, <2>3 DEF IInv, Places, Held, callvars
<1>8. Gates'
  BY <1>2 DEF IInv, Gates, terminating, callvars
<1> QED
  BY <1>3, <1>6, <1>7, <1>8 DEF IInv

(* terminate_all over what the client holds.                               *)
LEMMA TerminateKeeps ==
    ASSUME IInv, NEW result \in Result, ~terminating,
           NEW back \in {"idle", "line", "timeout", "reset"},
           Terminate(active, queue, result, back),
           guard' \in BOOLEAN, quarantined' \in BOOLEAN, modem' \in [Op -> Stage],
           UNCHANGED <<line, adapter, rx, outcome>>
    PROVE  IInv' /\ Held' = Held /\ Queued' = {} /\ active' = NoOp
<1>1. active \in Op \cup {NoOp} /\ queue \in [Slot -> Op \cup {NoOp}] /\ pending = {}
  BY DEF IInv, TypeOK, Gates, terminating
<1>2. /\ active' = NoOp /\ Queued' = {} /\ pending' = Detached(active, queue)
      /\ Held' = Detached(active, queue)
      /\ queue' \in [Slot -> Op \cup {NoOp}] /\ pending' \subseteq Op /\ verdict' = result
      /\ phase' = "notify" /\ after' = back
      /\ raw' = NoOwner /\ wait_payload' = FALSE /\ payload_sent' = FALSE
  BY <1>1, TerminateDetaches
<1>3. Held = Detached(active, queue)
  BY <1>1 DEF Held, Queued, Detached
<1>4. queue' = EmptyQueue
  BY DEF Terminate
<1>5. TypeOK'
  BY <1>2 DEF IInv, TypeOK
<1>6. Places'
  BY <1>1, <1>2, <1>3, <1>4 DEF IInv, Places, EmptyQueue
<1>7. Gates'
  BY <1>2 DEF Gates
<1> QED
  BY <1>2, <1>3, <1>5, <1>6, <1>7 DEF IInv

(* The owner's done callback after complete.                               *)
LEMMA CompleteKeeps ==
    ASSUME IInv, active # NoOp, NEW result \in Result, NEW back \in {"idle", "timeout"},
           Complete(result, back),
           guard' \in BOOLEAN, rx' = rx, modem' \in [Op -> Stage],
           line' \in [op : Op \cup {NoOp}, text : Text \cup {"none"}]
    PROVE  IInv'
<1>1. /\ active \in Op /\ active' = NoOp
      /\ outcome' = [outcome EXCEPT ![active] = result]
      /\ Held' = Held \ {active}
      /\ wait_payload' = FALSE /\ payload_sent' = FALSE
      /\ raw' \in {NoOwner, raw} /\ quarantined' \in BOOLEAN
      /\ adapter' \in [Guarded -> AsyncStatus]
      /\ verdict' \in Result
      /\ \/ /\ quarantined' = TRUE /\ phase' = "notify" /\ after' = back
            /\ queue' = EmptyQueue /\ pending' = Queued /\ Queued' = {}
         \/ /\ UNCHANGED <<queue, quarantined, pending, verdict, after>>
            /\ phase' = back /\ Queued' = Queued
  BY CompleteSettles
<1>2. ~quarantined /\ ~terminating /\ pending = {}
  BY DEF IInv, TypeOK, Gates, terminating
<1>3. queue' \in [Slot -> Op \cup {NoOp}] /\ pending' \subseteq Op
  BY <1>1 DEF IInv, TypeOK, EmptyQueue, Queued
<1>4. TypeOK'
  BY <1>1, <1>3 DEF IInv, TypeOK, Result
<1>5. Places'
  <2>1. \A o \in Op : outcome'[o] = "accepted" <=> o \in Held'
    BY <1>1 DEF IInv, Places, TypeOK, Result
  <2>2. \A s, t \in Slot : queue'[s] = queue'[t] /\ queue'[s] # NoOp => s = t
    BY <1>1 DEF IInv, Places, EmptyQueue
  <2>3. active' \notin Queued' \cup pending' /\ Queued' \cap pending' = {}
    BY <1>1, <1>2, <1>3 DEF Queued
  <2> QED
    BY <2>1, <2>2, <2>3 DEF Places
<1>6. Gates'
  BY <1>1, <1>2 DEF Gates, terminating
<1> QED
  BY <1>4, <1>5, <1>6 DEF IInv

(* Quarantine, whoever calls it.                                           *)
LEMMA QuarantineKeeps == ASSUME IInv, Quarantine PROVE IInv'
<1>1. CASE terminating
  <2>1. quarantined' = TRUE /\ UNCHANGED <<queue, active, wait_payload, payload_sent, raw, guard, callvars,
                                           modem, adapter, rx, outcome>>
    BY <1>1 DEF Quarantine
  <2> QED
    BY <1>1, <2>1 DEF IInv, TypeOK, Places, Gates, Held, Queued, terminating, callvars
<1>2. CASE ~terminating
  <2>1. /\ Terminate(active, queue, "ERROR", phase) /\ Escape(active) /\ quarantined' = TRUE
        /\ UNCHANGED <<line, adapter, rx, outcome>>
    BY <1>2 DEF Quarantine
  <2>2. modem' \in [Op -> Stage] /\ guard' \in BOOLEAN
    BY <2>1, ModemStages DEF IInv, TypeOK
  <2>3. "ERROR" \in Result /\ phase \in {"idle", "line", "timeout", "reset"}
    BY <1>2 DEF Result, IInv, TypeOK, terminating
  <2> QED
    BY <1>2, <2>1, <2>2, <2>3, TerminateKeeps
<1> QED
  BY <1>1, <1>2

(* Commands that leave the table or the wire without an answer.            *)
LEMMA WithdrawKeeps ==
    ASSUME IInv, NEW w \in Owner,
           active' \in {active, NoOp}, active' = (IF active \in Owned(w) THEN NoOp ELSE active),
           queue' = QueueWithout(w), outcome' = Cancelled(Owned(w)),
           raw' \in Owner \cup {NoOwner}, guard' \in BOOLEAN, modem' \in [Op -> Stage],
           adapter' \in [Guarded -> AsyncStatus],
           UNCHANGED <<wait_payload, payload_sent, quarantined, callvars, rx>>
    PROVE  IInv' /\ Held' = Held \ Owned(w) /\ Queued' = Queued \ Owned(w)
<1>1. Owned(w) \subseteq Op /\ NoOp \notin Owned(w) /\ Owned(w) \cap pending = {}
  BY DEF Owned, Queued, IInv, TypeOK, Places
<1>2. Queued' = Queued \ Owned(w)
  BY <1>1 DEF QueueWithout, Queued, IInv, TypeOK
<1>3. Held' = Held \ Owned(w)
  BY <1>1, <1>2 DEF Held, callvars
<1>4. TypeOK'
  BY <1>1 DEF IInv, TypeOK, callvars, QueueWithout, Cancelled
<1>5. Places'
  <2>1. \A o \in Op : outcome'[o] = "accepted" <=> o \in Held'
    BY <1>3 DEF IInv, Places, Cancelled
  <2>2. \A s, t \in Slot : queue'[s] = queue'[t] /\ queue'[s] # NoOp => s = t
    BY DEF IInv, Places, QueueWithout
  <2>3. active' \notin Queued' \cup pending'
    <3>1. NoOp \notin Queued \cup pending
      BY DEF Queued, IInv, TypeOK
    <3> QED
      BY <1>2, <3>1 DEF IInv, Places, callvars
  <2>4. Queued' \cap pending' = {}
    BY <1>2 DEF IInv, Places, callvars
  <2> QED
    BY <2>1, <2>2, <2>3, <2>4 DEF Places
<1>6. Gates'
  BY <1>2 DEF IInv, Gates, terminating, callvars
<1> QED
  BY <1>2, <1>3, <1>4, <1>5, <1>6 DEF IInv

(* The next command goes to the wire, or its write fails.                  *)
LEMMA StartKeeps ==
    ASSUME IInv, MayStart, ~terminating, NEW s \in Slot, NextCommand(s), StartNext(s, "idle"),
           UNCHANGED <<line, adapter, rx, outcome>>
    PROVE  /\ IInv'
           /\ queue[s] \in Queued
           /\ \/ /\ active' = queue[s] /\ Queued' = Queued \ {queue[s]}
                 /\ UNCHANGED <<pending, quarantined>> /\ phase' = "idle"
              \/ /\ active' = NoOp /\ Queued' = {} /\ pending' = Queued
                 /\ quarantined' = TRUE /\ phase' = "notify"
<1> DEFINE o == queue[s]
           rest == [queue EXCEPT ![s] = NoOp]
<1>1. /\ o \in Queued /\ o \in Op /\ active = NoOp /\ pending = {} /\ ~quarantined
      /\ Held = Queued
  BY DEF NextCommand, MayStart, Queued, Held, IInv, TypeOK, Gates, terminating
<1>2. /\ rest \in [Slot -> Op \cup {NoOp}]
      /\ {rest[t] : t \in Slot} \ {NoOp} = Queued \ {o}
  BY <1>1 DEF Queued, IInv, TypeOK, Places
<1>3. CASE /\ active' = o /\ queue' = rest
           /\ wait_payload' = FALSE /\ payload_sent' = FALSE
           /\ Written(o)
           /\ phase' = "idle"
           /\ UNCHANGED <<raw, guard, quarantined, pending, verdict, after>>
  <2>1. Queued' = Queued \ {o}
    BY <1>2, <1>3 DEF Queued
  <2>2. Held' = Held
    BY <1>1, <1>3, <2>1 DEF Held
  <2>3. TypeOK'
    BY <1>1, <1>2, <1>3, ModemStages DEF IInv, TypeOK
  <2>4. Places'
    <3>1. \A t, u \in Slot : queue'[t] = queue'[u] /\ queue'[t] # NoOp => t = u
      BY <1>3 DEF IInv, Places, TypeOK
    <3> QED
      BY <1>1, <1>3, <2>1, <2>2, <3>1 DEF IInv, Places
  <2>5. Gates'
    BY <1>1, <1>3 DEF Gates, terminating
  <2> QED
    BY <1>1, <1>3, <2>1, <2>3, <2>4, <2>5 DEF IInv
<1>4. CASE /\ quarantined' = TRUE
           /\ Terminate(o, rest, "SEND_FAIL", "idle")
           /\ guard' = (guard \/ Payload(o))
           /\ Written(o) \/ UNCHANGED modem
  <2>1. Detached(o, rest) = Queued
    BY <1>1, <1>2 DEF Detached
  <2>2. "SEND_FAIL" \in Result
    BY DEF Result
  <2>3. /\ active' = NoOp /\ Queued' = {} /\ pending' = Queued /\ Held' = Queued
        /\ queue' \in [Slot -> Op \cup {NoOp}] /\ pending' \subseteq Op
        /\ verdict' = "SEND_FAIL" /\ phase' = "notify" /\ after' = "idle"
        /\ raw' = NoOwner /\ wait_payload' = FALSE /\ payload_sent' = FALSE
    <3> HIDE DEF o, rest
    <3> QED
      BY <1>1, <1>2, <1>4, <2>1, <2>2, TerminateDetaches
  <2>4. queue' = EmptyQueue
    BY <1>4 DEF Terminate
  <2>5. modem' \in [Op -> Stage] /\ guard' \in BOOLEAN
    BY <1>1, <1>4, ModemStages DEF IInv, TypeOK, Payload
  <2>6. TypeOK'
    BY <1>4, <2>2, <2>3, <2>5 DEF IInv, TypeOK
  <2>7. Places'
    BY <1>1, <2>3, <2>4 DEF IInv, Places, EmptyQueue
  <2>8. Gates'
    BY <2>3 DEF Gates
  <2> QED
    BY <1>1, <1>4, <2>3, <2>6, <2>7, <2>8 DEF IInv
<1> QED
  BY <1>3, <1>4 DEF StartNext

(* A step that leaves the tables and the gates alone.                      *)
LEMMA TablesKept ==
    ASSUME IInv, TypeOK', UNCHANGED <<queue, active, pending, outcome>>,
           (quarantined' \/ terminating') => active = NoOp /\ Queued = {},
           pending # {} => phase' = "notify",
           phase' = "timeout" => active = NoOp
    PROVE  IInv'
<1>1. Queued' = Queued /\ Held' = Held
  BY DEF Queued, Held
<1> QED
  BY <1>1 DEF IInv, Places, Gates, terminating

(* Every step preserves the invariant.                                     *)
LEMMA StepIInv == IInv /\ [Next]_vars => IInv'
<1> SUFFICES ASSUME IInv, [Next]_vars PROVE IInv'
  OBVIOUS
<1>0. TypeOK
  BY DEF IInv
<1>1. ASSUME NEW o \in Op, Submit(o) PROVE IInv'
  BY <1>0, <1>1, EnqueueKeeps DEF Submit, TypeOK
<1>2. ASSUME NEW o \in Op, AdapterSubmit(o) PROVE IInv'
  <2>1. adapter' \in [Guarded -> AsyncStatus] /\ outcome[o] = "new" /\ Enqueue(o)
    BY <1>0, <1>2 DEF AdapterSubmit, TypeOK, AsyncStatus
  <2> QED
    BY <2>1, EnqueueKeeps
<1>3. ASSUME NEW force \in BOOLEAN, SendPayload(force) PROVE IInv'
  <2>1. CASE /\ wait_payload' = TRUE /\ payload_sent' = TRUE
             /\ DataTo("given")
             /\ UNCHANGED <<queue, active, raw, guard, quarantined, callvars>>
    <3>1. modem' \in [Op -> Stage]
      BY <1>0, <2>1, ModemStages DEF Stage
    <3>2. UNCHANGED <<adapter, rx, outcome>>
      BY <1>3 DEF SendPayload
    <3> QED
      <4>1. TypeOK'
        BY <1>0, <2>1, <3>1, <3>2 DEF TypeOK, callvars
      <4> QED
        BY <2>1, <3>2, <4>1, TablesKept DEF IInv, Gates, terminating, callvars
  <2>2. CASE /\ quarantined' = TRUE
             /\ Terminate(active, queue, "SEND_FAIL", phase)
             /\ Escape(active)
             /\ UNCHANGED line
    <3>1. active # NoOp /\ UNCHANGED <<adapter, rx, outcome>>
      BY <1>3 DEF SendPayload
    <3>2. ~terminating
      BY <3>1 DEF IInv, Gates
    <3>3. modem' \in [Op -> Stage] /\ guard' \in BOOLEAN
      BY <1>0, <2>2, ModemStages DEF TypeOK
    <3>4. "SEND_FAIL" \in Result /\ phase \in {"idle", "line", "timeout", "reset"}
      BY <1>0, <3>2 DEF Result, TypeOK, terminating
    <3> QED
      BY <2>2, <3>1, <3>2, <3>3, <3>4, TerminateKeeps
  <2> QED
    BY <1>3, <2>1, <2>2 DEF SendPayload
<1>4. ASSUME NEW w \in Owner, BeginRaw(w) PROVE IInv'
  BY <1>4 DEF BeginRaw, IInv, TypeOK, Places, Gates, Held, Queued, terminating, callvars
<1>5. ASSUME NEW w \in Owner, Cancel(w) PROVE IInv'
  <2>1. modem' \in [Op -> Stage] /\ guard' \in BOOLEAN
    BY <1>0, <1>5, ModemStages DEF Cancel, TypeOK
  <2>2. active' = (IF active \in Owned(w) THEN NoOp ELSE active)
    BY <1>5 DEF Cancel
  <2>3. raw' \in Owner \cup {NoOwner}
    BY <1>0, <1>5 DEF Cancel, TypeOK
  <2> QED
    BY <1>0, <1>5, <2>1, <2>2, <2>3, WithdrawKeeps DEF Cancel, TypeOK
<1>6. ASSUME NEW w \in Owner, AdapterCancel(w) PROVE IInv'
  <2>1. CASE active \in Owned(w)
    <3>1. /\ quarantined' = TRUE /\ Terminate(active, queue, "ERROR", phase) /\ Escape(active)
          /\ UNCHANGED <<line, adapter, rx, outcome>>
      BY <1>6, <2>1 DEF AdapterCancel
    <3>2. active # NoOp
      BY <1>0, <2>1 DEF Owned, TypeOK, Queued
    <3>3. ~terminating
      BY <3>2 DEF IInv, Gates
    <3>4. modem' \in [Op -> Stage] /\ guard' \in BOOLEAN
      BY <1>0, <3>1, ModemStages DEF TypeOK
    <3>5. "ERROR" \in Result /\ phase \in {"idle", "line", "timeout", "reset"}
      BY <1>0, <3>3 DEF Result, TypeOK, terminating
    <3> QED
      BY <3>1, <3>3, <3>4, <3>5, TerminateKeeps
  <2>2. CASE active \notin Owned(w)
    <3>1. /\ queue' = QueueWithout(w) /\ outcome' = Cancelled(Owned(w))
          /\ adapter' = [adapter EXCEPT ![w] = "cancelled"]
          /\ UNCHANGED <<active, wait_payload, payload_sent, raw, guard, quarantined,
                         callvars, modem, rx>>
      BY <1>6, <2>2 DEF AdapterCancel
    <3>2. adapter' \in [Guarded -> AsyncStatus]
      BY <1>0, <3>1 DEF TypeOK, AsyncStatus
    <3> QED
      BY <1>0, <2>2, <3>1, <3>2, WithdrawKeeps DEF TypeOK
  <2> QED
    BY <2>1, <2>2
<1>7. CASE Quarantine
  BY <1>7, QuarantineKeeps
<1>8. CASE TaskLocked
  BY <1>8, QuarantineKeeps DEF TaskLocked
<1>9. CASE TaskTimeout
  <2>1. modem' \in [Op -> Stage] /\ guard' \in BOOLEAN
    BY <1>0, <1>9, ModemStages DEF TaskTimeout, TypeOK
  <2>2. active # NoOp /\ Complete("TIMEOUT", "timeout") /\ rx' = rx /\ line' = line
    BY <1>9 DEF TaskTimeout
  <2>3. "TIMEOUT" \in Result
    BY DEF Result
  <2> QED
    BY <1>0, <2>1, <2>2, <2>3, CompleteKeeps DEF TypeOK
<1>10. CASE TaskStart
  BY <1>10, StartKeeps DEF TaskStart, terminating
<1>11. CASE TaskReturns
  <2>1. CASE MayStart
    BY <1>11, <2>1, StartKeeps DEF TaskReturns, terminating
  <2>2. CASE ~MayStart
    <3>1. phase = "timeout" /\ phase' = "idle"
          /\ UNCHANGED <<atvars, pending, verdict, after, modem, line, adapter, rx, outcome>>
      BY <1>11, <2>2 DEF TaskReturns
    <3> QED
      <4>1. TypeOK'
        BY <1>0, <3>1 DEF TypeOK, atvars
      <4> QED
        BY <3>1, <4>1, TablesKept DEF IInv, Gates, terminating, atvars
  <2> QED
    BY <2>1, <2>2
<1>12. CASE GuardExpires
  <2>1. /\ guard' \in BOOLEAN
        /\ UNCHANGED <<queue, active, wait_payload, payload_sent, raw, quarantined, phase, line,
                       pending, verdict, after, adapter, rx, modem, outcome>>
    BY <1>12 DEF GuardExpires, callvars
  <2>2. TypeOK'
    BY <1>0, <2>1 DEF TypeOK
  <2>3. /\ quarantined' \/ terminating' => active = NoOp /\ Queued = {}
        /\ pending # {} => phase' = "notify"
        /\ phase' = "timeout" => active = NoOp
    BY <2>1 DEF IInv, Gates, terminating
  <2> QED
    BY <2>1, <2>2, <2>3, TablesKept
<1>13. ASSUME NEW o \in Op, LineArrives(o) PROVE IInv'
  <2>1. PICK reply \in Reply(KindOf[o]) :
          /\ modem' = [modem EXCEPT ![o] = reply[3]]
          /\ line' = [op |-> o, text |-> reply[2]]
          /\ wait_payload' = (wait_payload \/ (active # NoOp /\ reply[2] = "prompt" /\ ~payload_sent))
    BY <1>13 DEF LineArrives
  <2>2. reply[2] \in Text /\ reply[3] \in Stage
    BY <1>0, ModemStages
  <2>3. /\ phase = "idle" /\ phase' = "line"
        /\ UNCHANGED <<queue, active, payload_sent, raw, guard, quarantined,
                       pending, verdict, after, adapter, rx, outcome>>
    BY <1>13 DEF LineArrives
  <2>4. TypeOK'
    BY <1>0, <2>1, <2>2, <2>3 DEF TypeOK
  <2> QED
    BY <2>3, <2>4 DEF IInv, Places, Gates, Held, Queued, terminating
<1>14. ASSUME NEW o \in Op, LineSwallowed(o) PROVE IInv'
  <2>1. modem' \in [Op -> Stage]
    BY <1>0, <1>14, ModemStages DEF LineSwallowed, TypeOK
  <2> QED
    <3>1. /\ phase = "idle"
          /\ UNCHANGED <<queue, active, wait_payload, payload_sent, raw, guard, quarantined,
                         phase, line, pending, verdict, after, adapter, rx, outcome>>
      BY <1>14 DEF LineSwallowed, atvars, callvars
    <3>2. TypeOK'
      BY <1>0, <2>1, <3>1 DEF TypeOK
    <3> QED
      BY <3>1, <3>2, TablesKept DEF IInv, Gates, terminating
<1>15. CASE RawTaken
  <2>1. TypeOK'
    BY <1>0, <1>15 DEF RawTaken, TypeOK, callvars
  <2> QED
    BY <1>15, <2>1, TablesKept DEF RawTaken, IInv, Gates, terminating, callvars
<1>16. CASE Receive
  <2>1. TypeOK'
    BY <1>0, <1>16 DEF Receive, TypeOK, atvars, callvars
  <2> QED
    BY <1>16, <2>1, TablesKept DEF Receive, IInv, Gates, terminating, atvars, callvars
<1>17. CASE LineReturns
  <2>0. /\ phase = "line" /\ line' = NoLine /\ UNCHANGED <<guard, rx, modem>>
        /\ NoLine \in [op : Op \cup {NoOp}, text : Text \cup {"none"}]
    BY <1>17 DEF LineReturns, NoLine
  <2>1. CASE active # NoOp /\ Completes(line, active)
    <3>1. PICK result \in Results(line.text) : Complete(result, "idle")
      BY <1>17, <2>1 DEF LineReturns
    <3>2. line.text \in Text
      BY <2>1 DEF Completes, Text
    <3>3. result \in Result
      <4>1. line.text \in {"ok", "error", "send_ok", "send_fail", "urc"}
        BY <2>1 DEF Completes
      <4>2. Results(line.text) \subseteq Result
        BY <4>1 DEF Results, Result
      <4> QED
        BY <3>1, <4>2
    <3> QED
      BY <1>0, <2>0, <2>1, <3>1, <3>3, CompleteKeeps DEF TypeOK
  <2>2. CASE ~(active # NoOp /\ Completes(line, active))
    <3>1. phase' = "idle" /\ UNCHANGED <<queue, active, wait_payload, payload_sent, raw, quarantined,
                                         pending, verdict, after, adapter, outcome>>
      BY <1>17, <2>2 DEF LineReturns
    <3> QED
      <4>1. TypeOK'
        BY <1>0, <2>0, <3>1 DEF TypeOK, NoLine
      <4> QED
        BY <2>0, <3>1, <4>1, TablesKept DEF IInv, Gates, terminating
  <2> QED
    BY <2>1, <2>2
<1>18. CASE OnModemReset
  <2>1. /\ phase = "idle" /\ Terminate(active, queue, "ERROR", "reset")
        /\ guard' \in BOOLEAN /\ modem' \in [Op -> Stage]
        /\ UNCHANGED <<line, quarantined, adapter, rx, outcome>>
    BY <1>0, <1>18 DEF OnModemReset, TypeOK, Stage, Payload
  <2>2. "ERROR" \in Result
    BY DEF Result
  <2> QED
    BY <1>0, <2>1, <2>2, TerminateKeeps DEF terminating, TypeOK
<1>19. ASSUME NEW o \in Op, Notify(o) PROVE IInv'
  <2>1. /\ phase = "notify" /\ o \in pending /\ pending' = pending \ {o}
        /\ outcome' = [outcome EXCEPT ![o] = verdict]
        /\ quarantined' \in BOOLEAN /\ adapter' \in [Guarded -> AsyncStatus]
        /\ UNCHANGED <<queue, active, wait_payload, payload_sent, raw, guard,
                       phase, line, verdict, after, rx, modem>>
    BY <1>0, <1>19, AnsweredStatus DEF Notify, Closes, TypeOK
  <2>2. active = NoOp /\ Queued = {} /\ Queued' = {}
    BY <2>1 DEF IInv, Gates, terminating, Queued
  <2>3. Held = pending /\ Held' = pending'
    BY <2>1, <2>2 DEF Held
  <2>4. TypeOK'
    BY <1>0, <2>1 DEF TypeOK
  <2>5. Places'
    BY <2>1, <2>2, <2>3 DEF IInv, Places, TypeOK, Result
  <2>6. Gates'
    BY <2>1, <2>2 DEF Gates
  <2> QED
    BY <2>4, <2>5, <2>6 DEF IInv
<1>20. CASE AllNotified
  <2>1. /\ phase = "notify" /\ pending = {}
        /\ phase' \in {"idle", "line", "timeout", "broadcast"}
        /\ raw' \in {raw, NoOwner} /\ guard' \in BOOLEAN /\ quarantined' \in BOOLEAN
        /\ rx' \in {rx, "line"}
        /\ UNCHANGED <<queue, active, wait_payload, payload_sent, line, pending, verdict, after,
                       adapter, modem, outcome>>
    BY <1>0, <1>20 DEF AllNotified, TypeOK
  <2>2. TypeOK'
    BY <1>0, <2>1 DEF TypeOK
  <2> QED
    BY <2>1, <2>2, TablesKept DEF IInv, Gates, terminating
<1>21. CASE ResetReturns
  <2>1. TypeOK'
    BY <1>0, <1>21 DEF ResetReturns, TypeOK, atvars, AsyncStatus
  <2> QED
    BY <1>21, <2>1, TablesKept DEF ResetReturns, IInv, Gates, terminating, atvars
<1>22. CASE UNCHANGED vars
  <2>1. TypeOK'
    BY <1>0, <1>22 DEF vars, TypeOK, atvars, callvars
  <2> QED
    BY <1>22, <2>1, TablesKept DEF vars, IInv, Gates, terminating, atvars, callvars
<1> QED
  BY <1>1, <1>2, <1>3, <1>4, <1>5, <1>6, <1>7, <1>8, <1>9, <1>10, <1>11, <1>12, <1>13, <1>14,
     <1>15, <1>16, <1>17, <1>18, <1>19, <1>20, <1>21, <1>22
     DEF Next, Call, Task, Return, Feed

(* The client's tables stay consistent for ever.                           *)
THEOREM ClientInvariant == Spec => []IInv
BY InitIInv, StepIInv, PTL DEF Spec

(* Every variable keeps its type.                                          *)
THEOREM TypeCorrect == Spec => []TypeOK
BY ClientInvariant, PTL DEF IInv

-----------------------------------------------------------------------------
(* The refinement.  Under the invariant the place of a command can be read *)
(* off any of the client's tables.                                         *)
GateNow == IF quarantined \/ terminating THEN "closed" ELSE "open"

PlacesRead ==
    \A o \in Op : /\ PlaceOf(o) = "running" <=> o = active
                  /\ PlaceOf(o) = "queued" <=> o \in Queued
                  /\ PlaceOf(o) = "detached" <=> o \in pending
                  /\ PlaceOf(o) = "new" <=> outcome[o] = "new"
                  /\ PlaceOf(o) = "withdrawn" <=> outcome[o] = "cancelled"
                  /\ PlaceOf(o) = "settled" <=> outcome[o] \in Result
                  /\ PlaceOf(o) \in {"new", "queued", "running", "detached", "settled", "withdrawn"}

LEMMA PlacesAreRead == IInv => PlacesRead
<1> SUFFICES ASSUME IInv, NEW o \in Op
             PROVE  /\ PlaceOf(o) = "running" <=> o = active
                    /\ PlaceOf(o) = "queued" <=> o \in Queued
                    /\ PlaceOf(o) = "detached" <=> o \in pending
                    /\ PlaceOf(o) = "new" <=> outcome[o] = "new"
                    /\ PlaceOf(o) = "withdrawn" <=> outcome[o] = "cancelled"
                    /\ PlaceOf(o) = "settled" <=> outcome[o] \in Result
                    /\ PlaceOf(o) \in {"new", "queued", "running", "detached", "settled", "withdrawn"}
  BY DEF PlacesRead
<1>1. /\ outcome[o] = "accepted" <=> (o = active \/ o \in Queued \/ o \in pending)
      /\ ~(o = active /\ o \in Queued) /\ ~(o = active /\ o \in pending)
      /\ ~(o \in Queued /\ o \in pending)
  BY DEF IInv, Places, Held
<1>2. outcome[o] \in {"new", "accepted", "cancelled"} \cup Result
  BY DEF IInv, TypeOK
<1> QED
  BY <1>1, <1>2 DEF PlaceOf, Result

(* A step in which exactly one command changes its place.                  *)
LEMMA OneMoves ==
    ASSUME NEW o \in Op, NEW from, NEW to, PlaceOf(o) = from, PlaceOf(o)' = to,
           \A p \in Op : p # o => PlaceOf(p)' = PlaceOf(p)
    PROVE  Commands!Move(o, from, to)
BY DEF Commands!Move

(* A step that empties every table into the list of owners to be told.     *)
LEMMA AllDetached ==
    ASSUME IInv, IInv', NEW O \in SUBSET Op, O \subseteq {active}, ~terminating,
           active' = NoOp, Queued' = {}, pending' = Held \ O,
           outcome' = outcome \/ \E o \in O, result \in Result : outcome' = [outcome EXCEPT ![o] = result],
           \A o \in O : outcome'[o] \in Result,
           GateNow' = "closed"
    PROVE  Commands!Next
<1>1. PlacesRead /\ PlacesRead'
  BY PlacesAreRead, PTL
<1>2. pending = {} /\ Held = Queued \cup ({active} \ {NoOp})
  BY DEF IInv, Gates, terminating, Held
<1>3. ASSUME NEW o \in Op
      PROVE  PlaceOf(o)' = IF o \in O THEN "settled"
                           ELSE IF PlaceOf(o) \in {"queued", "running"} THEN "detached"
                           ELSE PlaceOf(o)
  <2>1. CASE o \in O
    BY <1>1, <2>1 DEF PlacesRead
  <2>2. CASE o \notin O /\ (o = active \/ o \in Queued)
    BY <1>1, <1>2, <2>2 DEF PlacesRead
  <2>3. CASE o \notin O /\ o # active /\ o \notin Queued
    <3>1. o \notin pending' /\ outcome'[o] = outcome[o]
      BY <1>2, <2>3 DEF IInv, TypeOK
    <3> QED
      BY <1>1, <1>2, <2>3, <3>1 DEF PlacesRead
  <2> QED
    BY <2>1, <2>2, <2>3
<1>4. \A o \in O : PlaceOf(o) = "running"
  BY <1>1 DEF PlacesRead
<1>5. Commands!Close(O)
  BY <1>3, <1>4 DEF Commands!Close, GateNow
<1> QED
  BY <1>5 DEF Commands!Next

(* A step that changes no place and no gate.                               *)
LEMMA NothingMoves ==
    ASSUME UNCHANGED <<queue, active, pending, outcome>>, GateNow' = GateNow
    PROVE  UNCHANGED Commands!vars
<1>1. \A o \in Op : PlaceOf(o)' = PlaceOf(o)
  BY DEF PlaceOf, Queued
<1> QED
  BY <1>1 DEF Commands!vars, GateNow

LEMMA EnqueueAccepts ==
    ASSUME IInv, IInv', NEW o \in Op, outcome[o] = "new", Enqueue(o), Queued' = Queued \cup {o}
    PROVE  Commands!Next
<1>1. PlacesRead /\ PlacesRead'
  BY PlacesAreRead, PTL
<1>2. /\ outcome' = [outcome EXCEPT ![o] = "accepted"] /\ ~quarantined /\ ~terminating
      /\ UNCHANGED <<active, pending, quarantined, phase>>
  BY DEF Enqueue, callvars
<1>3. PlaceOf(o) = "new" /\ PlaceOf(o)' = "queued"
  BY <1>1 DEF PlacesRead
<1>4. ASSUME NEW p \in Op, p # o PROVE PlaceOf(p)' = PlaceOf(p)
  BY <1>2, <1>4 DEF PlaceOf, IInv, TypeOK
<1>5. Commands!Move(o, "new", "queued")
  BY <1>3, <1>4, OneMoves
<1>6. Commands!Accept(o)
  BY <1>2, <1>5 DEF Commands!Accept, terminating
<1> QED
  BY <1>6 DEF Commands!Next

LEMMA TerminateCloses ==
    ASSUME IInv, IInv', NEW result \in Result, ~terminating, NEW back,
           Terminate(active, queue, result, back), outcome' = outcome
    PROVE  Commands!Next
<1>1. active \in Op \cup {NoOp} /\ queue \in [Slot -> Op \cup {NoOp}] /\ pending = {}
  BY DEF IInv, TypeOK, Gates, terminating
<1>2. active' = NoOp /\ Queued' = {} /\ pending' = Detached(active, queue) /\ phase' = "notify"
  BY <1>1, TerminateDetaches
<1>3. Detached(active, queue) = Held \ {}
  BY <1>1 DEF Held, Queued, Detached
<1>4. GateNow' = "closed"
  BY <1>2 DEF GateNow, terminating
<1> QED
  BY <1>2, <1>3, <1>4, AllDetached

LEMMA CompleteRefines ==
    ASSUME IInv, IInv', active # NoOp, NEW result \in Result, NEW back \in {"idle", "timeout"},
           Complete(result, back)
    PROVE  Commands!Next
<1>1. PlacesRead /\ PlacesRead'
  BY PlacesAreRead, PTL
<1>2. /\ active \in Op /\ active' = NoOp
      /\ outcome' = [outcome EXCEPT ![active] = result]
      /\ Held' = Held \ {active}
      /\ \/ /\ quarantined' = TRUE /\ phase' = "notify"
            /\ pending' = Queued /\ Queued' = {}
         \/ /\ UNCHANGED <<queue, quarantined, pending>>
            /\ phase' = back /\ Queued' = Queued
  BY CompleteSettles
<1>3. ~quarantined /\ ~terminating /\ pending = {} /\ active \notin Queued
  BY DEF IInv, Gates, Places, terminating
<1>4. outcome'[active] \in Result
  BY <1>2 DEF IInv, TypeOK
<1>5. CASE quarantined' = TRUE /\ phase' = "notify" /\ pending' = Queued /\ Queued' = {}
  <2>1. pending' = Held \ {active}
    BY <1>2, <1>3, <1>5 DEF Held
  <2>2. GateNow' = "closed"
    BY <1>5 DEF GateNow
  <2>3. {active} \in SUBSET Op
    BY <1>2
  <2> QED
    BY <1>2, <1>3, <1>4, <1>5, <2>1, <2>2, <2>3, AllDetached
<1>6. CASE UNCHANGED <<queue, quarantined, pending>> /\ phase' = back /\ Queued' = Queued
  <2>0. PICK o \in Op : o = active
    BY <1>2
  <2>1. PlaceOf(o) = "running" /\ PlaceOf(o)' = "settled"
    BY <1>1, <1>2, <1>4, <2>0 DEF PlacesRead
  <2>2. ASSUME NEW p \in Op, p # o PROVE PlaceOf(p)' = PlaceOf(p)
    BY <1>2, <1>6, <2>0, <2>2 DEF PlaceOf, IInv, TypeOK
  <2>3. Commands!Move(o, "running", "settled")
    BY <2>1, <2>2, OneMoves
  <2>4. GateNow' = GateNow
    BY <1>3, <1>6 DEF GateNow, terminating
  <2>5. Commands!Settle(o)
    BY <2>3, <2>4 DEF Commands!Settle, GateNow
  <2> QED
    BY <2>5 DEF Commands!Next
<1> QED
  BY <1>2, <1>5, <1>6

LEMMA WithdrawRefines ==
    ASSUME IInv, IInv', NEW w \in Owner,
           active' = (IF active \in Owned(w) THEN NoOp ELSE active),
           Queued' = Queued \ Owned(w), outcome' = Cancelled(Owned(w)),
           UNCHANGED <<quarantined, phase, pending>>
    PROVE  Commands!Next
<1>1. PlacesRead /\ PlacesRead'
  BY PlacesAreRead, PTL
<1>2. Owned(w) \subseteq Op /\ NoOp \notin Owned(w)
  BY DEF Owned, Queued, IInv, TypeOK
<1>3. ASSUME NEW o \in Op
      PROVE  PlaceOf(o)' = IF o \in Owned(w) THEN "withdrawn" ELSE PlaceOf(o)
  <2>1. CASE o \in Owned(w)
    BY <1>1, <2>1 DEF PlacesRead, Cancelled
  <2>2. CASE o \notin Owned(w)
    BY <2>2 DEF PlaceOf, Cancelled
  <2> QED
    BY <2>1, <2>2
<1>4. \A o \in Owned(w) : PlaceOf(o) \in {"queued", "running"}
  BY <1>1, <1>2 DEF PlacesRead, Owned
<1>5. GateNow' = GateNow
  BY DEF GateNow, terminating
<1>6. Commands!Withdraw(Owned(w))
  BY <1>2, <1>3, <1>4, <1>5 DEF Commands!Withdraw, GateNow
<1> QED
  BY <1>2, <1>6 DEF Commands!Next

LEMMA StartRefines ==
    ASSUME IInv, IInv', MayStart, ~terminating, NEW s \in Slot, NextCommand(s), StartNext(s, "idle"),
           UNCHANGED <<line, adapter, rx, outcome>>
    PROVE  Commands!Next
<1>1. PlacesRead /\ PlacesRead'
  BY PlacesAreRead, PTL
<1>2. /\ queue[s] \in Queued
      /\ \/ /\ active' = queue[s] /\ Queued' = Queued \ {queue[s]}
            /\ UNCHANGED <<pending, quarantined>> /\ phase' = "idle"
         \/ /\ active' = NoOp /\ Queued' = {} /\ pending' = Queued
            /\ quarantined' = TRUE /\ phase' = "notify"
  BY StartKeeps
<1>3. /\ queue[s] \in Op /\ active = NoOp /\ ~quarantined /\ pending = {} /\ Held = Queued
  BY <1>2 DEF MayStart, Queued, IInv, TypeOK, Gates, terminating, Held
<1>4. CASE /\ active' = queue[s] /\ Queued' = Queued \ {queue[s]}
           /\ UNCHANGED <<pending, quarantined>> /\ phase' = "idle"
  <2>0. PICK o \in Op : o = queue[s]
    BY <1>3
  <2>1. PlaceOf(o) = "queued" /\ PlaceOf(o)' = "running"
    BY <1>1, <1>2, <1>4, <2>0 DEF PlacesRead
  <2>2. ASSUME NEW p \in Op, p # o PROVE PlaceOf(p)' = PlaceOf(p)
    BY <1>3, <1>4, <2>0, <2>2 DEF PlaceOf
  <2>3. Commands!Move(o, "queued", "running")
    BY <2>1, <2>2, OneMoves
  <2>4. \A p \in Op : PlaceOf(p) # "running"
    BY <1>1, <1>3 DEF PlacesRead
  <2>5. Commands!Begin(o)
    BY <1>3, <1>4, <2>3, <2>4 DEF Commands!Begin, terminating
  <2> QED
    BY <2>5 DEF Commands!Next
<1>5. CASE /\ active' = NoOp /\ Queued' = {} /\ pending' = Queued
           /\ quarantined' = TRUE /\ phase' = "notify"
  <2>1. pending' = Held \ {}
    BY <1>3, <1>5
  <2>2. GateNow' = "closed"
    BY <1>5 DEF GateNow
  <2> QED
    BY <1>5, <2>1, <2>2, AllDetached
<1> QED
  BY <1>2, <1>4, <1>5

LEMMA QuarantineRefines ==
    ASSUME IInv, IInv', Quarantine
    PROVE  Commands!Next \/ UNCHANGED Commands!vars
<1>1. CASE terminating
  <2>1. quarantined' = TRUE /\ phase' = phase /\ UNCHANGED <<queue, active, pending, outcome>>
    BY <1>1 DEF Quarantine, callvars
  <2>2. GateNow' = GateNow
    BY <1>1, <2>1 DEF GateNow, terminating
  <2> QED
    BY <2>1, <2>2, NothingMoves
<1>2. CASE ~terminating
  <2>1. Terminate(active, queue, "ERROR", phase) /\ outcome' = outcome /\ "ERROR" \in Result
    BY <1>2 DEF Quarantine, Result
  <2> QED
    BY <1>2, <2>1, TerminateCloses
<1> QED
  BY <1>1, <1>2

(* A step of the client is a step of the command service or changes        *)
(* nothing that the service sees.                                          *)
LEMMA StepRefines == IInv /\ IInv' /\ [Next]_vars => [Commands!Next]_(Commands!vars)
<1> SUFFICES ASSUME IInv, IInv', [Next]_vars
             PROVE  Commands!Next \/ UNCHANGED Commands!vars
  OBVIOUS
<1>1. ASSUME NEW o \in Op, Submit(o) PROVE Commands!Next
  <2>1. adapter' \in [Guarded -> AsyncStatus] /\ outcome[o] = "new" /\ Enqueue(o)
    BY <1>1 DEF Submit, IInv, TypeOK
  <2> QED
    BY <2>1, EnqueueKeeps, EnqueueAccepts
<1>2. ASSUME NEW o \in Op, AdapterSubmit(o) PROVE Commands!Next
  <2>1. adapter' \in [Guarded -> AsyncStatus] /\ outcome[o] = "new" /\ Enqueue(o)
    BY <1>2 DEF AdapterSubmit, IInv, TypeOK, AsyncStatus
  <2> QED
    BY <2>1, EnqueueKeeps, EnqueueAccepts
<1>3. ASSUME NEW force \in BOOLEAN, SendPayload(force)
      PROVE  Commands!Next \/ UNCHANGED Commands!vars
  <2>1. CASE UNCHANGED <<queue, active, raw, guard, quarantined, callvars>>
    <3>1. UNCHANGED <<queue, active, pending, outcome>> /\ GateNow' = GateNow
      BY <1>3, <2>1 DEF SendPayload, GateNow, terminating, callvars
    <3> QED
      BY <3>1, NothingMoves
  <2>2. CASE Terminate(active, queue, "SEND_FAIL", phase)
    <3>1. ~terminating /\ outcome' = outcome /\ "SEND_FAIL" \in Result
      BY <1>3 DEF SendPayload, IInv, Gates, Result
    <3> QED
      BY <2>2, <3>1, TerminateCloses
  <2> QED
    BY <1>3, <2>1, <2>2 DEF SendPayload
<1>4. ASSUME NEW w \in Owner, Cancel(w) PROVE Commands!Next
  <2>1. /\ active' = (IF active \in Owned(w) THEN NoOp ELSE active)
        /\ queue' = QueueWithout(w) /\ outcome' = Cancelled(Owned(w))
        /\ UNCHANGED <<quarantined, phase, pending>>
    BY <1>4 DEF Cancel, callvars
  <2>2. Queued' = Queued \ Owned(w)
    BY <2>1 DEF QueueWithout, Queued, Owned, IInv, TypeOK
  <2> QED
    BY <2>1, <2>2, WithdrawRefines
<1>5. ASSUME NEW w \in Owner, AdapterCancel(w) PROVE Commands!Next
  <2>1. CASE active \in Owned(w)
    <3>1. Terminate(active, queue, "ERROR", phase) /\ outcome' = outcome /\ "ERROR" \in Result
      BY <1>5, <2>1 DEF AdapterCancel, Result
    <3>2. ~terminating
      BY <2>1 DEF Owned, Queued, IInv, TypeOK, Gates
    <3> QED
      BY <3>1, <3>2, TerminateCloses
  <2>2. CASE active \notin Owned(w)
    <3>1. /\ queue' = QueueWithout(w) /\ outcome' = Cancelled(Owned(w))
          /\ UNCHANGED <<active, quarantined, phase, pending>>
      BY <1>5, <2>2 DEF AdapterCancel, callvars
    <3>2. Queued' = Queued \ Owned(w)
      BY <3>1 DEF QueueWithout, Queued, Owned, IInv, TypeOK
    <3> QED
      BY <2>2, <3>1, <3>2, WithdrawRefines
  <2> QED
    BY <2>1, <2>2
<1>6. CASE Quarantine \/ TaskLocked
  BY <1>6, QuarantineRefines DEF TaskLocked
<1>7. CASE TaskTimeout
  BY <1>7, CompleteRefines DEF TaskTimeout, Result
<1>8. CASE TaskStart
  BY <1>8, StartRefines DEF TaskStart, terminating
<1>9. CASE TaskReturns
  <2>1. CASE MayStart
    BY <1>9, <2>1, StartRefines DEF TaskReturns, terminating
  <2>2. CASE ~MayStart
    <3>1. UNCHANGED <<queue, active, pending, outcome>> /\ GateNow' = GateNow
      BY <1>9, <2>2 DEF TaskReturns, GateNow, terminating, atvars
    <3> QED
      BY <3>1, NothingMoves
  <2> QED
    BY <2>1, <2>2
<1>10. CASE LineReturns
  <2>1. CASE active # NoOp /\ Completes(line, active)
    <3>1. PICK result \in Results(line.text) : Complete(result, "idle")
      BY <1>10, <2>1 DEF LineReturns
    <3>2. line.text \in {"ok", "error", "send_ok", "send_fail", "urc"}
      BY <2>1 DEF Completes
    <3>3. Results(line.text) \subseteq Result
      BY <3>2 DEF Results, Result
    <3> QED
      BY <2>1, <3>1, <3>3, CompleteRefines
  <2>2. CASE ~(active # NoOp /\ Completes(line, active))
    <3>1. UNCHANGED <<queue, active, pending, outcome>> /\ GateNow' = GateNow
      BY <1>10, <2>2 DEF LineReturns, GateNow, terminating
    <3> QED
      BY <3>1, NothingMoves
  <2> QED
    BY <2>1, <2>2
<1>11. CASE OnModemReset
  BY <1>11, TerminateCloses DEF OnModemReset, terminating, Result
<1>12. ASSUME NEW o \in Op, Notify(o) PROVE Commands!Next
  <2>1. PlacesRead /\ PlacesRead'
    BY PlacesAreRead, PTL
  <2>2. /\ phase = "notify" /\ phase' = phase /\ o \in pending /\ pending' = pending \ {o}
        /\ outcome' = [outcome EXCEPT ![o] = verdict] /\ verdict \in Result
        /\ UNCHANGED <<queue, active>>
    BY <1>12 DEF Notify, IInv, TypeOK
  <2>3. outcome'[o] \in Result
    BY <2>2 DEF IInv, TypeOK
  <2>4. PlaceOf(o) = "detached" /\ PlaceOf(o)' = "settled"
    BY <2>1, <2>2, <2>3 DEF PlacesRead
  <2>5. ASSUME NEW p \in Op, p # o PROVE PlaceOf(p)' = PlaceOf(p)
    BY <2>2, <2>5 DEF PlaceOf, Queued, IInv, TypeOK
  <2>6. Commands!Move(o, "detached", "settled")
    BY <2>4, <2>5, OneMoves
  <2>7. Commands!Notify(o)
    BY <2>2, <2>6 DEF Commands!Notify, terminating
  <2> QED
    BY <2>7 DEF Commands!Next
<1>13. ASSUME AllNotified \/ ResetReturns PROVE Commands!Next \/ UNCHANGED Commands!vars
  <2>1. PlacesRead
    BY PlacesAreRead
  <2>2. /\ terminating /\ pending = {} /\ UNCHANGED <<queue, active, pending, outcome>>
    BY <1>13 DEF AllNotified, ResetReturns, terminating, IInv, Gates, atvars
  <2>3. UNCHANGED [o \in Op |-> PlaceOf(o)]
    <3>1. \A o \in Op : PlaceOf(o)' = PlaceOf(o)
      BY <2>2 DEF PlaceOf, Queued
    <3> QED
      BY <3>1
  <2>4. \A o \in Op : PlaceOf(o) # "detached"
    BY <2>1, <2>2 DEF PlacesRead
  <2>5. CASE GateNow' = "open"
    <3>1. Commands!Reopen
      BY <2>2, <2>3, <2>4, <2>5 DEF Commands!Reopen, GateNow
    <3> QED
      BY <3>1 DEF Commands!Next
  <2>6. CASE GateNow' = "closed"
    BY <2>2, <2>6, NothingMoves DEF GateNow
  <2> QED
    BY <2>5, <2>6 DEF GateNow
<1>14. ASSUME \/ GuardExpires \/ RawTaken \/ Receive
              \/ \E o \in Op : LineArrives(o) \/ LineSwallowed(o)
              \/ \E w \in Owner : BeginRaw(w)
              \/ UNCHANGED vars
       PROVE  UNCHANGED Commands!vars
  <2>1. UNCHANGED <<queue, active, pending, outcome, quarantined>>
    BY <1>14 DEF BeginRaw, GuardExpires, RawTaken, Receive, LineArrives, LineSwallowed, vars,
                 atvars, callvars
  <2>2. phase' = phase \/ (phase = "idle" /\ phase' = "line")
    BY <1>14 DEF BeginRaw, GuardExpires, RawTaken, Receive, LineArrives, LineSwallowed, vars,
                 atvars, callvars
  <2>3. GateNow' = GateNow
    BY <2>1, <2>2 DEF GateNow, terminating
  <2> QED
    BY <2>1, <2>3, NothingMoves
<1> QED
  BY <1>1, <1>2, <1>3, <1>4, <1>5, <1>6, <1>7, <1>8, <1>9, <1>10, <1>11, <1>12, <1>13, <1>14
     DEF Next, Call, Task, Return, Feed

(* The client keeps the promise of CommandService: each accepted command   *)
(* is answered exactly once or withdrawn, one is on the wire at a time,    *)
(* and a closed session accepts and writes nothing.                        *)
THEOREM ClientKeepsPromise == Spec => ImplementsCommandService
<1>1. Init => Commands!Init
  <2> SUFFICES ASSUME Init PROVE Commands!Init
    OBVIOUS
  <2>1. PlacesRead
    BY InitIInv, PlacesAreRead
  <2>2. \A o \in Op : PlaceOf(o) = "new"
    BY <2>1 DEF Init, PlacesRead
  <2> QED
    BY <2>2 DEF Commands!Init, Init, terminating
<1> QED
  BY <1>1, StepRefines, ClientInvariant, PTL DEF Spec, Commands!Spec, ImplementsCommandService

-----------------------------------------------------------------------------
(* Why a line cannot complete the wrong command as long as the owners are  *)
(* disciplined: while the session is open, no command but the active one still *)
(* has a reply to come, and the line being dispatched is the active one's. *)
Live(o) == modem[o] \notin {"none", "done"}

LastLine == \/ line.text \in {"error", "send_ok", "send_fail", "urc"}
            \/ line.text = "ok" /\ ~WaitsForUrc(line.op)

WireOwned ==
    /\ ~quarantined /\ ~terminating => \A o \in Op : Live(o) => o = active
    /\ phase = "notify" /\ after # "reset" => quarantined
    /\ phase = "broadcast" \/ (phase = "notify" /\ after = "reset") => \A o \in Op : ~Live(o)
    /\ phase = "line" /\ active # NoOp => /\ line.op = active
                                          /\ LastLine => ~Live(active)

(* What the modem's replies do: a command without a reply to come gets     *)
(* none, and the last reply leaves none.                                   *)
LEMMA ReplyTable ==
    ASSUME NEW o \in Op, NEW reply \in Reply(KindOf[o])
    PROVE  /\ reply[1] \notin {"none", "done"}
           /\ reply[2] \in {"error", "send_ok", "send_fail", "urc"} => reply[3] = "done"
           /\ reply[2] = "ok" /\ ~WaitsForUrc(o) => reply[3] = "done"
<1>1. KindOf[o] \in Kind
  OBVIOUS
<1>2. CASE KindOf[o] = "plain"
  BY <1>2 DEF Reply, WaitsForUrc
<1>3. CASE KindOf[o] = "urc"
  BY <1>3 DEF Reply, WaitsForUrc
<1>4. CASE KindOf[o] = "payload"
  BY <1>4 DEF Reply, WaitsForUrc
<1>5. CASE KindOf[o] = "post"
  BY <1>5 DEF Reply, WaitsForUrc
<1> QED
  BY <1>1, <1>2, <1>3, <1>4, <1>5 DEF Kind

(* No write but that of a command makes a reply due.                       *)
LEMMA DataKeepsLive ==
    ASSUME TypeOK, NEW stage, DataTo(stage)
    PROVE  \A o \in Op : Live(o)' => Live(o)
BY DEF DataTo, TypeOK, Live

LEMMA EscapeKeepsLive ==
    ASSUME TypeOK, NEW o, Escape(o)
    PROVE  \A p \in Op : Live(p)' => Live(p)
<1>1. CASE UNCHANGED modem
  BY <1>1 DEF Live
<1>2. CASE DataTo("done")
  BY <1>2, DataKeepsLive
<1> QED
  BY <1>1, <1>2 DEF Escape

(* A command that was taken back or timed out stays so, and with it the    *)
(* memory that its owner was not disciplined.                              *)
LEMMA DisciplineLasts ==
    ASSUME IInv, [Next]_vars, Disciplined'
    PROVE  Disciplined
<1>0. TypeOK /\ Places
  BY DEF IInv
<1> SUFFICES ASSUME NEW o \in Op, outcome[o] \in {"cancelled", "TIMEOUT"}
             PROVE  outcome'[o] = outcome[o]
  BY DEF Disciplined
<1>1. o \notin Held
  BY <1>0 DEF Places
<1>2. o # active /\ o \notin Queued /\ o \notin pending
  BY <1>0, <1>1 DEF Held, TypeOK
<1>3. ASSUME NEW p \in Op, Submit(p) \/ AdapterSubmit(p) PROVE outcome'[o] = outcome[o]
  BY <1>0, <1>3 DEF Submit, AdapterSubmit, Enqueue, TypeOK
<1>4. ASSUME NEW w \in Owner, Cancel(w) \/ AdapterCancel(w) PROVE outcome'[o] = outcome[o]
  <2>1. o \notin Owned(w)
    BY <1>2 DEF Owned
  <2>2. outcome' = Cancelled(Owned(w)) \/ outcome' = outcome
    BY <1>4 DEF Cancel, AdapterCancel
  <2> QED
    BY <2>1, <2>2 DEF Cancelled
<1>5. ASSUME NEW result, NEW back, Complete(result, back) PROVE outcome'[o] = outcome[o]
  BY <1>0, <1>2, <1>5 DEF Complete, TypeOK
<1>6. ASSUME NEW p \in Op, Notify(p) PROVE outcome'[o] = outcome[o]
  BY <1>0, <1>2, <1>6 DEF Notify, TypeOK
<1>7. CASE TaskTimeout \/ LineReturns
  BY <1>5, <1>7 DEF TaskTimeout, LineReturns
<1>8. CASE UNCHANGED outcome
  BY <1>8
<1>9. ASSUME \/ \E force \in BOOLEAN : SendPayload(force)
             \/ \E w \in Owner : BeginRaw(w)
             \/ Quarantine \/ TaskLocked \/ TaskStart \/ GuardExpires \/ TaskReturns
             \/ AllNotified \/ ResetReturns
             \/ \E p \in Op : LineArrives(p) \/ LineSwallowed(p)
             \/ RawTaken \/ Receive \/ OnModemReset \/ UNCHANGED vars
      PROVE  UNCHANGED outcome
  BY <1>9 DEF SendPayload, BeginRaw, Quarantine, TaskLocked, TaskStart, GuardExpires, TaskReturns,
              AllNotified, ResetReturns, LineArrives, LineSwallowed, RawTaken, Receive, OnModemReset,
              vars
<1> QED
  BY <1>3, <1>4, <1>6, <1>7, <1>8, <1>9 DEF Next, Call, Task, Return, Feed

(* A session that closes owes the wire nothing more.                       *)
LEMMA ClosedOwesNothing ==
    ASSUME quarantined' = TRUE, active' = NoOp, phase' = "notify", after' # "reset"
    PROVE  WireOwned'
BY DEF WireOwned, terminating

LEMMA StepWireOwned ==
    ASSUME IInv, IInv', Disciplined', WireOwned, [Next]_vars
    PROVE  WireOwned'
<1>0. TypeOK
  BY DEF IInv
<1>1. ASSUME NEW o \in Op, Enqueue(o) PROVE WireOwned'
  BY <1>1 DEF Enqueue, WireOwned, Live, LastLine, terminating, callvars
<1>2. ASSUME NEW force \in BOOLEAN, SendPayload(force) PROVE WireOwned'
  <2>1. CASE DataTo("given") /\ UNCHANGED <<queue, active, raw, guard, quarantined, callvars>>
    <3>1. \A o \in Op : Live(o)' => Live(o)
      BY <1>0, <2>1, DataKeepsLive
    <3>2. active \in Op \cup {NoOp}
      BY <1>0 DEF TypeOK
    <3> QED
      BY <2>1, <3>1, <3>2 DEF WireOwned, LastLine, terminating, callvars
  <2>2. CASE quarantined' = TRUE /\ Terminate(active, queue, "SEND_FAIL", phase)
    <3>1. active' = NoOp /\ phase' = "notify" /\ after' = phase
      BY <2>2 DEF Terminate
    <3> QED
      BY <1>0, <2>2, <3>1, ClosedOwesNothing DEF TypeOK
  <2> QED
    BY <1>2, <2>1, <2>2 DEF SendPayload
<1>3. ASSUME NEW w \in Owner, AdapterCancel(w) PROVE WireOwned'
  <2>1. CASE active \in Owned(w)
    <3>1. quarantined' = TRUE /\ active' = NoOp /\ phase' = "notify" /\ after' = phase
      BY <1>3, <2>1 DEF AdapterCancel, Terminate
    <3> QED
      BY <1>0, <3>1, ClosedOwesNothing DEF TypeOK
  <2>2. CASE active \notin Owned(w)
    <3>1. UNCHANGED <<active, quarantined, callvars, modem>>
      BY <1>3, <2>2 DEF AdapterCancel
    <3> QED
      BY <3>1 DEF WireOwned, Live, LastLine, terminating, callvars
  <2> QED
    BY <2>1, <2>2
<1>4. CASE Quarantine \/ TaskLocked
  <2>1. Quarantine
    BY <1>4 DEF TaskLocked
  <2>2. CASE terminating
    <3>1. quarantined' = TRUE /\ UNCHANGED <<active, callvars, modem>>
      BY <2>1, <2>2 DEF Quarantine
    <3> QED
      BY <2>2, <3>1 DEF WireOwned, Live, LastLine, terminating, callvars
  <2>3. CASE ~terminating
    <3>1. quarantined' = TRUE /\ active' = NoOp /\ phase' = "notify" /\ after' = phase
      BY <2>1, <2>3 DEF Quarantine, Terminate
    <3> QED
      BY <1>0, <3>1, ClosedOwesNothing DEF TypeOK
  <2> QED
    BY <2>2, <2>3
<1>5. CASE TaskTimeout
  <2>1. active \in Op /\ Complete("TIMEOUT", "timeout")
    BY <1>0, <1>5 DEF TaskTimeout, TypeOK
  <2>2. Closes(active, "TIMEOUT")
    <3>1. outcome'[active] = "TIMEOUT"
      BY <1>0, <2>1 DEF Complete, TypeOK
    <3> QED
      BY <2>1, <3>1 DEF Closes, Untrusted, Disciplined
  <2>3. quarantined' = TRUE /\ active' = NoOp /\ phase' = "notify" /\ after' = "timeout"
    BY <2>1, <2>2 DEF Complete, Terminate
  <2> QED
    BY <2>3, ClosedOwesNothing
<1>6. ASSUME MayStart, ~terminating, NEW s \in Slot, NextCommand(s), StartNext(s, "idle")
      PROVE  WireOwned'
  <2>1. \A o \in Op : ~Live(o)
    BY <1>0, <1>6 DEF MayStart, WireOwned, TypeOK
  <2>2. CASE /\ active' = queue[s] /\ Written(queue[s]) /\ phase' = "idle"
             /\ UNCHANGED <<quarantined, after>>
    BY <1>0, <2>1, <2>2 DEF WireOwned, Written, Live, terminating, TypeOK
  <2>3. CASE quarantined' = TRUE /\ Terminate(queue[s], [queue EXCEPT ![s] = NoOp], "SEND_FAIL", "idle")
    BY <2>3, ClosedOwesNothing DEF Terminate
  <2> QED
    BY <1>6, <2>2, <2>3 DEF StartNext
<1>7. CASE TaskStart
  BY <1>6, <1>7 DEF TaskStart, terminating
<1>8. CASE TaskReturns
  <2>1. CASE MayStart
    BY <1>6, <1>8, <2>1 DEF TaskReturns, terminating
  <2>2. CASE ~MayStart
    BY <1>8, <2>2 DEF TaskReturns, WireOwned, Live, LastLine, terminating, atvars
  <2> QED
    BY <2>1, <2>2
<1>9. ASSUME \/ GuardExpires \/ RawTaken \/ Receive \/ UNCHANGED vars
             \/ \E w \in Owner : BeginRaw(w)
      PROVE  WireOwned'
  <2>1. UNCHANGED <<active, quarantined, phase, after, line, modem>>
    BY <1>9 DEF BeginRaw, GuardExpires, RawTaken, Receive, vars, atvars, callvars
  <2> QED
    BY <2>1 DEF WireOwned, Live, LastLine, terminating
<1>10. ASSUME NEW o \in Op, LineArrives(o) PROVE WireOwned'
  <2>1. PICK reply \in Reply(KindOf[o]) :
          /\ modem[o] = reply[1]
          /\ modem' = [modem EXCEPT ![o] = reply[3]]
          /\ line' = [op |-> o, text |-> reply[2]]
    BY <1>10 DEF LineArrives
  <2>2. phase = "idle" /\ phase' = "line" /\ UNCHANGED <<active, quarantined, after>>
    BY <1>10 DEF LineArrives
  <2>3. Live(o) /\ \A p \in Op : Live(p)' => Live(p)
    BY <1>0, <2>1, ReplyTable DEF Live, TypeOK
  <2>4. active # NoOp => o = active
    BY <2>2, <2>3 DEF WireOwned, IInv, Gates, terminating
  <2>5. LastLine' => ~Live(o)'
    BY <1>0, <2>1, ReplyTable DEF LastLine, WaitsForUrc, Live, TypeOK
  <2> QED
    BY <2>1, <2>2, <2>3, <2>4, <2>5 DEF WireOwned, terminating
<1>11. ASSUME NEW o \in Op, LineSwallowed(o) PROVE WireOwned'
  <2>1. PICK reply \in Reply(KindOf[o]) :
          modem[o] = reply[1] /\ modem' = [modem EXCEPT ![o] = reply[3]]
    BY <1>11 DEF LineSwallowed
  <2>2. \A p \in Op : Live(p)' => Live(p)
    BY <1>0, <2>1, ReplyTable DEF Live, TypeOK
  <2>3. phase = "idle" /\ UNCHANGED <<active, quarantined, phase, after, line>>
    BY <1>11 DEF LineSwallowed, atvars, callvars
  <2> QED
    BY <2>2, <2>3 DEF WireOwned, terminating
<1>12. CASE LineReturns
  <2>1. CASE active # NoOp /\ Completes(line, active)
    <3>1. PICK result \in Results(line.text) : Complete(result, "idle")
      BY <1>12, <2>1 DEF LineReturns
    <3>2. ~quarantined /\ ~terminating /\ phase = "line" /\ modem' = modem
      BY <1>12, <2>1 DEF LineReturns, IInv, Gates
    <3>3. line.op = active /\ LastLine
      BY <2>1, <3>2 DEF WireOwned, LastLine, Completes
    <3>4. \A o \in Op : ~Live(o)
      BY <3>2, <3>3, <2>1 DEF WireOwned
    <3>5. CASE Closes(active, result)
      BY <3>1, <3>5, ClosedOwesNothing DEF Complete, Terminate
    <3>6. CASE ~Closes(active, result)
      BY <3>1, <3>2, <3>4, <3>6 DEF Complete, WireOwned, Live, terminating
    <3> QED
      BY <3>5, <3>6
  <2>2. CASE ~(active # NoOp /\ Completes(line, active))
    BY <1>12, <2>2 DEF LineReturns, WireOwned, Live, terminating
  <2> QED
    BY <2>1, <2>2
<1>13. CASE OnModemReset
  <2>1. phase' = "notify" /\ after' = "reset"
    BY <1>13 DEF OnModemReset, Terminate
  <2>2. \A o \in Op : ~Live(o)'
    BY <1>13 DEF OnModemReset, Live
  <2> QED
    BY <2>1, <2>2 DEF WireOwned, terminating
<1>14. ASSUME NEW o \in Op, Notify(o) PROVE WireOwned'
  BY <1>14 DEF Notify, WireOwned, Live, terminating
<1>15. CASE AllNotified
  <2>1. active = NoOp /\ active' = NoOp /\ modem' = modem /\ after' = after /\ phase = "notify"
    BY <1>15 DEF AllNotified, IInv, Gates, terminating
  <2>2. CASE after = "reset"
    BY <1>15, <2>1, <2>2 DEF AllNotified, WireOwned, Live, terminating
  <2>3. CASE after # "reset"
    BY <1>0, <1>15, <2>1, <2>3 DEF AllNotified, WireOwned, Live, terminating, TypeOK
  <2> QED
    BY <2>2, <2>3
<1>16. CASE ResetReturns
  BY <1>16 DEF ResetReturns, WireOwned, Live, terminating, atvars
<1>17. ASSUME NEW w \in Owner, Cancel(w) PROVE WireOwned'
  <2>1. CASE active \in Owned(w)
    <3>1. active \in Op /\ OwnerOf[active] = w /\ w \notin Guarded
      BY <1>0, <1>17, <2>1 DEF Cancel, Owned, Queued, TypeOK
    <3>2. outcome'[active] = "cancelled"
      BY <1>17, <2>1, <3>1 DEF Cancel, Cancelled
    <3> QED
      BY <3>1, <3>2 DEF Disciplined
  <2>2. CASE active \notin Owned(w)
    <3>1. UNCHANGED <<active, quarantined, callvars, modem>>
      BY <1>17, <2>2 DEF Cancel
    <3> QED
      BY <3>1 DEF WireOwned, Live, LastLine, terminating, callvars
  <2> QED
    BY <2>1, <2>2
<1> QED
  BY <1>1, <1>2, <1>3, <1>4, <1>5, <1>7, <1>8, <1>9, <1>10, <1>11, <1>12, <1>13, <1>14,
     <1>15, <1>16, <1>17
     DEF Next, Call, Task, Return, Feed, Submit, AdapterSubmit

(* As long as no owner without a command adapter took a command back or    *)
(* let one time out, a line completes only the command it answers.         *)
THEOREM RepliesAreOwn == Spec => []ReplyIsOwn
<1>1. Init => WireOwned
  BY DEF Init, WireOwned, Live, terminating
<1>2. IInv /\ IInv' /\ [Next]_vars /\ (Disciplined => WireOwned) => (Disciplined => WireOwned)'
  BY StepWireOwned, DisciplineLasts
<1>3. (Disciplined => WireOwned) => ReplyIsOwn
  BY DEF WireOwned, ReplyIsOwn
<1> QED
  BY <1>1, <1>2, <1>3, ClientInvariant, PTL DEF Spec

-----------------------------------------------------------------------------
(* Why an adapter never loses sight of its command.  An adapter holds at   *)
(* most one command at a time, so that what is answered or withdrawn is    *)
(* the one it waits for.                                                   *)
Tabled == Queued \cup ({active} \ {NoOp})
OneEach == \A o, p \in Held : OwnerOf[o] = OwnerOf[p] /\ OwnerOf[o] \in Guarded => o = p
InStep == OneEach /\ AdapterInStep

(* Held is what was accepted and is not yet answered.                      *)
LEMMA HeldIsAccepted == IInv => Held = {o \in Op : outcome[o] = "accepted"}
<1>1. TypeOK => Held \subseteq Op
  BY DEF TypeOK, Held, Queued
<1> QED
  BY <1>1 DEF IInv, Places

(* The same of the state after a step.                                     *)
LEMMA HeldIsAcceptedNext == IInv' => Held' = {o \in Op : outcome'[o] = "accepted"}
<1>1. TypeOK' => Held' \subseteq Op
  BY DEF TypeOK, Held, Queued
<1> QED
  BY <1>1 DEF IInv, Places

(* Nothing is answered, and nothing new is in the tables.                  *)
LEMMA MovesKeepStep ==
    ASSUME IInv, IInv', InStep, UNCHANGED <<adapter, outcome>>, Tabled' \subseteq Tabled
    PROVE  InStep'
<1>1. Held' = Held
  BY HeldIsAccepted, HeldIsAcceptedNext
<1>2. \A w \in Guarded : HasPending(w)' => HasPending(w)
  BY DEF Tabled, HasPending
<1> QED
  BY <1>1, <1>2 DEF InStep, OneEach, AdapterInStep

(* What an adapter is told of its own command.                             *)
LEMMA AnsweredNotPending ==
    ASSUME TypeOK, NEW o \in Op, NEW result, NEW w \in Guarded
    PROVE  /\ OwnerOf[o] = w => Answered(o, result)[w] # "pending"
           /\ OwnerOf[o] # w => Answered(o, result)[w] = adapter[w]
BY DEF TypeOK, Answered

(* One command is answered, and the tables hold no other of its owner.     *)
LEMMA AnswerKeepsStep ==
    ASSUME IInv, IInv', InStep, NEW o \in Held, NEW result \in Result,
           outcome' = [outcome EXCEPT ![o] = result],
           adapter' = Answered(o, result), Tabled' \subseteq Tabled \ {o}
    PROVE  InStep'
<1>1. o \in Op /\ TypeOK
  BY HeldIsAccepted DEF IInv
<1>2. Held' = Held \ {o}
  BY <1>1, HeldIsAccepted, HeldIsAcceptedNext DEF TypeOK, Result
<1>3. OneEach'
  BY <1>2 DEF InStep, OneEach
<1>4. Tabled \subseteq Held
  BY DEF Tabled, Held
<1>5. ASSUME NEW w \in Guarded
      PROVE  /\ adapter'[w] = "pending" => \E p \in Held' : OwnerOf[p] = w
             /\ HasPending(w)' => adapter'[w] = "pending"
  <2>1. CASE OwnerOf[o] = w
    <3>1. adapter'[w] # "pending"
      BY <1>1, <2>1, AnsweredNotPending
    <3>2. ~HasPending(w)'
      BY <1>4, <2>1 DEF InStep, OneEach, Tabled, HasPending
    <3> QED
      BY <3>1, <3>2
  <2>2. CASE OwnerOf[o] # w
    <3>1. adapter'[w] = adapter[w]
      BY <1>1, <2>2, AnsweredNotPending
    <3>2. HasPending(w)' => HasPending(w)
      BY DEF Tabled, HasPending
    <3> QED
      BY <1>2, <2>2, <3>1, <3>2 DEF InStep, AdapterInStep
  <2> QED
    BY <2>1, <2>2
<1> QED
  BY <1>3, <1>5 DEF InStep, AdapterInStep

(* The commands of an owner are withdrawn.                                 *)
LEMMA WithdrawKeepsStep ==
    ASSUME IInv, IInv', InStep, NEW w \in Owner, outcome' = Cancelled(Owned(w)),
           Tabled' \subseteq Tabled \ Owned(w),
           \/ w \notin Guarded /\ adapter' = adapter
           \/ w \in Guarded /\ adapter' = [adapter EXCEPT ![w] = "cancelled"]
    PROVE  InStep'
<1>1. Held' = Held \ Owned(w)
  BY HeldIsAccepted, HeldIsAcceptedNext DEF Cancelled
<1>2. OneEach'
  BY <1>1 DEF InStep, OneEach
<1>3. \A o \in Owned(w) : OwnerOf[o] = w
  BY DEF Owned
<1>4. ASSUME NEW v \in Guarded
      PROVE  /\ adapter'[v] = "pending" => \E p \in Held' : OwnerOf[p] = v
             /\ HasPending(v)' => adapter'[v] = "pending"
  <2>1. adapter \in [Guarded -> AsyncStatus]
    BY DEF IInv, TypeOK
  <2>2. CASE v = w
    BY <2>1, <2>2 DEF Tabled, HasPending, Owned
  <2>3. CASE v # w
    <3>1. adapter'[v] = adapter[v]
      BY <2>1, <2>3
    <3>2. HasPending(v)' => HasPending(v)
      BY DEF Tabled, HasPending
    <3> QED
      BY <1>1, <1>3, <2>3, <3>1, <3>2 DEF InStep, AdapterInStep
  <2> QED
    BY <2>2, <2>3
<1> QED
  BY <1>2, <1>4 DEF InStep, AdapterInStep

(* Every step keeps the adapters in step.                                  *)
LEMMA StepInStep == IInv /\ IInv' /\ InStep /\ [Next]_vars => InStep'
<1> SUFFICES ASSUME IInv, IInv', InStep, [Next]_vars PROVE InStep'
  OBVIOUS
<1>0. TypeOK /\ Gates
  BY DEF IInv
<1>1. ASSUME NEW o \in Op, outcome[o] = "new", Enqueue(o),
             \/ OwnerOf[o] \notin Guarded /\ adapter' = adapter
             \/ /\ OwnerOf[o] \in Guarded /\ ~HasPending(OwnerOf[o])
                /\ adapter' = [adapter EXCEPT ![OwnerOf[o]] = "pending"]
      PROVE  InStep'
  <2>1. Queued' = Queued \cup {o} /\ active' = active
    <3>1. adapter' \in [Guarded -> AsyncStatus]
      BY <1>0, <1>1 DEF TypeOK, AsyncStatus
    <3> QED
      BY <1>1, <3>1, EnqueueKeeps DEF Enqueue
  <2>2. Held' = Held \cup {o}
    BY <1>0, <1>1, HeldIsAccepted, HeldIsAcceptedNext DEF Enqueue, TypeOK
  <2>3. Held = Tabled
    BY <1>0, <1>1 DEF Enqueue, Held, Tabled, Gates, terminating
  <2>4. OneEach'
    BY <1>1, <2>2, <2>3 DEF InStep, OneEach, Tabled, HasPending
  <2>5. ASSUME NEW w \in Guarded
        PROVE  /\ adapter'[w] = "pending" => \E p \in Held' : OwnerOf[p] = w
               /\ HasPending(w)' => adapter'[w] = "pending"
    <3>1. CASE OwnerOf[o] = w
      BY <1>0, <1>1, <2>2, <3>1 DEF TypeOK
    <3>2. CASE OwnerOf[o] # w
      <4>1. adapter'[w] = adapter[w]
        BY <1>0, <1>1, <3>2 DEF TypeOK
      <4>2. HasPending(w)' => HasPending(w)
        BY <2>1, <3>2 DEF HasPending
      <4> QED
        BY <2>2, <4>1, <4>2 DEF InStep, AdapterInStep
    <3> QED
      BY <3>1, <3>2
  <2> QED
    BY <2>4, <2>5 DEF InStep, AdapterInStep
<1>2. ASSUME NEW o \in Op, Submit(o) \/ AdapterSubmit(o) PROVE InStep'
  BY <1>1, <1>2 DEF Submit, AdapterSubmit
<1>3. ASSUME NEW act, NEW q, NEW result, NEW back, Terminate(act, q, result, back) PROVE Tabled' = {}
  BY <1>3 DEF Terminate, Tabled, Queued, EmptyQueue
<1>4. ASSUME UNCHANGED <<adapter, outcome, queue, active>> PROVE InStep'
  BY <1>4, MovesKeepStep DEF Tabled, Queued
<1>5. ASSUME NEW force \in BOOLEAN, SendPayload(force) PROVE InStep'
  <2>1. UNCHANGED <<adapter, outcome>>
    BY <1>5 DEF SendPayload
  <2>2. UNCHANGED <<queue, active>> \/ Tabled' = {}
    BY <1>3, <1>5 DEF SendPayload
  <2> QED
    BY <1>4, <2>1, <2>2, MovesKeepStep
<1>6. ASSUME NEW w \in Owner, Cancel(w) PROVE InStep'
  <2>1. NoOp \notin Owned(w)
    BY <1>0 DEF Owned, Queued
  <2>2. Tabled' \subseteq Tabled \ Owned(w)
    BY <1>6, <2>1 DEF Cancel, QueueWithout, Tabled, Queued
  <2> QED
    BY <1>6, <2>2, WithdrawKeepsStep DEF Cancel
<1>7. ASSUME NEW w \in Owner, AdapterCancel(w) PROVE InStep'
  <2>1. CASE active \in Owned(w)
    BY <1>3, <1>7, <2>1, MovesKeepStep DEF AdapterCancel
  <2>2. CASE active \notin Owned(w)
    <3>1. Tabled' \subseteq Tabled \ Owned(w)
      BY <1>7, <2>2 DEF AdapterCancel, QueueWithout, Tabled, Queued
    <3> QED
      BY <1>7, <2>2, <3>1, WithdrawKeepsStep DEF AdapterCancel
  <2> QED
    BY <2>1, <2>2
<1>8. CASE Quarantine \/ TaskLocked
  <2>1. Quarantine
    BY <1>8 DEF TaskLocked
  <2>2. UNCHANGED <<adapter, outcome>> /\ (UNCHANGED <<queue, active>> \/ Tabled' = {})
    BY <1>3, <2>1 DEF Quarantine
  <2> QED
    BY <1>4, <2>2, MovesKeepStep
<1>9. ASSUME active # NoOp, NEW result \in Result, NEW back, Complete(result, back) PROVE InStep'
  <2>1. active \in Held
    BY <1>9 DEF Held
  <2>2. Tabled' \subseteq Tabled \ {active}
    BY <1>9, CompleteSettles DEF Tabled, IInv, Places
  <2> QED
    BY <1>9, <2>1, <2>2, AnswerKeepsStep DEF Complete
<1>10. CASE TaskTimeout
  BY <1>9, <1>10 DEF TaskTimeout, Result
<1>11. CASE LineReturns
  <2>1. CASE active # NoOp /\ Completes(line, active)
    <3>1. PICK result \in Results(line.text) : Complete(result, "idle")
      BY <1>11, <2>1 DEF LineReturns
    <3>2. line.text \in {"ok", "error", "send_ok", "send_fail", "urc"}
      BY <2>1 DEF Completes
    <3>3. result \in Result
      BY <3>1, <3>2 DEF Results, Result
    <3> QED
      BY <1>9, <2>1, <3>1, <3>3
  <2>2. CASE ~(active # NoOp /\ Completes(line, active))
    BY <1>4, <1>11, <2>2 DEF LineReturns
  <2> QED
    BY <2>1, <2>2
<1>12. ASSUME MayStart, ~terminating, NEW s \in Slot, NextCommand(s), StartNext(s, "idle"),
              UNCHANGED <<line, adapter, rx, outcome>>
       PROVE  InStep'
  <2>1. Tabled' \subseteq Tabled
    BY <1>12, StartKeeps DEF Tabled
  <2> QED
    BY <1>12, <2>1, MovesKeepStep
<1>13. CASE TaskStart
  BY <1>12, <1>13 DEF TaskStart, terminating
<1>14. CASE TaskReturns
  <2>1. CASE MayStart
    BY <1>12, <1>14, <2>1 DEF TaskReturns, terminating
  <2>2. CASE ~MayStart
    BY <1>4, <1>14, <2>2 DEF TaskReturns, atvars
  <2> QED
    BY <2>1, <2>2
<1>15. CASE OnModemReset
  BY <1>3, <1>15, MovesKeepStep DEF OnModemReset
<1>16. ASSUME NEW o \in Op, Notify(o) PROVE InStep'
  <2>1. o \in Held /\ verdict \in Result
    BY <1>0, <1>16 DEF Notify, Held, TypeOK
  <2>2. Tabled' = {}
    BY <1>0, <1>16 DEF Notify, Gates, terminating, Tabled, Queued
  <2> QED
    BY <1>16, <2>1, <2>2, AnswerKeepsStep DEF Notify
<1>17. CASE ResetReturns
  <2>1. Queued = {} /\ active = NoOp /\ UNCHANGED <<queue, active, outcome>>
    BY <1>0, <1>17 DEF ResetReturns, Gates, terminating, atvars
  <2>2. Queued' = {} /\ active' = NoOp
    BY <2>1 DEF Queued
  <2>3. Held' = Held
    BY <2>1, HeldIsAccepted, HeldIsAcceptedNext
  <2>4. \A w \in Guarded : adapter'[w] = "idle" /\ ~HasPending(w)'
    BY <1>17, <2>2 DEF ResetReturns, HasPending
  <2> QED
    BY <2>3, <2>4 DEF InStep, OneEach, AdapterInStep
<1>18. ASSUME \/ GuardExpires \/ RawTaken \/ Receive \/ AllNotified
              \/ \E o \in Op : LineArrives(o) \/ LineSwallowed(o)
              \/ \E w \in Owner : BeginRaw(w)
              \/ UNCHANGED vars
       PROVE  InStep'
  BY <1>4, <1>18 DEF GuardExpires, RawTaken, Receive, AllNotified, LineArrives, LineSwallowed,
                     BeginRaw, vars, atvars
<1> QED
  BY <1>2, <1>5, <1>6, <1>7, <1>8, <1>10, <1>11, <1>13, <1>14, <1>15, <1>16, <1>17, <1>18
     DEF Next, Call, Task, Return, Feed

(* An adapter waits exactly as long as the client holds its command, so    *)
(* its owner neither waits for ever nor submits beside a live command.     *)
THEOREM AdaptersInStep == Spec => []AdapterInStep
<1>1. Init => InStep
  BY DEF Init, InStep, OneEach, AdapterInStep, HasPending, Held, Queued, EmptyQueue
<1>2. InStep => AdapterInStep
  BY DEF InStep
<1> QED
  BY <1>1, <1>2, StepInStep, ClientInvariant, PTL DEF Spec
=============================================================================
