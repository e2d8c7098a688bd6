------------------------ MODULE MqttTransportProofs ------------------------
(***************************************************************************)
(* What MqttTransport keeps for any endpoints, any number of topics,       *)
(* publishes and clients.  The handlers are functions of the transport's   *)
(* record: each is shown to keep what the record and the modem owe each    *)
(* other (Inv) and to report of the publish in flight only what the        *)
(* contract of the callback allows (Moves); an action applies one or two.  *)
(***************************************************************************)
EXTENDS MqttTransport, TLAPS

Event == {"submitted", "confirmed", "failed"}

(* The publish in flight and what was reported of the last one.            *)
Publishing(x) ==
    /\ x.active => /\ x.op = x.next /\ x.next > 0
                   /\ x.told = IF x.prompt THEN <<"submitted">> ELSE <<>>
    /\ ~x.active => /\ x.op = 0 /\ ~x.prompt
                    /\ \/ x.next = 0 /\ x.told = <<>>
                       \/ x.told # <<>> /\ x.told[Len(x.told)] \in {"confirmed", "failed"}
    /\ x.msg \in {0, x.op}

(* While a prompt is being answered it need not have been told of.         *)
Telling(x) ==
    /\ x.active => x.op = x.next /\ x.next > 0 /\ x.told \in {<<>>, <<"submitted">>}
    /\ ~x.active => Publishing(x)

(* The command the transport has at the AT client in each phase.           *)
Phased(x) ==
    CASE x.state = "CONFIGURING" -> "setup"
      [] x.state = "OPENING" -> "open"
      [] x.state = "CONNECTING" -> "conn"
      [] x.state = "SUBSCRIBING" -> "sub"
      [] x.state = "READY" -> "pub"
      [] x.state = "CLOSING" -> IF x.closing = 0 THEN "disc" ELSE "close"
      [] OTHER -> "none"

Commanding(x) ==
    /\ x.pending => x.result = "none"
    /\ x.stage = "none" <=> x.cmd = "none"
    /\ x.state # "BLOCKED" /\ x.cmd # "none" => x.pending /\ x.cmd = Phased(x)
    /\ x.state \in Rest \cup {"RETRY_WAIT"} => ~x.pending
    /\ x.state = "SUBSCRIBING" /\ x.sub = Subs => ~x.pending
    /\ x.state = "BLOCKED" => x.quarantined \/ x.locked
    /\ x.state \in Rest => ~x.locked
    /\ x.close /\ x.state \in Rest \cup {"CLOSING", "RETRY_WAIT", "OPENING"} => ~x.enabled

(* What an opening knows of the client it has asked for.                   *)
Opens(x, md) ==
    /\ Unsent(x) \/ x.cmd = "open" => md.client = "closed" /\ x.urc = "none"
    /\ \A n \in Nat : <<"open", n>> \in md.duty =>
          n = md.opens /\ md.client = "opening" /\ x.urc = "none"
    /\ x.urc = "ok" => md.client \in {"open", "refused", "connected", "lost"}
    /\ x.urc = "failed" /\ x.code = "unopened" => md.client = "closed"

(* What a closing knows of the client it is to be rid of.                  *)
Closes(x, md) ==
    /\ x.closing = 2 => md.client \in {"refused", "closed"}
    /\ x.closing # 0 /\ x.result = "ok" => md.client = "closed"
    /\ x.closing = 2 /\ x.result = "failed" => md.client = "closed" \/ x.quarantined

InPhase(x, md) ==
    /\ x.state \in Rest \cup {"RETRY_WAIT", "CONFIGURING"} => md.client = "closed"
    /\ x.state \in Rest \cup {"CONFIGURING"} => md.duty = {}
    /\ x.state = "OPENING" => Opens(x, md)
    /\ x.state = "CONNECTING" =>
          /\ md.client \in {"open", "refused", "connected", "lost"}
          /\ x.urc = "ok" => md.client \in {"connected", "lost"}
          /\ x.urc = "failed" /\ x.code = "refused" => md.client = "refused"
    /\ x.state \in {"SUBSCRIBING", "READY"} => md.client \in {"connected", "lost"}
    /\ x.state = "CLOSING" => Closes(x, md)
    /\ x.state # "BLOCKED" /\ md.client # "closed" => md.config = x.config

(* While the receive buffer is lent.                                       *)
Lent(x, md) ==
    x.borrowed =>
        /\ md.client = "closed" /\ x.cmd # "open" /\ ~x.locked
        /\ x.state \in Rest \cup {"BLOCKED", "CLOSING", "RETRY_WAIT"}
        /\ x.state \in {"CLOSING", "RETRY_WAIT"} => ~x.enabled

Rules(x, md) == Commanding(x) /\ InPhase(x, md) /\ Lent(x, md)

Inv(x, md) == x \in Record /\ Publishing(x) /\ Rules(x, md)

Modems == [client : Client, config : Config \cup {NoConfig}, opens : 0..MaxOpens,
           duty : SUBSET Duties]

(* A result line of a publish of QoS 1 bears the number of its operation.  *)
Owned(md) == \A o, id \in 0..MaxOps : <<"pub", o, id>> \in md.duty /\ id # 0 => id = o

IInv == Inv(m, modem) /\ modem \in Modems /\ Owned(modem)

-----------------------------------------------------------------------------
(* What a handler may do to the publish in flight: nothing, or report it   *)
(* as failed.                                                              *)
SamePublish(x, y) ==
    /\ y.told = x.told /\ y.active = x.active /\ y.prompt = x.prompt
    /\ y.op = x.op /\ y.msg = x.msg /\ y.next = x.next

Moves(x, y) ==
    /\ y.next = x.next
    /\ y.active => x.active
    /\ \/ y.told = x.told
       \/ x.active /\ ~y.active /\ y.told = Append(x.told, "failed")

(* The fields that FailPublish leaves alone.                               *)
SameCore(x, y) ==
    /\ y.state = x.state /\ y.enabled = x.enabled /\ y.paused = x.paused
    /\ y.security = x.security /\ y.borrowed = x.borrowed /\ y.close = x.close
    /\ y.closing = x.closing /\ y.step = x.step /\ y.pending = x.pending
    /\ y.result = x.result /\ y.urc = x.urc /\ y.code = x.code /\ y.sub = x.sub
    /\ y.sid = x.sid /\ y.config = x.config /\ y.cmd = x.cmd /\ y.stage = x.stage
    /\ y.quarantined = x.quarantined /\ y.locked = x.locked

LEMMA MovesTwice ==
    ASSUME NEW x, NEW y, NEW z, Moves(x, y), Moves(y, z)
    PROVE  Moves(x, z)
  BY DEF Moves

LEMMA PublishKept ==
    ASSUME NEW x, NEW y, SamePublish(x, y)
    PROVE  /\ Moves(x, y)
           /\ Publishing(x) => Publishing(y)
           /\ Telling(x) => Telling(y)
  BY DEF SamePublish, Moves, Publishing, Telling

LEMMA PublishingTells ==
    ASSUME NEW x \in Record, Publishing(x)
    PROVE  Telling(x)
  BY DEF Publishing, Telling, Record

LEMMA CoreKept ==
    ASSUME NEW x, NEW y, NEW md, SameCore(x, y), Rules(x, md)
    PROVE  Rules(y, md)
  <1>1. Phased(y) = Phased(x) /\ (Unsent(y) <=> Unsent(x))
    BY DEF SameCore, Phased, Unsent
  <1>2. Commanding(y)
    BY <1>1 DEF SameCore, Rules, Commanding
  <1>3. InPhase(y, md)
    BY <1>1 DEF SameCore, Rules, InPhase, Opens, Closes
  <1>4. Lent(y, md)
    BY DEF SameCore, Rules, Lent
  <1>5. QED  BY <1>2, <1>3, <1>4 DEF Rules

(* A publish that is settled is told of once, last.                        *)
LEMMA Settles ==
    ASSUME NEW x \in Record, Telling(x), x.active, NEW event \in {"confirmed", "failed"}
    PROVE  LET y == Settle(x, event) IN
           /\ y \in Record /\ Publishing(y) /\ SameCore(x, y) /\ ~y.active
           /\ y.told = Append(x.told, event) /\ y.next = x.next
  <1> USE MqttAssumption
  <1> DEFINE t == Append(x.told, event)
             z == [x EXCEPT !.told = t]
             u == [z EXCEPT !.active = FALSE]
             v == [u EXCEPT !.prompt = FALSE]
             y == [v EXCEPT !.op = 0, !.msg = 0]
  <1>1. x.op # 0 /\ x.told \in {<<>>, <<"submitted">>}
    BY DEF Telling, Record
  <1>2. Settle(x, event) = y
    BY <1>1 DEF Settle, Tell
  <1>3. t \in Seq(Event) /\ t # <<>> /\ t[Len(t)] = event
    BY DEF Record, Event
  <1> HIDE DEF t
  <1>4. z \in Record /\ z.told = t /\ z.next = x.next /\ SameCore(x, z)
    BY <1>3 DEF Record, SameCore, Event
  <1> HIDE DEF z
  <1>a. 0 \in 0..MaxOps
    OBVIOUS
  <1>d. u \in Record
    BY <1>4 DEF Record
  <1>e. u.told = t /\ ~u.active /\ u.next = z.next /\ SameCore(z, u)
    BY <1>4 DEF Record, SameCore
  <1> HIDE DEF u
  <1>b. v \in Record
    BY <1>d DEF Record
  <1>c. /\ v.told = t /\ ~v.active /\ ~v.prompt
        /\ v.next = z.next /\ SameCore(z, v)
    BY <1>d, <1>e DEF Record, SameCore
  <1> HIDE DEF v
  <1>5. y \in Record
    BY <1>a, <1>b DEF Record
  <1>6. /\ y.told = t /\ ~y.active /\ ~y.prompt /\ y.op = 0 /\ y.msg = 0
        /\ y.next = z.next /\ SameCore(z, y)
    BY <1>b, <1>c DEF Record, SameCore
  <1> HIDE DEF y
  <1>7. Publishing(y)
    BY <1>3, <1>6 DEF Publishing
  <1>8. SameCore(x, y)
    BY <1>4, <1>6 DEF SameCore
  <1>9. QED  BY <1>2, <1>4, <1>5, <1>6, <1>7, <1>8 DEF t

LEMMA PublishFails ==
    ASSUME NEW x \in Record, Telling(x)
    PROVE  LET y == FailPublish(x) IN
           /\ y \in Record /\ Publishing(y) /\ SameCore(x, y) /\ ~y.active /\ Moves(x, y)
  <1>1. CASE ~x.active
    BY <1>1 DEF FailPublish, SameCore, Moves, Telling
  <1>2. CASE x.active
    <2>1. FailPublish(x) = Settle(x, "failed")
      BY <1>2 DEF FailPublish
    <2>2. QED  BY <1>2, <2>1, Settles DEF Moves
  <1>3. QED  BY <1>1, <1>2 DEF Record

(* A change of the phase.                                                  *)
Changed(x, y, state) ==
    /\ y \in Record /\ SamePublish(x, y) /\ y.state = state
    /\ ~y.pending /\ y.result = "none" /\ y.urc = "none" /\ y.code = "none"
    /\ y.closing = 0 /\ y.sub = 0
    /\ y.enabled = x.enabled /\ y.paused = x.paused /\ y.security = x.security
    /\ y.borrowed = x.borrowed /\ y.close = x.close /\ y.sid = x.sid
    /\ y.config = x.config /\ y.cmd = x.cmd /\ y.stage = x.stage
    /\ y.quarantined = x.quarantined /\ y.locked = x.locked

LEMMA Changes ==
    ASSUME NEW x \in Record, NEW state \in State
    PROVE  Changed(x, Change(x, state), state)
  <1> USE MqttAssumption
  <1> DEFINE v == [x EXCEPT !.state = state, !.pending = FALSE]
             w == [v EXCEPT !.result = "none", !.urc = "none", !.code = "none"]
             y == [w EXCEPT !.step = "setup", !.closing = 0, !.sub = 0]
  <1>1. 0 \in 0..Subs /\ 0 \in 0..2 /\ "setup" \in Step /\ "none" \in Verdict
    BY DEF Step, Verdict
  <1>2. v \in Record
    BY DEF Record
  <1>3. /\ v.state = state /\ ~v.pending /\ SamePublish(x, v)
        /\ v.enabled = x.enabled /\ v.paused = x.paused /\ v.security = x.security
        /\ v.borrowed = x.borrowed /\ v.close = x.close /\ v.sid = x.sid
        /\ v.config = x.config /\ v.cmd = x.cmd /\ v.stage = x.stage
        /\ v.quarantined = x.quarantined /\ v.locked = x.locked
    BY DEF Record, SamePublish
  <1>4. Change(x, state) = y
    BY DEF Change
  <1> HIDE DEF v
  <1>5. w \in Record
    BY <1>1, <1>2 DEF Record
  <1>6. /\ w.state = v.state /\ w.pending = v.pending /\ SamePublish(v, w)
        /\ w.result = "none" /\ w.urc = "none" /\ w.code = "none"
        /\ w.enabled = v.enabled /\ w.paused = v.paused /\ w.security = v.security
        /\ w.borrowed = v.borrowed /\ w.close = v.close /\ w.sid = v.sid
        /\ w.config = v.config /\ w.cmd = v.cmd /\ w.stage = v.stage
        /\ w.quarantined = v.quarantined /\ w.locked = v.locked
    BY <1>2 DEF Record, SamePublish
  <1> HIDE DEF w
  <1>7. y \in Record
    BY <1>1, <1>5 DEF Record
  <1>8. /\ y.state = w.state /\ y.pending = w.pending /\ SamePublish(w, y)
        /\ y.result = w.result /\ y.urc = w.urc /\ y.code = w.code
        /\ y.closing = 0 /\ y.sub = 0
        /\ y.enabled = w.enabled /\ y.paused = w.paused /\ y.security = w.security
        /\ y.borrowed = w.borrowed /\ y.close = w.close /\ y.sid = w.sid
        /\ y.config = w.config /\ y.cmd = w.cmd /\ y.stage = w.stage
        /\ y.quarantined = w.quarantined /\ y.locked = w.locked
    BY <1>5 DEF Record, SamePublish
  <1> HIDE DEF y
  <1>9. SamePublish(x, y)
    BY <1>3, <1>6, <1>8 DEF SamePublish
  <1>10. QED  BY <1>3, <1>4, <1>6, <1>7, <1>8, <1>9 DEF Changed

(* The end of the command.                                                 *)
Ended(x, y, ok) ==
    /\ y \in Record /\ Publishing(y) /\ Moves(x, y)
    /\ ~y.pending /\ y.result = (IF ok THEN "ok" ELSE "failed")
    /\ y.cmd = "none" /\ y.stage = "none"
    /\ y.state = x.state /\ y.urc = x.urc /\ y.code = x.code /\ y.closing = x.closing
    /\ y.enabled = x.enabled /\ y.paused = x.paused /\ y.security = x.security
    /\ y.borrowed = x.borrowed /\ y.config = x.config /\ y.locked = x.locked
    /\ y.close = x.close \/ (~ok /\ x.state = "READY")
    /\ x.quarantined => y.quarantined

LEMMA DoneEnds ==
    ASSUME NEW x \in Record, Telling(x), NEW result \in {"OK", "ERROR", "TIMEOUT", "SEND_FAIL"},
           result = "OK" => Publishing(x)
    PROVE  LET y == Done(x, result) IN
           /\ Ended(x, y, result = "OK")
           /\ result = "OK" => y.quarantined = x.quarantined /\ SamePublish(x, y)
           /\ result # "OK" => ~y.active
           /\ result = "TIMEOUT" => y.quarantined
           /\ y.quarantined => x.quarantined \/ result = "TIMEOUT"
  <1> DEFINE r == IF result = "OK" THEN "ok" ELSE "failed"
             v == [x EXCEPT !.pending = FALSE, !.result = r]
             w == [v EXCEPT !.cmd = "none", !.stage = "none"]
             f == FailPublish(w)
             q == f.quarantined \/ result = "TIMEOUT"
             c == f.close \/ w.state = "READY"
             y == [f EXCEPT !.quarantined = q, !.close = c]
  <1>1. r \in Verdict /\ "none" \in Command
    BY DEF Verdict, Command
  <1> HIDE DEF r
  <1>2. v \in Record
    BY <1>1 DEF Record
  <1>3. /\ ~v.pending /\ v.result = r /\ SamePublish(x, v)
        /\ v.state = x.state /\ v.urc = x.urc /\ v.code = x.code /\ v.closing = x.closing
        /\ v.enabled = x.enabled /\ v.paused = x.paused /\ v.security = x.security
        /\ v.borrowed = x.borrowed /\ v.config = x.config /\ v.locked = x.locked
        /\ v.close = x.close /\ v.quarantined = x.quarantined
    BY DEF Record, SamePublish
  <1> HIDE DEF v
  <1>4. w \in Record
    BY <1>1, <1>2 DEF Record
  <1>5. /\ ~w.pending /\ w.result = r /\ SamePublish(v, w)
        /\ w.cmd = "none" /\ w.stage = "none"
        /\ w.state = v.state /\ w.urc = v.urc /\ w.code = v.code /\ w.closing = v.closing
        /\ w.enabled = v.enabled /\ w.paused = v.paused /\ w.security = v.security
        /\ w.borrowed = v.borrowed /\ w.config = v.config /\ w.locked = v.locked
        /\ w.close = v.close /\ w.quarantined = v.quarantined
    BY <1>2, <1>3 DEF Record, SamePublish
  <1>6. Done(x, result) = IF result = "OK" THEN w ELSE y
    BY DEF Done, r, v
  <1> HIDE DEF w
  <1>7. /\ SamePublish(x, w) /\ Telling(w) /\ Moves(x, w)
        /\ result = "OK" => Publishing(w)
    <2>1. SamePublish(x, w)
      BY <1>3, <1>5 DEF SamePublish
    <2>2. QED  BY <2>1, PublishKept
  <1>8. CASE result = "OK"
    <2>1. r = "ok"
      BY <1>8 DEF r
    <2>2. QED  BY <1>3, <1>4, <1>5, <1>6, <1>7, <1>8, <2>1 DEF Ended
  <1>9. CASE result # "OK"
    <2>1. f \in Record /\ Publishing(f) /\ SameCore(w, f) /\ Moves(w, f) /\ ~f.active
      BY <1>4, <1>7, PublishFails
    <2>2. Moves(x, f)
      BY <1>7, <2>1, MovesTwice
    <2> HIDE DEF f
    <2>3. q \in BOOLEAN /\ c \in BOOLEAN
      OBVIOUS
    <2>4. (f.quarantined => q) /\ (q => f.quarantined \/ result = "TIMEOUT")
          /\ (result = "TIMEOUT" => q) /\ (c = f.close \/ w.state = "READY")
      BY <2>1 DEF Record
    <2> HIDE DEF q, c
    <2>5. y \in Record
      BY <2>1, <2>3 DEF Record
    <2>6. /\ SamePublish(f, y)
          /\ ~y.pending /\ y.result = f.result /\ y.cmd = "none" /\ y.stage = "none"
          /\ y.state = f.state /\ y.urc = f.urc /\ y.code = f.code /\ y.closing = f.closing
          /\ y.enabled = f.enabled /\ y.paused = f.paused /\ y.security = f.security
          /\ y.borrowed = f.borrowed /\ y.config = f.config /\ y.locked = f.locked
          /\ y.close = c /\ y.quarantined = q
      BY <1>5, <2>1 DEF Record, SamePublish, SameCore
    <2> HIDE DEF y
    <2>7. Publishing(y) /\ Moves(f, y) /\ ~y.active
      BY <2>1, <2>6, PublishKept DEF SamePublish
    <2>8. Moves(x, y)
      BY <2>2, <2>7, MovesTwice
    <2>9. r = "failed"
      BY <1>9 DEF r
    <2>10. /\ y.state = x.state /\ y.urc = x.urc /\ y.code = x.code /\ y.closing = x.closing
           /\ y.enabled = x.enabled /\ y.paused = x.paused /\ y.security = x.security
           /\ y.borrowed = x.borrowed /\ y.config = x.config /\ y.locked = x.locked
           /\ y.result = "failed" /\ f.quarantined = x.quarantined /\ f.close = x.close
           /\ w.state = x.state
      BY <1>3, <1>5, <2>1, <2>6, <2>9 DEF SameCore
    <2>11. QED  BY <1>6, <1>9, <2>4, <2>5, <2>6, <2>7, <2>8, <2>10 DEF Ended
  <1>10. QED  BY <1>8, <1>9

LEMMA DoneKeeps ==
    ASSUME NEW x, NEW y, NEW md, NEW ok \in BOOLEAN, Rules(x, md), Ended(x, y, ok),
           x.state = "CLOSING" =>
               /\ ok /\ x.closing # 0 => md.client = "closed"
               /\ ~ok /\ x.closing = 2 => md.client = "closed" \/ y.quarantined
    PROVE  Rules(y, md)
  <1>1. y.result # "none" /\ ~Unsent(y)
    BY DEF Ended, Unsent
  <1>2. Commanding(y)
    BY <1>1 DEF Ended, Rules, Commanding, Rest
  <1>3. InPhase(y, md)
    BY <1>1 DEF Ended, Rules, InPhase, Opens, Closes
  <1>4. Lent(y, md)
    BY DEF Ended, Rules, Lent
  <1>5. QED  BY <1>2, <1>3, <1>4 DEF Rules

(* The AT client is quarantined, which ends the command.                   *)
LEMMA Quarantines ==
    ASSUME NEW x, NEW md, Inv(x, md)
    PROVE  LET y == Quarantine(x) IN
           /\ Inv(y, md) /\ Moves(x, y) /\ y.quarantined /\ y.cmd = "none"
           /\ y.state = x.state /\ y.borrowed = x.borrowed /\ y.locked = x.locked
           /\ y.enabled = x.enabled /\ y.config = x.config
  <1> DEFINE v == [x EXCEPT !.quarantined = TRUE]
  <1>1. x \in Record /\ Publishing(x) /\ Rules(x, md)
    BY DEF Inv
  <1>2. v \in Record
    BY <1>1 DEF Record
  <1>3. /\ SamePublish(x, v) /\ v.quarantined
        /\ v.state = x.state /\ v.enabled = x.enabled /\ v.paused = x.paused
        /\ v.security = x.security /\ v.borrowed = x.borrowed /\ v.close = x.close
        /\ v.closing = x.closing /\ v.step = x.step /\ v.pending = x.pending
        /\ v.result = x.result /\ v.urc = x.urc /\ v.code = x.code /\ v.sub = x.sub
        /\ v.sid = x.sid /\ v.config = x.config /\ v.cmd = x.cmd /\ v.stage = x.stage
        /\ v.locked = x.locked
    BY <1>1 DEF Record, SamePublish
  <1>4. Quarantine(x) = IF v.cmd = "none" THEN v ELSE Done(v, "ERROR")
    BY DEF Quarantine
  <1> HIDE DEF v
  <1>5. Phased(v) = Phased(x) /\ (Unsent(v) <=> Unsent(x))
    BY <1>3 DEF Phased, Unsent
  <1>6. Commanding(v)
    BY <1>1, <1>3, <1>5 DEF Rules, Commanding
  <1>7. InPhase(v, md)
    BY <1>1, <1>3, <1>5 DEF Rules, InPhase, Opens, Closes
  <1>8. Lent(v, md)
    BY <1>1, <1>3 DEF Rules, Lent
  <1>9. Publishing(v) /\ Moves(x, v)
    BY <1>1, <1>3, PublishKept
  <1>10. CASE v.cmd = "none"
    BY <1>2, <1>3, <1>4, <1>6, <1>7, <1>8, <1>9, <1>10 DEF Inv, Rules
  <1>11. CASE v.cmd # "none"
    <2> DEFINE y == Done(v, "ERROR")
    <2>1. Ended(v, y, FALSE)
      BY <1>2, <1>9, DoneEnds, PublishingTells
    <2> HIDE DEF y
    <2>2. y.quarantined
      BY <1>3, <2>1 DEF Ended
    <2>3. Rules(y, md)
      BY <1>6, <1>7, <1>8, <2>1, <2>2, DoneKeeps DEF Rules
    <2>4. Moves(x, y)
      BY <1>9, <2>1, MovesTwice DEF Ended
    <2>5. QED  BY <1>3, <1>4, <1>11, <2>1, <2>2, <2>3, <2>4 DEF Inv, Ended, y
  <1>12. QED  BY <1>10, <1>11

(* A transport that is blocked owes the modem nothing.                     *)
LEMMA BlockedKeeps ==
    ASSUME NEW x, NEW y, NEW md, Changed(x, y, "BLOCKED"), Publishing(x), Rules(x, md),
           x.quarantined \/ x.locked
    PROVE  Inv(y, md)
  <1>1. Publishing(y)
    BY PublishKept DEF Changed
  <1>2. Commanding(y)
    BY DEF Changed, Rules, Commanding, Rest
  <1>3. InPhase(y, md)
    BY DEF Changed, InPhase, Rest
  <1>4. Lent(y, md)
    BY DEF Changed, Rules, Lent
  <1>5. QED  BY <1>1, <1>2, <1>3, <1>4 DEF Inv, Rules, Changed

LEMMA Blocks ==
    ASSUME NEW x, NEW md, Inv(x, md)
    PROVE  LET y == Blocked(x) IN
           /\ Inv(y, md) /\ Moves(x, y) /\ y.state = "BLOCKED" /\ y.quarantined
           /\ y.borrowed = x.borrowed /\ y.enabled = x.enabled
  <1> DEFINE q == Quarantine(x)
             y == Change(q, "BLOCKED")
  <1>1. /\ Inv(q, md) /\ Moves(x, q) /\ q.quarantined
        /\ q.borrowed = x.borrowed /\ q.enabled = x.enabled
    BY Quarantines
  <1> HIDE DEF q
  <1>2. "BLOCKED" \in State
    BY DEF State
  <1>3. Changed(q, y, "BLOCKED")
    BY <1>1, <1>2, Changes DEF Inv
  <1>4. Blocked(x) = y
    BY DEF Blocked, q
  <1> HIDE DEF y
  <1>5. Inv(y, md)
    BY <1>1, <1>3, BlockedKeeps DEF Inv
  <1>6. Moves(q, y)
    BY <1>3, PublishKept DEF Changed
  <1>7. Moves(x, y)
    BY <1>1, <1>6, MovesTwice
  <1>8. QED  BY <1>1, <1>3, <1>4, <1>5, <1>7 DEF Changed

(* A command is handed to the AT client.                                   *)
LEMMA Submits ==
    ASSUME NEW x, NEW md, Inv(x, md), NEW room \in BOOLEAN,
           x.state \in State \ (Rest \cup {"RETRY_WAIT", "BLOCKED"}), x.cmd = "none",
           NEW cmd \in Command, cmd = Phased(x), cmd # "none",
           x.state = "OPENING" => Unsent(x),
           x.state = "SUBSCRIBING" => x.sub # Subs
    PROVE  LET y == Submit(x, cmd, room) IN
           /\ Inv(y, md) /\ SamePublish(x, y)
           /\ y.state = x.state /\ y.quarantined = x.quarantined /\ y.locked = x.locked
           /\ y.close = x.close /\ y.enabled = x.enabled /\ y.sub = x.sub
           /\ y = x \/ (y.pending /\ y.result = "none" /\ y.cmd = cmd /\ y.stage = "queued")
  <1> DEFINE u == [x EXCEPT !.cmd = cmd]
             v == [u EXCEPT !.stage = "queued"]
             y == [v EXCEPT !.pending = TRUE, !.result = "none"]
  <1>1. x \in Record /\ Publishing(x) /\ Rules(x, md)
    BY DEF Inv
  <1>2. CASE Submit(x, cmd, room) = x
    BY <1>2 DEF SamePublish
  <1>3. CASE Submit(x, cmd, room) = y
    <2>1. v \in Record
      <3>1. u \in Record
        BY <1>1 DEF Record
      <3> HIDE DEF u
      <3>2. QED  BY <3>1 DEF Record
    <2>2. /\ SamePublish(x, v) /\ v.cmd = cmd /\ v.stage = "queued"
          /\ v.state = x.state /\ v.enabled = x.enabled /\ v.paused = x.paused
          /\ v.security = x.security /\ v.borrowed = x.borrowed /\ v.close = x.close
          /\ v.closing = x.closing /\ v.step = x.step /\ v.pending = x.pending
          /\ v.urc = x.urc /\ v.code = x.code /\ v.sub = x.sub
          /\ v.sid = x.sid /\ v.config = x.config
          /\ v.quarantined = x.quarantined /\ v.locked = x.locked
      BY <1>1 DEF Record, SamePublish
    <2> HIDE DEF v
    <2>a. "none" \in Verdict
      BY DEF Verdict
    <2>3. y \in Record
      BY <2>1, <2>a DEF Record
    <2>4. /\ SamePublish(v, y) /\ y.cmd = cmd /\ y.stage = "queued"
          /\ y.pending /\ y.result = "none"
          /\ y.state = v.state /\ y.enabled = v.enabled
          /\ y.borrowed = v.borrowed /\ y.close = v.close
          /\ y.closing = v.closing /\ y.urc = v.urc /\ y.code = v.code
          /\ y.config = v.config /\ y.sub = v.sub
          /\ y.quarantined = v.quarantined /\ y.locked = v.locked
      BY <2>1, <2>2 DEF Record, SamePublish
    <2> HIDE DEF y
    <2>5. Phased(y) = cmd
      BY <2>2, <2>4 DEF Phased
    <2>6. Commanding(y)
      BY <1>1, <2>2, <2>4, <2>5 DEF Rules, Commanding
    <2>7. InPhase(y, md)
      BY <1>1, <2>2, <2>4 DEF Rules, InPhase, Opens, Closes, Unsent
    <2>8. Lent(y, md)
      BY <1>1, <2>2, <2>4 DEF Rules, Lent, Phased
    <2>9. SamePublish(x, y)
      BY <2>2, <2>4 DEF SamePublish
    <2>10. Publishing(y)
      BY <1>1, <2>9, PublishKept
    <2>11. QED  BY <1>3, <2>2, <2>3, <2>4, <2>6, <2>7, <2>8, <2>9, <2>10 DEF Inv, Rules
  <1>4. QED  BY <1>2, <1>3 DEF Submit

-----------------------------------------------------------------------------
(* What a turn of Poll makes of the record besides its phase.              *)
Turns(x, y) ==
    /\ Moves(x, y)
    /\ \/ y.state = "BLOCKED" /\ y.quarantined
       \/ /\ y.quarantined = x.quarantined /\ y.locked = x.locked
          /\ y.close = x.close /\ y.enabled = x.enabled

LEMMA TurnsTwice ==
    ASSUME NEW x, NEW y, NEW z, Turns(x, y), Turns(y, z), y.state # "BLOCKED"
    PROVE  Turns(x, z)
  BY MovesTwice DEF Turns

(* A change to a phase that asks nothing of the modem.                     *)
LEMMA ChangeTurns ==
    ASSUME NEW x, NEW y, NEW state, Changed(x, y, state), Publishing(x)
    PROVE  Turns(x, y) /\ Publishing(y)
  BY PublishKept DEF Changed, Turns

LEMMA RetryKeeps ==
    ASSUME NEW x, NEW y, NEW md, Changed(x, y, "RETRY_WAIT"), Publishing(x), Rules(x, md),
           md.client = "closed", x.cmd = "none", x.close => ~x.enabled,
           x.borrowed => ~x.enabled
    PROVE  Inv(y, md)
  <1>1. Publishing(y)
    BY PublishKept DEF Changed
  <1>2. Commanding(y)
    BY DEF Changed, Rules, Commanding, Rest
  <1>3. InPhase(y, md)
    BY DEF Changed, InPhase, Rest
  <1>4. Lent(y, md)
    BY DEF Changed, Rules, Lent
  <1>5. QED  BY <1>1, <1>2, <1>3, <1>4 DEF Inv, Rules, Changed

(* Giving up: the session is closed, unless a command is still out.        *)
LEMMA FailsClosed ==
    ASSUME NEW x, NEW md, Inv(x, md),
           \/ x.quarantined
           \/ x.state # "BLOCKED" /\ ((x.close \/ x.borrowed) => ~x.enabled)
    PROVE  LET y == FailClosed(x) IN
           /\ Inv(y, md) /\ Turns(x, y) /\ y.borrowed = x.borrowed /\ y.enabled = x.enabled
           /\ y.state \in {"BLOCKED", "CLOSING", "RETRY_WAIT"}
  <1> DEFINE f == FailPublish(x)
             refused == x.state = "CONNECTING" /\ x.urc = "failed" /\ x.code = "refused"
             b == Blocked(f)
             r == Change(f, "RETRY_WAIT")
             c == Change(f, "CLOSING")
             n == IF refused THEN 2 ELSE 0
             y == [c EXCEPT !.closing = n]
  <1>1. /\ f \in Record /\ Publishing(f) /\ SameCore(x, f) /\ Moves(x, f) /\ ~f.active
    BY PublishFails, PublishingTells DEF Inv
  <1>2. Rules(f, md)
    BY <1>1, CoreKept DEF Inv
  <1>3. FailClosed(x) = IF f.pending \/ f.quarantined THEN b
                        ELSE IF f.state = "CONFIGURING" THEN r ELSE y
    BY DEF FailClosed
  <1> HIDE DEF f
  <1>4. Inv(f, md)
    BY <1>1, <1>2 DEF Inv
  <1>5. CASE f.pending \/ f.quarantined
    <2>1. /\ Inv(b, md) /\ Moves(f, b) /\ b.state = "BLOCKED" /\ b.quarantined
          /\ b.borrowed = f.borrowed /\ b.enabled = f.enabled
      BY <1>4, Blocks
    <2>2. Moves(x, b)
      BY <1>1, <2>1, MovesTwice
    <2>3. QED  BY <1>1, <1>3, <1>5, <2>1, <2>2 DEF Turns, SameCore
  <1>6. CASE ~(f.pending \/ f.quarantined)
    <2>1. /\ f.state # "BLOCKED" /\ f.cmd = "none"
          /\ (x.close \/ x.borrowed) => ~x.enabled
      BY <1>1, <1>2, <1>6 DEF SameCore, Rules, Commanding
    <2>2. CASE f.state = "CONFIGURING"
      <3>1. "RETRY_WAIT" \in State
        BY DEF State
      <3>2. Changed(f, r, "RETRY_WAIT")
        BY <1>1, <3>1, Changes
      <3> HIDE DEF r
      <3>3. md.client = "closed"
        BY <1>2, <2>2 DEF Rules, InPhase
      <3>4. (f.close => ~f.enabled) /\ (f.borrowed => ~f.enabled)
        BY <1>1, <2>1 DEF SameCore
      <3>5. Inv(r, md)
        BY <1>1, <1>2, <2>1, <3>2, <3>3, <3>4, RetryKeeps
      <3>6. Moves(x, r)
        BY <1>1, <3>2, MovesTwice, PublishKept DEF Changed
      <3>7. QED  BY <1>1, <1>3, <1>6, <2>2, <3>2, <3>5, <3>6 DEF Turns, Changed, SameCore
    <2>3. CASE f.state # "CONFIGURING"
      <3>1. "CLOSING" \in State /\ n \in 0..2
        BY DEF State
      <3>2. Changed(f, c, "CLOSING")
        BY <1>1, <3>1, Changes
      <3>3. (n = 2 => refused) /\ n \in {0, 2}
        OBVIOUS
      <3> HIDE DEF c, n
      <3>4. y \in Record
        BY <3>1, <3>2 DEF Changed, Record
      <3>5. /\ SamePublish(c, y) /\ y.closing = n
            /\ y.state = c.state /\ y.pending = c.pending /\ y.result = c.result
            /\ y.enabled = c.enabled /\ y.borrowed = c.borrowed /\ y.close = c.close
            /\ y.urc = c.urc /\ y.code = c.code /\ y.config = c.config /\ y.cmd = c.cmd
            /\ y.stage = c.stage /\ y.quarantined = c.quarantined /\ y.locked = c.locked
        BY <3>2 DEF Changed, Record, SamePublish
      <3> HIDE DEF y
      <3>6. Commanding(y)
        BY <1>1, <1>2, <2>1, <3>2, <3>5 DEF Changed, Rules, Commanding, Rest, SameCore
      <3>7. refused => md.client = "refused"
        BY <1>1, <1>2 DEF Rules, InPhase, SameCore
      <3>8. InPhase(y, md)
        <4>1. y.state = "CLOSING" /\ y.result = "none" /\ y.config = f.config
          BY <3>2, <3>5 DEF Changed
        <4>2. Closes(y, md)
          BY <3>3, <3>5, <3>7, <4>1 DEF Closes
        <4>3. md.client # "closed" => md.config = y.config
          BY <1>2, <2>1, <4>1 DEF Rules, InPhase
        <4>4. QED  BY <4>1, <4>2, <4>3 DEF InPhase, Rest
      <3>9. Lent(y, md)
        BY <1>1, <1>2, <2>1, <3>2, <3>5 DEF Changed, Rules, Lent, SameCore
      <3>10. SamePublish(f, y)
        BY <3>2, <3>5 DEF Changed, SamePublish
      <3>11. Publishing(y) /\ Moves(f, y)
        BY <1>1, <3>10, PublishKept
      <3>12. Moves(x, y)
        BY <1>1, <3>11, MovesTwice
      <3>13. Inv(y, md)
        BY <3>4, <3>6, <3>8, <3>9, <3>11 DEF Inv, Rules
      <3>14. QED
        BY <1>1, <1>3, <1>6, <2>3, <3>2, <3>5, <3>12, <3>13 DEF Turns, Changed, SameCore
    <2>4. QED  BY <2>2, <2>3
  <1>7. QED  BY <1>5, <1>6

(* A transport whose phase may go on.                                      *)
Live(x, md) ==
    /\ Inv(x, md)
    /\ ~x.quarantined /\ ~x.locked
    /\ x.close => ~x.enabled

InTurn(x, y, md) == Inv(y, md) /\ Turns(x, y)

LEMMA NotLent ==
    ASSUME NEW x, NEW md, Inv(x, md),
           x.state \in {"CONFIGURING", "OPENING", "CONNECTING", "SUBSCRIBING", "READY"}
    PROVE  ~x.borrowed /\ x.state # "BLOCKED"
  BY DEF Inv, Rules, Lent, Rest

LEMMA Stays ==
    ASSUME NEW x, NEW md, Inv(x, md)
    PROVE  InTurn(x, x, md)
  BY DEF InTurn, Turns, Moves

LEMMA LiveFails ==
    ASSUME NEW x, NEW md, Live(x, md),
           x.state \in {"CONFIGURING", "OPENING", "CONNECTING", "SUBSCRIBING", "READY"}
    PROVE  InTurn(x, FailClosed(x), md)
  <1>1. ~x.borrowed /\ x.state # "BLOCKED"
    BY NotLent DEF Live
  <1>2. QED  BY <1>1, FailsClosed DEF Live, InTurn

(* The next command of the configuration.                                  *)
LEMMA StepsOn ==
    ASSUME NEW x, NEW md, Live(x, md), x.state = "CONFIGURING", x.result = "ok",
           NEW step \in Step
    PROVE  LET y == [x EXCEPT !.result = "none", !.step = step] IN
           InTurn(x, y, md) /\ Live(y, md) /\ y.state = "CONFIGURING"
  <1> DEFINE y == [x EXCEPT !.result = "none", !.step = step]
  <1>1. x \in Record /\ Publishing(x) /\ Rules(x, md)
    BY DEF Live, Inv
  <1>2. "none" \in Verdict
    BY DEF Verdict
  <1>3. y \in Record
    BY <1>1, <1>2 DEF Record
  <1>4. /\ SamePublish(x, y) /\ y.result = "none"
        /\ y.state = x.state /\ y.pending = x.pending
        /\ y.enabled = x.enabled /\ y.borrowed = x.borrowed /\ y.close = x.close
        /\ y.closing = x.closing /\ y.urc = x.urc /\ y.code = x.code
        /\ y.config = x.config /\ y.cmd = x.cmd
        /\ y.stage = x.stage /\ y.quarantined = x.quarantined /\ y.locked = x.locked
    BY <1>1 DEF Record, SamePublish
  <1> HIDE DEF y
  <1>5. Phased(y) = Phased(x)
    BY <1>4 DEF Phased
  <1>6. Commanding(y)
    BY <1>1, <1>4, <1>5 DEF Rules, Commanding
  <1>7. InPhase(y, md)
    BY <1>1, <1>4 DEF Rules, InPhase
  <1>8. Lent(y, md)
    BY <1>1, <1>4 DEF Rules, Lent
  <1>9. Publishing(y) /\ Moves(x, y)
    BY <1>1, <1>4, PublishKept
  <1>10. QED
    BY <1>3, <1>4, <1>6, <1>7, <1>8, <1>9 DEF Live, InTurn, Turns, Inv, Rules, y

LEMMA OpeningBegins ==
    ASSUME NEW x, NEW md, Live(x, md), x.state = "CONFIGURING", x.result = "ok"
    PROVE  InTurn(x, Change(x, "OPENING"), md)
  <1> DEFINE y == Change(x, "OPENING")
  <1>1. x \in Record /\ Publishing(x) /\ Rules(x, md)
    BY DEF Live, Inv
  <1>2. Changed(x, y, "OPENING")
    BY <1>1, Changes DEF State
  <1> HIDE DEF y
  <1>3. ~x.pending /\ x.cmd = "none" /\ ~x.borrowed
    BY <1>1, NotLent DEF Rules, Commanding, Live
  <1>4. Commanding(y)
    BY <1>1, <1>2, <1>3 DEF Changed, Rules, Commanding, Rest, Live
  <1>5. InPhase(y, md)
    <2>1. md.client = "closed" /\ md.duty = {}
      BY <1>1 DEF Rules, InPhase
    <2>2. Opens(y, md)
      BY <1>2, <2>1 DEF Changed, Opens
    <2>3. QED  BY <1>2, <2>1, <2>2 DEF Changed, InPhase, Rest
  <1>6. Lent(y, md)
    BY <1>2, <1>3 DEF Changed, Lent
  <1>7. Turns(x, y) /\ Publishing(y)
    BY <1>1, <1>2, ChangeTurns
  <1>8. QED  BY <1>2, <1>4, <1>5, <1>6, <1>7 DEF InTurn, Inv, Rules, Changed, y

LEMMA ConfiguredKeeps ==
    ASSUME NEW x, NEW md, Live(x, md), x.state = "CONFIGURING", x.result = "ok",
           NEW good \in BOOLEAN
    PROVE  InTurn(x, Configured(x, good), md)
  <1> DEFINE to(step) == [x EXCEPT !.result = "none", !.step = step]
             v == [x EXCEPT !.result = "none"]
             opening == Change(x, "OPENING")
             failed == FailClosed(v)
  <1>1. InTurn(x, opening, md)
    BY OpeningBegins
  <1>2. \A step \in Step : InTurn(x, to(step), md)
    BY StepsOn
  <1>3. InTurn(x, failed, md)
    <2>1. x \in Record /\ x.step \in Step
      BY DEF Live, Inv, Record
    <2>2. v = to(x.step)
      BY <2>1 DEF Record
    <2>c. InTurn(x, to(x.step), md) /\ Live(to(x.step), md) /\ to(x.step).state = "CONFIGURING"
      BY <2>1, StepsOn
    <2> HIDE DEF v, to
    <2>3. InTurn(x, v, md) /\ Live(v, md) /\ v.state = "CONFIGURING"
      BY <2>2, <2>c
    <2>4. InTurn(v, failed, md)
      BY <2>3, LiveFails
    <2>5. QED  BY <2>3, <2>4, TurnsTwice DEF InTurn
  <1>4. /\ "setup" \in Step /\ "reg" \in Step /\ "attach_query" \in Step /\ "pdp_query" \in Step
        /\ "attach" \in Step /\ "apn" \in Step /\ "activate" \in Step /\ "verify" \in Step
    BY DEF Step
  <1>5. x.step \in Step
    BY DEF Live, Inv, Record
  <1> HIDE DEF opening, failed, to
  <1>6. CASE x.step = "setup"
    <2>1. Configured(x, good) = to(IF good THEN "reg" ELSE "setup")
      BY <1>6 DEF Configured, to
    <2>2. QED  BY <1>2, <1>4, <2>1
  <1>7. CASE x.step = "reg"
    <2>1. Configured(x, good) = IF good THEN to("attach_query") ELSE failed
      BY <1>7 DEF Configured, to, failed, v
    <2>2. QED  BY <1>2, <1>3, <1>4, <2>1
  <1>8. CASE x.step = "attach_query"
    <2>1. Configured(x, good) = to(IF good THEN "pdp_query" ELSE "attach")
      BY <1>8 DEF Configured, to
    <2>2. QED  BY <1>2, <1>4, <2>1
  <1>9. CASE x.step = "attach"
    <2>1. Configured(x, good) = to("pdp_query")
      BY <1>9 DEF Configured, to
    <2>2. QED  BY <1>2, <1>4, <2>1
  <1>10. CASE x.step = "pdp_query"
    <2>1. Configured(x, good) = IF good THEN opening ELSE to("apn")
      BY <1>10 DEF Configured, to, opening
    <2>2. QED  BY <1>1, <1>2, <1>4, <2>1
  <1>11. CASE x.step = "apn"
    <2>1. Configured(x, good) = to("activate")
      BY <1>11 DEF Configured, to
    <2>2. QED  BY <1>2, <1>4, <2>1
  <1>12. CASE x.step = "activate"
    <2>1. Configured(x, good) = to("verify")
      BY <1>12 DEF Configured, to
    <2>2. QED  BY <1>2, <1>4, <2>1
  <1>13. CASE x.step = "verify"
    <2>1. Configured(x, good) = IF good THEN opening ELSE failed
      BY <1>13 DEF Configured, opening, failed, v
    <2>2. QED  BY <1>1, <1>3, <2>1
  <1>14. QED
    BY <1>5, <1>6, <1>7, <1>8, <1>9, <1>10, <1>11, <1>12, <1>13 DEF Step

LEMMA ConfiguringKeeps ==
    ASSUME NEW x, NEW md, Live(x, md), x.state = "CONFIGURING", NEW t \in Turn
    PROVE  InTurn(x, Configuring(x, t), md)
  <1>1. t.late \in BOOLEAN /\ t.room \in BOOLEAN /\ t.good \in BOOLEAN
    BY DEF Turn
  <1>2. InTurn(x, FailClosed(x), md)
    BY LiveFails
  <1>3. InTurn(x, x, md)
    BY Stays DEF Live
  <1>4. CASE Unsent(x)
    <2>1. x.cmd = "none" /\ Phased(x) = "setup" /\ "setup" \in Command
      BY <1>4 DEF Live, Inv, Rules, Commanding, Unsent, Phased, Command
    <2>2. x.state \in State \ (Rest \cup {"RETRY_WAIT", "BLOCKED"})
      BY DEF State, Rest
    <2>3. Inv(x, md) /\ x.state # "OPENING"
      BY DEF Live
    <2> DEFINE y == Submit(x, "setup", t.room)
    <2>4. /\ Inv(y, md) /\ SamePublish(x, y)
          /\ y.quarantined = x.quarantined /\ y.locked = x.locked
          /\ y.close = x.close /\ y.enabled = x.enabled
      BY <1>1, <2>1, <2>2, <2>3, Submits
    <2> HIDE DEF y
    <2>5. InTurn(x, y, md)
      BY <2>4, PublishKept DEF InTurn, Turns
    <2>6. QED  BY <1>2, <1>4, <2>5 DEF Configuring, y
  <1>5. CASE ~Unsent(x) /\ x.result = "ok"
    BY <1>1, <1>5, ConfiguredKeeps DEF Configuring
  <1>6. CASE ~Unsent(x) /\ x.result # "ok"
    BY <1>2, <1>3, <1>6 DEF Configuring
  <1>7. QED  BY <1>4, <1>5, <1>6

Sending == {"OPENING", "CONNECTING", "SUBSCRIBING"}

LEMMA SentKeeps ==
    ASSUME NEW x, NEW md, Live(x, md), x.state \in Sending,
           x.state = "SUBSCRIBING" => x.sub # Subs,
           NEW cmd, cmd = Phased(x), NEW t \in Turn
    PROVE  LET y == Sent(x, cmd, t) IN
           /\ InTurn(x, y, md)
           /\ y.state = x.state => Live(y, md) /\ y.sub = x.sub
           /\ y.state \in {x.state, "BLOCKED", "CLOSING", "RETRY_WAIT"}
  <1>1. t.late \in BOOLEAN /\ t.room \in BOOLEAN /\ Inv(x, md)
    BY DEF Turn, Live
  <1>2. CASE ~Unsent(x)
    BY <1>1, <1>2, Stays DEF Sent
  <1>3. CASE Unsent(x) /\ Expired(x, t.late)
    <2> DEFINE y == FailClosed(x)
    <2>1. ~x.borrowed /\ x.state # "BLOCKED"
      BY <1>1, NotLent DEF Sending
    <2>2. InTurn(x, y, md) /\ y.state \in {"BLOCKED", "CLOSING", "RETRY_WAIT"}
      BY <2>1, FailsClosed DEF Live, InTurn
    <2> HIDE DEF y
    <2>3. QED  BY <1>3, <2>2 DEF Sent, Sending, y
  <1>4. CASE Unsent(x) /\ ~Expired(x, t.late)
    <2>1. x.cmd = "none" /\ cmd \in Command /\ cmd # "none"
      BY <1>1, <1>4 DEF Inv, Rules, Commanding, Unsent, Phased, Command, Sending
    <2>2. x.state \in State \ (Rest \cup {"RETRY_WAIT", "BLOCKED"})
      BY DEF State, Rest, Sending
    <2> DEFINE y == Submit(x, cmd, t.room)
    <2>3. /\ Inv(y, md) /\ SamePublish(x, y) /\ y.state = x.state /\ y.sub = x.sub
          /\ y.quarantined = x.quarantined /\ y.locked = x.locked
          /\ y.close = x.close /\ y.enabled = x.enabled
      BY <1>1, <1>4, <2>1, <2>2, Submits
    <2> HIDE DEF y
    <2>4. InTurn(x, y, md) /\ Live(y, md)
      BY <2>3, PublishKept DEF InTurn, Turns, Live
    <2>5. QED  BY <1>4, <2>3, <2>4 DEF Sent, y
  <1>5. QED  BY <1>2, <1>3, <1>4

LEMMA AwaitKeeps ==
    ASSUME NEW x, NEW md, Live(x, md), x.state \in Sending, NEW t \in Turn,
           NEW next, x.urc = "ok" /\ x.result = "ok" => InTurn(x, next, md)
    PROVE  InTurn(x, Await(x, t, next), md)
  <1>1. InTurn(x, FailClosed(x), md)
    BY LiveFails DEF Sending
  <1>2. InTurn(x, x, md)
    BY Stays DEF Live
  <1>3. QED  BY <1>1, <1>2 DEF Await

(* What is decided in turn x to y is decided from x.                       *)
LEMMA InTurnTwice ==
    ASSUME NEW x, NEW y, NEW z, NEW md, InTurn(x, y, md), y.state # "BLOCKED", InTurn(y, z, md)
    PROVE  InTurn(x, z, md)
  BY TurnsTwice DEF InTurn

LEMMA Retries ==
    ASSUME NEW x, NEW md, Live(x, md), x.state \in Sending, x.cmd = "none", md.client = "closed"
    PROVE  InTurn(x, Change(x, "RETRY_WAIT"), md)
  <1> DEFINE y == Change(x, "RETRY_WAIT")
  <1>1. x \in Record /\ Publishing(x) /\ Rules(x, md) /\ ~x.borrowed
    BY NotLent DEF Live, Inv, Sending
  <1>2. Changed(x, y, "RETRY_WAIT")
    BY <1>1, Changes DEF State
  <1>3. Inv(y, md)
    BY <1>1, <1>2, RetryKeeps DEF Live
  <1>4. QED  BY <1>1, <1>2, <1>3, ChangeTurns DEF InTurn

(* On to the next of the phases that have a client.                        *)
LEMMA GoesOn ==
    ASSUME NEW x, NEW md, Live(x, md), x.state \in Sending, ~x.pending,
           NEW state \in {"CONNECTING", "SUBSCRIBING", "READY"},
           state = "CONNECTING" => md.client \in {"open", "refused", "connected", "lost"},
           state # "CONNECTING" => md.client \in {"connected", "lost"}
    PROVE  InTurn(x, Change(x, state), md)
  <1> DEFINE y == Change(x, state)
  <1>1. x \in Record /\ Publishing(x) /\ Rules(x, md) /\ ~x.borrowed
    BY NotLent DEF Live, Inv, Sending
  <1>2. state \in State
    BY DEF State
  <1>3. Changed(x, y, state)
    BY <1>1, <1>2, Changes
  <1> HIDE DEF y
  <1>4. x.cmd = "none" /\ x.state # "BLOCKED"
    BY <1>1 DEF Rules, Commanding, Sending
  <1>5. Commanding(y)
    BY <1>1, <1>3, <1>4 DEF Changed, Rules, Commanding, Rest
  <1>6. InPhase(y, md)
    BY <1>1, <1>3, <1>4 DEF Changed, Rules, InPhase, Rest
  <1>7. Lent(y, md)
    BY <1>1, <1>3 DEF Changed, Lent
  <1>8. QED  BY <1>1, <1>3, <1>5, <1>6, <1>7, ChangeTurns DEF Inv, InTurn, Rules, Changed, y

LEMMA OpeningKeeps ==
    ASSUME NEW x, NEW md, Live(x, md), x.state = "OPENING", NEW t \in Turn
    PROVE  InTurn(x, Opening(x, t), md)
  <1> DEFINE y == Sent(x, "open", t)
             unopened == y.urc = "failed" /\ y.code = "unopened" /\ y.result = "ok" /\ ~y.pending
             next == Change(y, "CONNECTING")
  <1>1. /\ InTurn(x, y, md) /\ (y.state = x.state => Live(y, md))
    BY SentKeeps DEF Sending, Phased
  <1> HIDE DEF y
  <1>2. CASE ~Waits(x, y)
    BY <1>1, <1>2 DEF Opening, y
  <1>3. CASE Waits(x, y)
    <2>1. Live(y, md) /\ y.state = "OPENING" /\ ~Unsent(y)
      BY <1>1, <1>3 DEF Waits
    <2>2. y.result = "ok" => y.cmd = "none"
      BY <2>1 DEF Live, Inv, Rules, Commanding
    <2>3. CASE unopened
      <3>1. md.client = "closed"
        BY <2>1, <2>3 DEF Live, Inv, Rules, InPhase, Opens
      <3>2. InTurn(y, Change(y, "RETRY_WAIT"), md)
        BY <2>1, <2>2, <2>3, <3>1, Retries DEF Sending
      <3>3. InTurn(x, Change(y, "RETRY_WAIT"), md)
        BY <1>1, <2>1, <3>2, InTurnTwice
      <3>4. QED  BY <1>3, <2>3, <3>3 DEF Opening, y
    <2>4. CASE ~unopened
      <3>1. ASSUME y.urc = "ok", y.result = "ok" PROVE InTurn(y, next, md)
        <4>1. md.client \in {"open", "refused", "connected", "lost"}
          BY <2>1, <3>1 DEF Live, Inv, Rules, InPhase, Opens
        <4>2. ~y.pending
          BY <2>1, <3>1 DEF Live, Inv, Rules, Commanding
        <4>3. QED  BY <2>1, <4>1, <4>2, GoesOn DEF Sending
      <3> HIDE DEF next
      <3>2. InTurn(y, Await(y, t, next), md)
        BY <2>1, <3>1, AwaitKeeps DEF Sending
      <3>3. InTurn(x, Await(y, t, next), md)
        BY <1>1, <2>1, <3>2, InTurnTwice
      <3>4. Opening(x, t) = IF y.urc = "failed" /\ y.pending THEN y ELSE Await(y, t, next)
        BY <1>3, <2>4 DEF Opening, y, next
      <3>5. QED  BY <1>1, <3>3, <3>4
    <2>5. QED  BY <2>3, <2>4
  <1>4. QED  BY <1>2, <1>3

LEMMA ConnectingKeeps ==
    ASSUME NEW x, NEW md, Live(x, md), x.state = "CONNECTING", NEW t \in Turn
    PROVE  InTurn(x, Connecting(x, t), md)
  <1> DEFINE y == Sent(x, "conn", t)
             next == Change(y, "SUBSCRIBING")
  <1>1. InTurn(x, y, md) /\ (y.state = x.state => Live(y, md))
    BY SentKeeps DEF Sending, Phased
  <1> HIDE DEF y
  <1>2. CASE ~Waits(x, y)
    BY <1>1, <1>2 DEF Connecting, y
  <1>3. CASE Waits(x, y)
    <2>1. Live(y, md) /\ y.state = "CONNECTING"
      BY <1>1, <1>3 DEF Waits
    <2>2. ASSUME y.urc = "ok", y.result = "ok" PROVE InTurn(y, next, md)
      <3>1. md.client \in {"connected", "lost"} /\ ~y.pending
        BY <2>1, <2>2 DEF Live, Inv, Rules, InPhase, Commanding
      <3>2. QED  BY <2>1, <3>1, GoesOn DEF Sending
    <2> HIDE DEF next
    <2>3. InTurn(y, Await(y, t, next), md)
      BY <2>1, <2>2, AwaitKeeps DEF Sending
    <2>4. InTurn(x, Await(y, t, next), md)
      BY <1>1, <2>1, <2>3, InTurnTwice
    <2>5. QED  BY <1>3, <2>4 DEF Connecting, y, next
  <1>4. QED  BY <1>2, <1>3

(* The number of the next QMTSUB.                                          *)
LEMMA Numbered ==
    ASSUME NEW x, NEW md, Live(x, md), x.state = "SUBSCRIBING"
    PROVE  LET y == [x EXCEPT !.sid = @ + 1] IN
           InTurn(x, y, md) /\ Live(y, md) /\ y.state = x.state /\ y.sub = x.sub
  <1> DEFINE n == x.sid + 1
             y == [x EXCEPT !.sid = n]
  <1>1. x \in Record /\ Publishing(x) /\ Rules(x, md)
    BY DEF Live, Inv
  <1>2. n \in Nat
    BY <1>1 DEF Record
  <1> HIDE DEF n
  <1>3. y \in Record
    BY <1>1, <1>2 DEF Record
  <1>4. /\ SamePublish(x, y)
        /\ y.state = x.state /\ y.pending = x.pending /\ y.result = x.result
        /\ y.enabled = x.enabled /\ y.borrowed = x.borrowed /\ y.close = x.close
        /\ y.closing = x.closing /\ y.urc = x.urc /\ y.code = x.code
        /\ y.config = x.config /\ y.cmd = x.cmd /\ y.sub = x.sub
        /\ y.stage = x.stage /\ y.quarantined = x.quarantined /\ y.locked = x.locked
    BY <1>1 DEF Record, SamePublish
  <1> HIDE DEF y
  <1>5. Phased(y) = Phased(x)
    BY <1>4 DEF Phased
  <1>6. Rules(y, md)
    <2>1. Commanding(y)
      BY <1>1, <1>4, <1>5 DEF Rules, Commanding
    <2>2. InPhase(y, md)
      BY <1>1, <1>4 DEF Rules, InPhase, Rest
    <2>3. Lent(y, md)
      BY <1>1, <1>4 DEF Rules, Lent
    <2>4. QED  BY <2>1, <2>2, <2>3 DEF Rules
  <1>7. Publishing(y) /\ Moves(x, y)
    BY <1>1, <1>4, PublishKept
  <1>8. QED  BY <1>3, <1>4, <1>6, <1>7 DEF Live, InTurn, Turns, Inv, y, n

LEMMA NextTopic ==
    ASSUME NEW x, NEW md, Live(x, md), x.state = "SUBSCRIBING", x.result = "ok", x.sub # Subs
    PROVE  InTurn(x, [x EXCEPT !.sub = @ + 1, !.result = "none", !.urc = "none"], md)
  <1> USE MqttAssumption
  <1> DEFINE n == x.sub + 1
             y == [x EXCEPT !.sub = n, !.result = "none", !.urc = "none"]
  <1>1. x \in Record /\ Publishing(x) /\ Rules(x, md)
    BY DEF Live, Inv
  <1>2. n \in 0..Subs /\ "none" \in Verdict
    BY <1>1 DEF Record, Verdict
  <1> HIDE DEF n
  <1>3. y \in Record
    BY <1>1, <1>2 DEF Record
  <1>4. /\ SamePublish(x, y) /\ y.result = "none" /\ y.urc = "none"
        /\ y.state = x.state /\ y.pending = x.pending
        /\ y.enabled = x.enabled /\ y.borrowed = x.borrowed /\ y.close = x.close
        /\ y.closing = x.closing /\ y.code = x.code
        /\ y.config = x.config /\ y.cmd = x.cmd
        /\ y.stage = x.stage /\ y.quarantined = x.quarantined /\ y.locked = x.locked
    BY <1>1 DEF Record, SamePublish
  <1> HIDE DEF y
  <1>5. Phased(y) = Phased(x)
    BY <1>4 DEF Phased
  <1>6. Commanding(y)
    BY <1>1, <1>4, <1>5 DEF Rules, Commanding
  <1>7. InPhase(y, md)
    BY <1>1, <1>4 DEF Rules, InPhase, Rest
  <1>8. Lent(y, md)
    BY <1>1, <1>4 DEF Rules, Lent
  <1>9. Publishing(y) /\ Moves(x, y)
    BY <1>1, <1>4, PublishKept
  <1>10. QED  BY <1>3, <1>4, <1>6, <1>7, <1>8, <1>9 DEF InTurn, Turns, Inv, Rules, y, n

LEMMA SubscribingKeeps ==
    ASSUME NEW x, NEW md, Live(x, md), x.state = "SUBSCRIBING", NEW t \in Turn
    PROVE  InTurn(x, Subscribing(x, t), md)
  <1> DEFINE sent == Sent(x, "sub", t)
             y == IF Unsent(x) THEN [sent EXCEPT !.sid = @ + 1] ELSE sent
             next == [y EXCEPT !.sub = @ + 1, !.result = "none", !.urc = "none"]
  <1>1. CASE x.sub = Subs
    <2>1. Subscribing(x, t) = Change(x, "READY")
      BY <1>1 DEF Subscribing
    <2>2. md.client \in {"connected", "lost"} /\ ~x.pending
      BY <1>1 DEF Live, Inv, Rules, InPhase, Commanding
    <2>3. QED  BY <2>1, <2>2, GoesOn DEF Sending
  <1>2. CASE x.sub # Subs
    <2>1. InTurn(x, sent, md) /\ (sent.state = x.state => Live(sent, md) /\ sent.sub = x.sub)
      BY <1>2, SentKeeps DEF Sending, Phased
    <2> HIDE DEF sent
    <2>2. CASE ~Waits(x, sent)
      <3>1. Subscribing(x, t) = sent
        BY <1>2, <2>2 DEF Subscribing, Subscribed, sent
      <3>2. QED  BY <2>1, <3>1
    <2>3. CASE Waits(x, sent)
      <3>1. Live(sent, md) /\ sent.state = "SUBSCRIBING" /\ sent.sub = x.sub
        BY <2>1, <2>3 DEF Waits
      <3>2. InTurn(sent, y, md) /\ Live(y, md) /\ y.state = "SUBSCRIBING" /\ y.sub = x.sub
        BY <3>1, Numbered, Stays DEF Live
      <3>3. Subscribing(x, t) = Await(y, t, next)
        BY <1>2, <2>3 DEF Subscribing, Subscribed, sent
      <3> HIDE DEF y
      <3>4. y.result = "ok" => InTurn(y, next, md)
        BY <1>2, <3>2, NextTopic
      <3> HIDE DEF next
      <3>5. InTurn(y, Await(y, t, next), md)
        BY <3>2, <3>4, AwaitKeeps DEF Sending
      <3>6. InTurn(sent, Await(y, t, next), md)
        BY <3>2, <3>5, InTurnTwice
      <3>7. QED  BY <2>1, <3>1, <3>3, <3>6, InTurnTwice
    <2>4. QED  BY <2>2, <2>3
  <1>3. QED  BY <1>1, <1>2

LEMMA LiveBlocks ==
    ASSUME NEW x, NEW md, Inv(x, md)
    PROVE  InTurn(x, Blocked(x), md)
  BY Blocks DEF InTurn, Turns

(* QMTCLOSE after QMTDISC.                                                 *)
LEMMA ClosesNext ==
    ASSUME NEW x, NEW md, Live(x, md), x.state = "CLOSING", x.result # "none"
    PROVE  InTurn(x, [x EXCEPT !.result = "none", !.closing = 1], md)
  <1> DEFINE y == [x EXCEPT !.result = "none", !.closing = 1]
  <1>1. x \in Record /\ Publishing(x) /\ Rules(x, md)
    BY DEF Live, Inv
  <1>2. "none" \in Verdict /\ 1 \in 0..2
    BY DEF Verdict
  <1>3. y \in Record
    BY <1>1, <1>2 DEF Record
  <1>4. /\ SamePublish(x, y) /\ y.result = "none" /\ y.closing = 1
        /\ y.state = x.state /\ y.pending = x.pending
        /\ y.enabled = x.enabled /\ y.borrowed = x.borrowed /\ y.close = x.close
        /\ y.urc = x.urc /\ y.code = x.code /\ y.sub = x.sub
        /\ y.config = x.config /\ y.cmd = x.cmd
        /\ y.stage = x.stage /\ y.quarantined = x.quarantined /\ y.locked = x.locked
    BY <1>1 DEF Record, SamePublish
  <1> HIDE DEF y
  <1>5. ~x.pending /\ x.cmd = "none"
    BY <1>1 DEF Rules, Commanding
  <1>6. Commanding(y)
    BY <1>1, <1>4, <1>5 DEF Rules, Commanding
  <1>7. InPhase(y, md)
    BY <1>1, <1>4 DEF Rules, InPhase, Closes, Rest
  <1>8. Lent(y, md)
    BY <1>1, <1>4 DEF Rules, Lent
  <1>9. Publishing(y) /\ Moves(x, y)
    BY <1>1, <1>4, PublishKept
  <1>10. QED  BY <1>3, <1>4, <1>6, <1>7, <1>8, <1>9 DEF InTurn, Turns, Inv, Rules, y

LEMMA ClosingKeeps ==
    ASSUME NEW x, NEW md, Live(x, md), x.state = "CLOSING", NEW t \in Turn
    PROVE  InTurn(x, Closing(x, t), md)
  <1>1. t.late \in BOOLEAN /\ t.room \in BOOLEAN /\ Inv(x, md)
    BY DEF Turn, Live
  <1>2. InTurn(x, Blocked(x), md) /\ InTurn(x, x, md)
    BY <1>1, LiveBlocks, Stays
  <1>3. CASE Unsent(x) /\ ~Expired(x, t.late)
    <2> DEFINE cmd == IF x.closing = 0 THEN "disc" ELSE "close"
               y == Submit(x, cmd, t.room)
    <2>1. x.cmd = "none" /\ cmd \in Command /\ cmd # "none" /\ cmd = Phased(x)
      BY <1>1, <1>3 DEF Inv, Rules, Commanding, Unsent, Phased, Command
    <2>2. x.state \in State \ (Rest \cup {"RETRY_WAIT", "BLOCKED"})
      BY DEF State, Rest
    <2>3. Closing(x, t) = y
      BY <1>3 DEF Closing
    <2> HIDE DEF cmd
    <2>4. /\ Inv(y, md) /\ SamePublish(x, y)
          /\ y.quarantined = x.quarantined /\ y.locked = x.locked
          /\ y.close = x.close /\ y.enabled = x.enabled
      BY <1>1, <2>1, <2>2, Submits
    <2> HIDE DEF y
    <2>5. QED  BY <2>3, <2>4, PublishKept DEF InTurn, Turns
  <1>4. CASE Unsent(x) /\ Expired(x, t.late)
    BY <1>2, <1>4 DEF Closing
  <1>5. CASE ~Unsent(x) /\ (x.result = "none" \/ (x.result = "failed" /\ x.closing = 1))
    BY <1>2, <1>5 DEF Closing
  <1>6. CASE ~Unsent(x) /\ x.result # "none" /\ x.closing = 0
    <2>1. Closing(x, t) = [x EXCEPT !.result = "none", !.closing = 1]
      BY <1>6 DEF Closing
    <2>2. InTurn(x, [x EXCEPT !.result = "none", !.closing = 1], md)
      BY <1>6, ClosesNext
    <2>3. QED  BY <2>1, <2>2
  <1>7. CASE /\ ~Unsent(x) /\ x.result # "none" /\ x.closing # 0
             /\ ~(x.result = "failed" /\ x.closing = 1)
    <2> DEFINE y == Change(x, "RETRY_WAIT")
    <2>1. x \in Record /\ Publishing(x) /\ Rules(x, md)
      BY <1>1 DEF Inv
    <2>2. x.closing \in 0..2 /\ x.result \in Verdict
      BY <2>1 DEF Record
    <2>3. md.client = "closed"
      BY <1>7, <2>1, <2>2 DEF Rules, InPhase, Closes, Live, Verdict
    <2>4. x.cmd = "none" /\ (x.borrowed => ~x.enabled)
      BY <1>7, <2>1 DEF Rules, Commanding, Lent
    <2>5. Changed(x, y, "RETRY_WAIT")
      BY <2>1, Changes DEF State
    <2>6. Inv(y, md)
      BY <2>1, <2>3, <2>4, <2>5, RetryKeeps DEF Live
    <2>7. Closing(x, t) = y
      BY <1>7 DEF Closing
    <2>8. QED  BY <2>1, <2>5, <2>6, <2>7, ChangeTurns DEF InTurn
  <1>8. QED  BY <1>3, <1>4, <1>5, <1>6, <1>7

LEMMA WaitingKeeps ==
    ASSUME NEW x, NEW md, Live(x, md), x.state = "RETRY_WAIT", NEW t \in Turn,
           t.quiet => md.duty = {}
    PROVE  InTurn(x, Waiting(x, t), md)
  <1>1. x \in Record /\ Publishing(x) /\ Rules(x, md)
    BY DEF Live, Inv
  <1>2. CASE Waiting(x, t) = x
    BY <1>2, Stays DEF Live
  <1>3. ASSUME NEW state \in Rest \cup {"CONFIGURING"}, Waiting(x, t) = Change(x, state),
               t.quiet, x.cmd = "none", state = "CONFIGURING" => x.enabled
        PROVE  InTurn(x, Waiting(x, t), md)
    <2> DEFINE y == Change(x, state)
    <2>1. Changed(x, y, state)
      BY <1>1, Changes DEF State, Rest
    <2> HIDE DEF y
    <2>2. md.client = "closed" /\ md.duty = {}
      BY <1>1, <1>3 DEF Rules, InPhase
    <2>3. Commanding(y)
      BY <1>1, <1>3, <2>1 DEF Changed, Rules, Commanding, Rest, Live
    <2>4. InPhase(y, md)
      BY <1>3, <2>1, <2>2 DEF Changed, InPhase, Rest
    <2>5. Lent(y, md)
      BY <1>1, <1>3, <2>1 DEF Changed, Rules, Lent, Rest
    <2>6. QED
      BY <1>1, <1>3, <2>1, <2>3, <2>4, <2>5, ChangeTurns DEF InTurn, Inv, Rules, Changed, y
  <1>4. CASE Waiting(x, t) # x
    <2>1. t.quiet /\ x.cmd = "none"
      BY <1>4 DEF Waiting
    <2>2. \/ Waiting(x, t) = Change(x, "PAUSED") \/ Waiting(x, t) = Change(x, "IDLE")
          \/ x.enabled /\ Waiting(x, t) = Change(x, "CONFIGURING")
      BY <1>4, <2>1 DEF Waiting
    <2>3. QED  BY <1>3, <2>1, <2>2 DEF Rest
  <1>5. QED  BY <1>2, <1>4

LEMMA ReadyKeeps ==
    ASSUME NEW x, NEW md, Live(x, md), x.state = "READY", NEW t \in Turn
    PROVE  InTurn(x, Ready(x, t), md)
  <1>1. CASE ~(x.active /\ t.late)
    BY <1>1, Stays DEF Ready, Live
  <1>2. CASE x.active /\ t.late
    <2> DEFINE s == Settle(x, "failed")
               y == FailClosed(s)
    <2>1. x \in Record /\ Publishing(x) /\ Rules(x, md)
      BY DEF Live, Inv
    <2>2. Telling(x)
      BY <2>1, PublishingTells
    <2>3. /\ s \in Record /\ Publishing(s) /\ SameCore(x, s) /\ ~s.active
          /\ s.told = Append(x.told, "failed") /\ s.next = x.next
      BY <1>2, <2>1, <2>2, Settles
    <2> HIDE DEF s
    <2>4. Rules(s, md)
      BY <2>1, <2>3, CoreKept
    <2>5. Live(s, md) /\ s.state = "READY"
      BY <2>3, <2>4 DEF Live, Inv, SameCore
    <2>6. InTurn(s, y, md)
      BY <2>5, LiveFails
    <2>7. InTurn(x, s, md)
      BY <1>2, <2>3, <2>5 DEF InTurn, Turns, Moves, SameCore, Live
    <2>8. InTurn(x, y, md)
      BY <2>5, <2>6, <2>7, InTurnTwice
    <2>9. QED  BY <1>2, <2>8 DEF Ready, s
  <1>3. QED  BY <1>1, <1>2

LEMMA PhaseKeeps ==
    ASSUME NEW x, NEW md, Live(x, md), NEW t \in Turn, t.quiet => md.duty = {}
    PROVE  InTurn(x, Phase(x, t), md)
  <1>1. x.state \in State
    BY DEF Live, Inv, Record
  <1>2. CASE x.state = "READY"
    BY <1>2, ReadyKeeps DEF Phase
  <1>3. CASE x.state = "CONFIGURING"
    <2>1. Phase(x, t) = Configuring(x, t)
      BY <1>3 DEF Phase
    <2>2. QED  BY <1>3, <2>1, ConfiguringKeeps
  <1>4. CASE x.state = "OPENING"
    <2>1. Phase(x, t) = Opening(x, t)
      BY <1>4 DEF Phase
    <2>2. QED  BY <1>4, <2>1, OpeningKeeps
  <1>5. CASE x.state = "CONNECTING"
    <2>1. Phase(x, t) = Connecting(x, t)
      BY <1>5 DEF Phase
    <2>2. QED  BY <1>5, <2>1, ConnectingKeeps
  <1>6. CASE x.state = "SUBSCRIBING"
    <2>1. Phase(x, t) = Subscribing(x, t)
      BY <1>6 DEF Phase
    <2>2. QED  BY <1>6, <2>1, SubscribingKeeps
  <1>7. CASE x.state = "CLOSING"
    <2>1. Phase(x, t) = Closing(x, t)
      BY <1>7 DEF Phase
    <2>2. QED  BY <1>7, <2>1, ClosingKeeps
  <1>8. CASE x.state = "RETRY_WAIT"
    <2>1. Phase(x, t) = Waiting(x, t)
      BY <1>8 DEF Phase
    <2>2. QED  BY <1>8, <2>1, WaitingKeeps
  <1>9. CASE x.state \in Rest \cup {"BLOCKED"}
    <2>1. Phase(x, t) = x
      BY <1>9 DEF Phase, Rest
    <2>2. QED  BY <2>1, Stays DEF Live
  <1>10. QED
    BY <1>1, <1>2, <1>3, <1>4, <1>5, <1>6, <1>7, <1>8, <1>9 DEF State

(* A close is requested, or the request is served.                         *)
LEMMA CloseSet ==
    ASSUME NEW x, NEW md, Inv(x, md), NEW c \in BOOLEAN,
           c /\ x.state \in Rest \cup {"CLOSING", "RETRY_WAIT", "OPENING"} => ~x.enabled
    PROVE  LET y == [x EXCEPT !.close = c] IN
           /\ Inv(y, md) /\ SamePublish(x, y) /\ y.close = c
           /\ y.state = x.state /\ y.enabled = x.enabled /\ y.borrowed = x.borrowed
           /\ y.quarantined = x.quarantined /\ y.locked = x.locked /\ y.pending = x.pending
  <1> DEFINE y == [x EXCEPT !.close = c]
  <1>1. x \in Record /\ Publishing(x) /\ Rules(x, md)
    BY DEF Inv
  <1>2. y \in Record
    BY <1>1 DEF Record
  <1>3. /\ SamePublish(x, y) /\ y.close = c
        /\ y.state = x.state /\ y.enabled = x.enabled /\ y.borrowed = x.borrowed
        /\ y.closing = x.closing /\ y.pending = x.pending
        /\ y.result = x.result /\ y.urc = x.urc /\ y.code = x.code /\ y.sub = x.sub
        /\ y.config = x.config /\ y.cmd = x.cmd /\ y.stage = x.stage
        /\ y.quarantined = x.quarantined /\ y.locked = x.locked
    BY <1>1 DEF Record, SamePublish
  <1> HIDE DEF y
  <1>4. Phased(y) = Phased(x) /\ (Unsent(y) <=> Unsent(x))
    BY <1>3 DEF Phased, Unsent
  <1>5. Commanding(y)
    BY <1>1, <1>3, <1>4 DEF Rules, Commanding
  <1>6. InPhase(y, md)
    BY <1>1, <1>3, <1>4 DEF Rules, InPhase, Opens, Closes
  <1>7. Lent(y, md)
    BY <1>1, <1>3 DEF Rules, Lent
  <1>8. Publishing(y)
    BY <1>1, <1>3, PublishKept
  <1>9. QED  BY <1>2, <1>3, <1>5, <1>6, <1>7, <1>8 DEF Inv, Rules, y

(* The turn after an open in flight is resolved.                           *)
Going(y, t) ==
    IF y.close /\ y.state = "OPENING" THEN y
    ELSE IF y.close /\ y.state \notin {"CLOSING", "RETRY_WAIT"}
    THEN IF y.pending THEN y ELSE FailClosed([y EXCEPT !.close = FALSE])
    ELSE Phase(y, t)

LEMMA GoingKeeps ==
    ASSUME NEW y, NEW md, Inv(y, md), NEW t \in Turn, t.quiet => md.duty = {},
           \/ y.state = "BLOCKED" /\ y.quarantined /\ y.close
           \/ ~y.quarantined /\ ~y.locked
    PROVE  LET z == Going(y, t) IN Inv(z, md) /\ Moves(y, z)
  <1>1. CASE Going(y, t) = y
    BY <1>1 DEF Moves
  <1>2. CASE /\ y.close /\ y.state \notin {"OPENING", "CLOSING", "RETRY_WAIT"}
             /\ Going(y, t) = FailClosed([y EXCEPT !.close = FALSE])
    <2> DEFINE d == [y EXCEPT !.close = FALSE]
    <2>1. /\ Inv(d, md) /\ SamePublish(y, d) /\ ~d.close
          /\ d.state = y.state /\ d.enabled = y.enabled /\ d.borrowed = y.borrowed
          /\ d.quarantined = y.quarantined /\ d.locked = y.locked /\ d.pending = y.pending
      BY CloseSet
    <2>2. y.borrowed /\ ~y.quarantined => ~y.enabled
      BY <1>2 DEF Inv, Rules, Commanding, Lent
    <2>3. y.state = "BLOCKED" => y.quarantined
      BY DEF Inv, Rules, Commanding
    <2> HIDE DEF d
    <2>4. Inv(FailClosed(d), md) /\ Moves(d, FailClosed(d))
      BY <2>1, <2>2, <2>3, FailsClosed DEF Turns
    <2>5. Moves(y, FailClosed(d))
      BY <2>1, <2>4, MovesTwice, PublishKept
    <2>6. QED  BY <1>2, <2>4, <2>5 DEF d
  <1>3. CASE Going(y, t) = Phase(y, t) /\ ~(y.close /\ y.state \notin {"CLOSING", "RETRY_WAIT"})
    <2>1. ~y.quarantined /\ ~y.locked
      BY <1>3
    <2>2. Live(y, md)
      BY <1>3, <2>1 DEF Live, Inv, Rules, Commanding
    <2>3. QED  BY <1>3, <2>2, PhaseKeeps DEF InTurn, Turns
  <1>4. QED  BY <1>1, <1>2, <1>3 DEF Going

LEMMA PolledKeeps ==
    ASSUME NEW x, NEW md, Inv(x, md), NEW t \in Turn, t.quiet => md.duty = {}
    PROVE  LET z == Polled(x, t) IN Inv(z, md) /\ Moves(x, z)
  <1> DEFINE y == Resolved(x, t)
             o == Opening(x, t)
  <1>1. x \in Record /\ Publishing(x) /\ Rules(x, md)
    BY DEF Inv
  <1>2. CASE x.quarantined \/ x.locked
    <2> DEFINE f == FailPublish(x)
               b == Change(f, "BLOCKED")
    <2>1. f \in Record /\ Publishing(f) /\ SameCore(x, f) /\ Moves(x, f)
      BY <1>1, PublishFails, PublishingTells
    <2>2. Polled(x, t) = IF x.state = "BLOCKED" THEN f ELSE b
      BY <1>2 DEF Polled
    <2> HIDE DEF f
    <2>3. Rules(f, md)
      BY <1>1, <2>1, CoreKept
    <2>4. Changed(f, b, "BLOCKED")
      BY <2>1, Changes DEF State
    <2> HIDE DEF b
    <2>5. Inv(b, md)
      BY <1>2, <2>1, <2>3, <2>4, BlockedKeeps DEF SameCore
    <2>6. Moves(x, b)
      BY <2>1, <2>4, PublishKept, MovesTwice DEF Changed
    <2>7. QED  BY <2>1, <2>2, <2>3, <2>5, <2>6 DEF Inv
  <1>3. CASE ~x.quarantined /\ ~x.locked
    <2>1. Polled(x, t) = Going(y, t)
      BY <1>3 DEF Polled, Going
    <2>2. CASE ~(x.close /\ x.state = "OPENING")
      <3>1. y = x
        BY <2>2 DEF Resolved
      <3>2. QED  BY <1>3, <2>1, <3>1, GoingKeeps
    <2>3. CASE x.close /\ x.state = "OPENING"
      <3>1. Live(x, md)
        BY <1>1, <1>3, <2>3 DEF Live, Rules, Commanding
      <3>2. InTurn(x, o, md)
        BY <2>3, <3>1, OpeningKeeps
      <3>3. y = IF o.state = "RETRY_WAIT" THEN [o EXCEPT !.close = FALSE] ELSE o
        BY <2>3 DEF Resolved
      <3> HIDE DEF o
      <3>4. CASE o.state = "RETRY_WAIT"
        <4> HIDE DEF y
        <4>a. Inv(o, md) /\ o.state # "BLOCKED" /\ Turns(x, o)
          BY <3>2, <3>4 DEF InTurn
        <4>b. ~o.quarantined /\ ~o.locked
          BY <1>3, <4>a DEF Turns
        <4>c. y = [o EXCEPT !.close = FALSE]
          BY <3>3, <3>4
        <4>1. Inv(y, md) /\ SamePublish(o, y) /\ ~y.quarantined /\ ~y.locked
          BY <3>4, <4>a, <4>b, <4>c, CloseSet
        <4>2. Inv(Going(y, t), md) /\ Moves(y, Going(y, t))
          BY <4>1, GoingKeeps
        <4>3. Moves(o, y) /\ Moves(x, o)
          BY <3>2, <4>1, PublishKept DEF InTurn, Turns
        <4>4. Moves(x, Going(y, t))
          BY <4>2, <4>3, MovesTwice
        <4>5. QED  BY <2>1, <4>2, <4>4
      <3>5. CASE o.state # "RETRY_WAIT" /\ o.state # "BLOCKED"
        <4>1. y = o /\ Inv(o, md) /\ Moves(x, o) /\ ~o.quarantined /\ ~o.locked
          BY <1>3, <3>2, <3>3, <3>5 DEF InTurn, Turns
        <4> HIDE DEF y
        <4>2. Inv(Going(y, t), md) /\ Moves(y, Going(y, t))
          BY <4>1, GoingKeeps
        <4>3. QED  BY <2>1, <4>1, <4>2, MovesTwice
      <3>6. CASE o.state = "BLOCKED"
        <4>1. y = o /\ Inv(o, md) /\ Moves(x, o)
          BY <3>2, <3>3, <3>6 DEF InTurn, Turns
        <4>2. CASE o.quarantined /\ o.close
          <5>1. Inv(Going(o, t), md) /\ Moves(o, Going(o, t))
            BY <3>6, <4>1, <4>2, GoingKeeps
          <5>2. QED  BY <2>1, <4>1, <5>1, MovesTwice
        <4>3. CASE ~o.close
          <5>1. Going(o, t) = o
            BY <3>6, <4>3 DEF Going, Phase
          <5>2. QED  BY <2>1, <4>1, <5>1
        <4>4. CASE o.close /\ ~o.quarantined
          BY <1>3, <3>2, <3>6, <4>4 DEF InTurn, Turns, Inv, Rules, Commanding
        <4>5. QED  BY <4>1, <4>2, <4>3, <4>4 DEF Inv, Record
      <3>7. QED  BY <3>4, <3>5, <3>6
    <2>4. QED  BY <2>2, <2>3
  <1>4. QED  BY <1>2, <1>3 DEF Inv, Record

-----------------------------------------------------------------------------
(* The flags that the calls and the AT client set.                         *)
SamePhase(x, y) ==
    /\ y.state = x.state /\ y.pending = x.pending /\ y.result = x.result
    /\ y.urc = x.urc /\ y.code = x.code /\ y.closing = x.closing /\ y.sub = x.sub
    /\ y.config = x.config /\ y.cmd = x.cmd /\ y.stage = x.stage

LEMMA FlagsKept ==
    ASSUME NEW x, NEW y, NEW md, Inv(x, md), y \in Record, SamePublish(x, y), SamePhase(x, y),
           x.quarantined => y.quarantined,
           y.locked => x.locked,
           x.state = "BLOCKED" /\ x.locked => x.quarantined \/ y.locked,
           y.borrowed => x.borrowed,
           y.enabled => x.enabled,
           y.close = x.close
    PROVE  Inv(y, md)
  <1>1. Publishing(x) /\ Rules(x, md)
    BY DEF Inv
  <1>2. Phased(y) = Phased(x) /\ (Unsent(y) <=> Unsent(x))
    BY DEF SamePhase, Phased, Unsent
  <1>3. Commanding(y)
    BY <1>1, <1>2 DEF SamePhase, Rules, Commanding
  <1>4. InPhase(y, md)
    BY <1>1, <1>2 DEF SamePhase, Rules, InPhase, Opens, Closes
  <1>5. Lent(y, md)
    BY <1>1 DEF SamePhase, Rules, Lent
  <1>6. Publishing(y)
    BY <1>1, PublishKept
  <1>7. QED  BY <1>3, <1>4, <1>5, <1>6 DEF Inv, Rules

(* What one step may report.                                               *)
Confirms ==
    /\ m.active /\ m.prompt /\ m'.next = m.next /\ m'.told = Append(m.told, "confirmed")
    /\ m.msg # 0 => <<"pub", m.msg, m.msg>> \in modem.duty \ modem'.duty

Reports ==
    \/ Moves(m, m')
    \/ ~m.active /\ m'.next = m.next + 1 /\ m.next < MaxOps /\ m'.told = <<>>
    \/ m.active /\ m.told = <<>> /\ m'.told = <<"submitted">> /\ m'.next = m.next
    \/ Confirms

(* A call or the AT client: the modem says nothing.                        *)
Calling(x) == Inv(x, modem) /\ Moves(m, x)

LEMMA CallKeeps ==
    ASSUME IInv, NEW x, Call(x), Calling(x)
    PROVE  IInv' /\ Reports
  <1>1. m' = x /\ modem' = modem
    BY DEF Call
  <1>2. Inv(m, modem)'
    BY <1>1 DEF Calling
  <1>3. QED  BY <1>1, <1>2 DEF IInv, Calling, Reports, Owned

LEMMA PollStep ==
    ASSUME IInv, Poll
    PROVE  IInv' /\ Reports
  <1>1. PICK t \in Turn : /\ t.quiet => modem.duty = {}
                          /\ Call(Polled(m, t))
    BY DEF Poll, Call
  <1>2. Calling(Polled(m, t))
    BY <1>1, PolledKeeps DEF IInv, Calling
  <1>3. QED  BY <1>1, <1>2, CallKeeps

LEMMA StartKeeps ==
    ASSUME NEW x, NEW md, Inv(x, md), x.state \in Rest
    PROVE  Inv(Start(x), md) /\ Moves(x, Start(x))
  <1> DEFINE e == [x EXCEPT !.enabled = TRUE]
             y == Change(e, "CONFIGURING")
  <1>1. x \in Record /\ Publishing(x) /\ Rules(x, md)
    BY DEF Inv
  <1>2. CASE Start(x) = x
    BY <1>2 DEF Moves
  <1>3. CASE Start(x) = y /\ ~x.borrowed
    <2>1. e \in Record
      BY <1>1 DEF Record
    <2>2. /\ SamePublish(x, e) /\ e.borrowed = x.borrowed /\ e.cmd = x.cmd /\ e.stage = x.stage
      BY <1>1 DEF Record, SamePublish
    <2> HIDE DEF e
    <2>3. Changed(e, y, "CONFIGURING")
      BY <2>1, Changes DEF State
    <2> HIDE DEF y
    <2>4. x.cmd = "none" /\ x.stage = "none" /\ md.client = "closed" /\ md.duty = {}
      BY <1>1 DEF Rules, Commanding, InPhase, Rest
    <2>5. Commanding(y)
      BY <2>2, <2>3, <2>4 DEF Changed, Commanding, Rest
    <2>6. InPhase(y, md)
      BY <2>3, <2>4 DEF Changed, InPhase, Rest
    <2>7. Lent(y, md)
      BY <1>3, <2>2, <2>3 DEF Changed, Lent
    <2>8. SamePublish(x, y)
      BY <2>2, <2>3 DEF Changed, SamePublish
    <2>9. Publishing(y) /\ Moves(x, y)
      BY <1>1, <2>8, PublishKept
    <2>10. QED  BY <1>3, <2>3, <2>5, <2>6, <2>7, <2>9 DEF Inv, Rules, Changed
  <1>4. QED  BY <1>2, <1>3 DEF Start

LEMMA SetPausedStep ==
    ASSUME IInv, NEW paused \in BOOLEAN, SetPaused(paused)
    PROVE  IInv' /\ Reports
  <1> DEFINE x == [m EXCEPT !.paused = paused]
             u == [x EXCEPT !.locked = FALSE, !.paused = FALSE]
             y == IF paused \/ ~x.security THEN x
                  ELSE CASE x.state = "PAUSED" -> Resume(x)
                         [] x.state = "IDLE" -> Start(x)
                         [] OTHER -> x
  <1>1. m \in Record /\ Inv(m, modem)
    BY DEF IInv, Inv
  <1>2. x \in Record
    BY <1>1 DEF Record
  <1>3. /\ SamePublish(m, x) /\ SamePhase(m, x) /\ x.locked = m.locked /\ x.borrowed = m.borrowed
        /\ x.enabled = m.enabled /\ x.close = m.close /\ x.quarantined = m.quarantined
    BY <1>1 DEF Record, SamePublish, SamePhase
  <1>4. Call(y)
    BY DEF SetPaused
  <1>5. Resume(x) = IF x.borrowed THEN x ELSE Start(u)
    BY DEF Resume
  <1> HIDE DEF x
  <1>6. Inv(x, modem) /\ Moves(m, x)
    BY <1>1, <1>2, <1>3, FlagsKept, PublishKept
  <1>7. u \in Record
    BY <1>2 DEF Record
  <1>8. /\ SamePublish(x, u) /\ SamePhase(x, u) /\ ~u.locked /\ u.borrowed = x.borrowed
        /\ u.enabled = x.enabled /\ u.close = x.close /\ u.quarantined = x.quarantined
    BY <1>2 DEF Record, SamePublish, SamePhase
  <1> HIDE DEF u
  <1>9. CASE x.state = "PAUSED" /\ y = Start(u)
    <2>1. Inv(u, modem) /\ Moves(x, u)
      BY <1>6, <1>7, <1>8, <1>9, FlagsKept, PublishKept
    <2>2. u.state \in Rest
      BY <1>8, <1>9 DEF SamePhase, Rest
    <2>3. Inv(Start(u), modem) /\ Moves(u, Start(u))
      BY <2>1, <2>2, StartKeeps
    <2>4. Moves(m, Start(u))
      BY <1>6, <2>1, <2>3, MovesTwice
    <2>5. Calling(Start(u)) /\ Call(Start(u))
      BY <1>4, <1>9, <2>3, <2>4 DEF Calling
    <2>6. QED  BY <2>5, CallKeeps
  <1>10. CASE x.state = "IDLE" /\ y = Start(x)
    <2>1. Inv(Start(x), modem) /\ Moves(x, Start(x))
      BY <1>6, <1>10, StartKeeps DEF Rest
    <2>2. Calling(Start(x)) /\ Call(Start(x))
      BY <1>4, <1>6, <1>10, <2>1, MovesTwice DEF Calling
    <2>3. QED  BY <2>2, CallKeeps
  <1>11. CASE y = x
    <2>1. Calling(x) /\ Call(x)
      BY <1>4, <1>6, <1>11 DEF Calling
    <2>2. QED  BY <2>1, CallKeeps
  <1>12. QED
    <2>1. \/ y = x
          \/ x.state = "PAUSED" /\ y = Resume(x)
          \/ x.state = "IDLE" /\ y = Start(x)
      OBVIOUS
    <2>2. QED  BY <1>5, <1>9, <1>10, <1>11, <2>1

LEMMA SetSecurityReadyStep ==
    ASSUME IInv, NEW ready \in BOOLEAN, SetSecurityReady(ready)
    PROVE  IInv' /\ Reports
  <1> DEFINE x == [m EXCEPT !.security = ready]
             f == FailPublish(x)
  <1>1. m \in Record /\ Inv(m, modem)
    BY DEF IInv, Inv
  <1>2. x \in Record
    BY <1>1 DEF Record
  <1>3. /\ SamePublish(m, x) /\ SamePhase(m, x) /\ x.locked = m.locked /\ x.borrowed = m.borrowed
        /\ x.enabled = m.enabled /\ x.close = m.close /\ x.quarantined = m.quarantined
    BY <1>1 DEF Record, SamePublish, SamePhase
  <1>4. Call(x) \/ Call(f)
    BY DEF SetSecurityReady
  <1> HIDE DEF x
  <1>5. Inv(x, modem) /\ Moves(m, x)
    BY <1>1, <1>2, <1>3, FlagsKept, PublishKept
  <1>6. f \in Record /\ Publishing(f) /\ SameCore(x, f) /\ Moves(x, f)
    BY <1>5, PublishFails, PublishingTells DEF Inv
  <1> HIDE DEF f
  <1>7. Rules(f, modem)
    BY <1>5, <1>6, CoreKept DEF Inv
  <1>8. Calling(x) /\ Calling(f)
    BY <1>5, <1>6, <1>7, MovesTwice DEF Calling, Inv
  <1>9. QED  BY <1>4, <1>8, CallKeeps

LEMMA StoppedKeeps ==
    ASSUME NEW x, NEW md, Inv(x, md)
    PROVE  Inv(Stopped(x), md) /\ Moves(x, Stopped(x))
  <1> DEFINE y == [x EXCEPT !.enabled = FALSE]
             c == [y EXCEPT !.close = TRUE]
             r == Change(y, "RETRY_WAIT")
             z == Stopped(x)
  <1>1. x \in Record /\ Publishing(x) /\ Rules(x, md)
    BY DEF Inv
  <1>2. y \in Record
    BY <1>1 DEF Record
  <1>3. /\ SamePublish(x, y) /\ SamePhase(x, y) /\ y.locked = x.locked /\ y.borrowed = x.borrowed
        /\ ~y.enabled /\ y.close = x.close /\ y.quarantined = x.quarantined
    BY <1>1 DEF Record, SamePublish, SamePhase
  <1>4. \/ z = x \/ z = y
        \/ x.state = "OPENING" /\ Unsent(x) /\ z = r
        \/ z = c
        \/ x.state # "BLOCKED" /\ z = FailClosed(y)
    BY DEF Stopped
  <1> HIDE DEF y
  <1>5. Inv(y, md) /\ Moves(x, y)
    BY <1>1, <1>2, <1>3, FlagsKept, PublishKept
  <1>6. CASE z = x \/ z = y
    BY <1>5, <1>6 DEF Moves
  <1>7. CASE x.state = "OPENING" /\ Unsent(x) /\ z = r
    <2>1. Changed(y, r, "RETRY_WAIT")
      BY <1>2, Changes DEF State
    <2> HIDE DEF r
    <2>2. y.cmd = "none" /\ md.client = "closed"
      BY <1>1, <1>3, <1>7 DEF Rules, Commanding, Unsent, InPhase, Opens, SamePhase
    <2>3. Inv(r, md)
      BY <1>3, <1>5, <2>1, <2>2, RetryKeeps DEF Inv
    <2>4. Moves(x, r)
      BY <1>5, <2>1, PublishKept, MovesTwice DEF Changed
    <2>5. QED  BY <1>7, <2>3, <2>4
  <1>8. CASE z = c
    <2>1. Inv(c, md) /\ SamePublish(y, c)
      BY <1>3, <1>5, CloseSet
    <2>2. Moves(x, c)
      BY <1>5, <2>1, PublishKept, MovesTwice
    <2>3. QED  BY <1>8, <2>1, <2>2
  <1>9. CASE x.state # "BLOCKED" /\ z = FailClosed(y)
    <2>1. Inv(FailClosed(y), md) /\ Moves(y, FailClosed(y))
      BY <1>3, <1>5, <1>9, FailsClosed DEF Turns, SamePhase
    <2>2. QED  BY <1>5, <1>9, <2>1, MovesTwice
  <1>10. QED  BY <1>4, <1>6, <1>7, <1>8, <1>9

LEMMA StopStep ==
    ASSUME IInv, Stop
    PROVE  IInv' /\ Reports
  <1>1. Calling(Stopped(m)) /\ Call(Stopped(m))
    BY StoppedKeeps DEF Stop, IInv, Calling
  <1>2. QED  BY <1>1, CallKeeps

LEMMA PauseStep ==
    ASSUME IInv, Pause
    PROVE  IInv' /\ Reports
  <1> DEFINE p == [m EXCEPT !.paused = TRUE]
             x == Stopped(p)
             y == Change(x, "PAUSED")
  <1>1. m \in Record /\ Inv(m, modem)
    BY DEF IInv, Inv
  <1>2. p \in Record
    BY <1>1 DEF Record
  <1>3. /\ SamePublish(m, p) /\ SamePhase(m, p) /\ p.locked = m.locked /\ p.borrowed = m.borrowed
        /\ p.enabled = m.enabled /\ p.close = m.close /\ p.quarantined = m.quarantined
    BY <1>1 DEF Record, SamePublish, SamePhase
  <1>4. Call(IF x.state = "IDLE" THEN y ELSE x)
    BY DEF Pause
  <1> HIDE DEF p
  <1>5. Inv(p, modem) /\ Moves(m, p)
    BY <1>1, <1>2, <1>3, FlagsKept, PublishKept
  <1>6. Inv(x, modem) /\ Moves(m, x)
    BY <1>5, StoppedKeeps, MovesTwice
  <1> HIDE DEF x
  <1>7. CASE x.state # "IDLE"
    <2>1. Calling(x) /\ Call(x)
      BY <1>4, <1>6, <1>7 DEF Calling
    <2>2. QED  BY <2>1, CallKeeps
  <1>8. CASE x.state = "IDLE"
    <2>1. Publishing(x) /\ Rules(x, modem) /\ x \in Record
      BY <1>6 DEF Inv
    <2>2. Changed(x, y, "PAUSED")
      BY <2>1, Changes DEF State, Rest
    <2>3. Call(y)
      BY <1>4, <1>8
    <2> HIDE DEF y
    <2>4. Commanding(y)
      BY <1>8, <2>1, <2>2 DEF Changed, Rules, Commanding, Rest
    <2>5. InPhase(y, modem)
      BY <1>8, <2>1, <2>2 DEF Changed, Rules, InPhase, Rest
    <2>6. Lent(y, modem)
      BY <1>8, <2>1, <2>2 DEF Changed, Rules, Lent, Rest
    <2>7. Publishing(y) /\ Moves(x, y)
      BY <2>1, <2>2, PublishKept DEF Changed
    <2>8. Calling(y)
      BY <1>6, <2>2, <2>4, <2>5, <2>6, <2>7, MovesTwice DEF Calling, Inv, Rules, Changed
    <2>9. QED  BY <2>3, <2>8, CallKeeps
  <1>9. QED  BY <1>7, <1>8

(* A record that differs in nothing its rules speak of, or in flags that   *)
(* the rules of a transport at rest leave open.                            *)
LEMMA RestKept ==
    ASSUME NEW x, NEW y, NEW md, Inv(x, md), x.state \in Rest, x.cmd = "none",
           y \in Record, SamePublish(x, y),
           y.state = x.state, y.pending = x.pending, y.result = x.result,
           y.cmd = x.cmd, y.stage = x.stage, y.enabled = x.enabled, y.close = x.close,
           ~y.locked
    PROVE  Inv(y, md)
  <1>1. Publishing(x) /\ Rules(x, md)
    BY DEF Inv
  <1>2. Commanding(y)
    BY <1>1 DEF Rules, Commanding, Rest
  <1>3. InPhase(y, md)
    BY <1>1 DEF Rules, InPhase, Rest
  <1>4. Lent(y, md)
    BY <1>1 DEF Rules, InPhase, Lent, Rest
  <1>5. QED  BY <1>1, <1>2, <1>3, <1>4, PublishKept DEF Inv, Rules

LEMMA ConfigureStep ==
    ASSUME IInv, NEW config \in Config, Configure(config)
    PROVE  IInv' /\ Reports
  <1> DEFINE y == [m EXCEPT !.config = config, !.locked = FALSE]
  <1>1. m \in Record /\ Inv(m, modem)
    BY DEF IInv, Inv
  <1>2. y \in Record
    BY <1>1 DEF Record
  <1>3. /\ SamePublish(m, y) /\ y.state = m.state /\ y.pending = m.pending
        /\ y.result = m.result /\ y.cmd = m.cmd /\ y.stage = m.stage
        /\ y.enabled = m.enabled /\ y.close = m.close /\ ~y.locked
    BY <1>1 DEF Record, SamePublish
  <1>4. Call(y) /\ m.state \in Rest /\ m.cmd = "none"
    BY DEF Configure
  <1> HIDE DEF y
  <1>5. Calling(y)
    BY <1>1, <1>2, <1>3, <1>4, RestKept, PublishKept DEF Calling
  <1>6. QED  BY <1>4, <1>5, CallKeeps

LEMMA BorrowWorkspaceStep ==
    ASSUME IInv, BorrowWorkspace
    PROVE  IInv' /\ Reports
  <1> DEFINE y == [m EXCEPT !.borrowed = TRUE]
  <1>1. m \in Record /\ Inv(m, modem)
    BY DEF IInv, Inv
  <1>2. y \in Record
    BY <1>1 DEF Record
  <1>3. /\ SamePublish(m, y) /\ y.state = m.state /\ y.pending = m.pending
        /\ y.result = m.result /\ y.cmd = m.cmd /\ y.stage = m.stage
        /\ y.enabled = m.enabled /\ y.close = m.close /\ y.locked = m.locked
    BY <1>1 DEF Record, SamePublish
  <1>4. Call(y) /\ m.state \in Rest /\ m.cmd = "none"
    BY DEF BorrowWorkspace, Rest
  <1>5. ~m.locked
    BY <1>1, <1>4 DEF Inv, Rules, Commanding
  <1> HIDE DEF y
  <1>6. Calling(y)
    BY <1>1, <1>2, <1>3, <1>4, <1>5, RestKept, PublishKept DEF Calling
  <1>7. QED  BY <1>4, <1>6, CallKeeps

LEMMA ReturnWorkspaceStep ==
    ASSUME IInv, ReturnWorkspace
    PROVE  IInv' /\ Reports
  <1> DEFINE y == [m EXCEPT !.borrowed = FALSE, !.locked = FALSE]
  <1>1. m \in Record /\ Inv(m, modem) /\ m.borrowed
    BY DEF IInv, Inv, ReturnWorkspace
  <1>2. y \in Record
    BY <1>1 DEF Record
  <1>3. /\ SamePublish(m, y) /\ SamePhase(m, y) /\ ~y.locked /\ ~y.borrowed
        /\ y.enabled = m.enabled /\ y.close = m.close /\ y.quarantined = m.quarantined
    BY <1>1 DEF Record, SamePublish, SamePhase
  <1>4. Call(y) /\ ~m.locked
    BY <1>1 DEF ReturnWorkspace, Inv, Rules, Lent
  <1> HIDE DEF y
  <1>5. Calling(y)
    BY <1>1, <1>2, <1>3, <1>4, FlagsKept, PublishKept DEF Calling
  <1>6. QED  BY <1>4, <1>5, CallKeeps

LEMMA PublishStep ==
    ASSUME IInv, NEW qos \in 0..1, Publish(qos)
    PROVE  IInv' /\ Reports
  <1> USE MqttAssumption
  <1> DEFINE x == Submit(m, "pub", TRUE)
             n == x.next + 1
             i == IF qos = 1 THEN x.next + 1 ELSE 0
             u == [x EXCEPT !.next = n, !.op = n]
             v == [u EXCEPT !.active = TRUE]
             w == [v EXCEPT !.told = <<>>]
             y == [w EXCEPT !.msg = i]
  <1>1. /\ m \in Record /\ Inv(m, modem) /\ Publishing(m)
        /\ m.state = "READY" /\ ~m.active /\ m.cmd = "none" /\ m.next < MaxOps
    BY DEF IInv, Inv, Publish
  <1>2. m.state \in State \ (Rest \cup {"RETRY_WAIT", "BLOCKED"})
    BY <1>1 DEF State, Rest
  <1>3. "pub" \in Command /\ Phased(m) = "pub"
    BY <1>1 DEF Command, Phased
  <1>4. Inv(x, modem) /\ SamePublish(m, x)
    BY <1>1, <1>2, <1>3, Submits
  <1>5. Call(y)
    BY DEF Publish
  <1> HIDE DEF x
  <1>6. x \in Record /\ ~x.active /\ ~x.prompt /\ x.next = m.next
    BY <1>1, <1>4 DEF Inv, SamePublish, Publishing
  <1>a. x.next \in 0..MaxOps /\ x.next < MaxOps
    BY <1>1, <1>6 DEF Record
  <1>7. n \in 0..MaxOps /\ n > 0 /\ i \in {0, n} /\ i \in 0..MaxOps /\ n = m.next + 1
    BY <1>6, <1>a
  <1> HIDE DEF n, i
  <1>b. u \in Record
    BY <1>6, <1>7 DEF Record
  <1>c. u.next = n /\ u.op = n /\ ~u.prompt /\ SameCore(x, u)
    BY <1>6 DEF Record, SameCore
  <1> HIDE DEF u
  <1>8. v \in Record
    BY <1>b DEF Record
  <1>9. /\ v.next = n /\ v.op = n /\ v.active /\ ~v.prompt
        /\ SameCore(x, v)
    BY <1>b, <1>c DEF Record, SameCore
  <1> HIDE DEF v
  <1>10. <<>> \in Seq(Event)
    OBVIOUS
  <1>d. w \in Record
    BY <1>8, <1>10 DEF Record, Event
  <1>e. w.next = n /\ w.op = n /\ w.active /\ ~w.prompt /\ w.told = <<>> /\ SameCore(v, w)
    BY <1>8, <1>9 DEF Record, SameCore
  <1> HIDE DEF w
  <1>11. y \in Record
    BY <1>7, <1>d DEF Record
  <1>12. /\ y.next = n /\ y.op = n /\ y.active /\ ~y.prompt /\ y.told = <<>> /\ y.msg = i
         /\ SameCore(v, y)
    BY <1>d, <1>e DEF Record, SameCore
  <1> HIDE DEF y
  <1>13. Publishing(y)
    BY <1>7, <1>12 DEF Publishing
  <1>14. Rules(y, modem)
    BY <1>4, <1>9, <1>12, CoreKept DEF Inv
  <1>15. m' = y /\ modem' = modem
    BY <1>5 DEF Call
  <1>16. Reports
    BY <1>1, <1>7, <1>12, <1>15 DEF Reports
  <1>17. Inv(m, modem)'
    BY <1>11, <1>13, <1>14, <1>15 DEF Inv
  <1>18. QED  BY <1>15, <1>16, <1>17 DEF IInv, Owned

LEMMA CancelPublishStep ==
    ASSUME IInv, CancelPublish
    PROVE  IInv' /\ Reports
  <1> DEFINE x == Settle(m, "failed")
             y == [x EXCEPT !.cmd = "none", !.stage = "none"]
  <1>1. /\ m \in Record /\ Inv(m, modem) /\ Publishing(m) /\ Rules(m, modem) /\ m.active
    BY DEF IInv, Inv, CancelPublish
  <1>2. /\ x \in Record /\ Publishing(x) /\ SameCore(m, x) /\ ~x.active
        /\ x.told = Append(m.told, "failed") /\ x.next = m.next
    BY <1>1, Settles, PublishingTells
  <1>3. Call(Blocked(x)) \/ Call(y)
    BY DEF CancelPublish
  <1> HIDE DEF x
  <1>4. Rules(x, modem)
    BY <1>1, <1>2, CoreKept
  <1>5. Inv(x, modem) /\ Moves(m, x)
    BY <1>1, <1>2, <1>4 DEF Inv, Moves
  <1>6. CASE Call(Blocked(x))
    <2>1. Calling(Blocked(x))
      BY <1>5, Blocks, MovesTwice DEF Calling
    <2>2. QED  BY <1>6, <2>1, CallKeeps
  <1>7. CASE Call(y)
    <2>1. "none" \in Command
      BY DEF Command
    <2>2. y \in Record
      BY <1>2, <2>1 DEF Record
    <2>3. /\ SamePublish(x, y) /\ y.cmd = "none" /\ y.stage = "none"
          /\ y.state = x.state /\ y.pending = x.pending /\ y.result = x.result
          /\ y.urc = x.urc /\ y.code = x.code /\ y.closing = x.closing /\ y.sub = x.sub
          /\ y.config = x.config /\ y.quarantined = x.quarantined /\ y.locked = x.locked
          /\ y.borrowed = x.borrowed /\ y.enabled = x.enabled /\ y.close = x.close
      BY <1>2 DEF Record, SamePublish
    <2> HIDE DEF y
    <2>4. Commanding(y)
      BY <1>4, <2>3 DEF Rules, Commanding
    <2>5. InPhase(y, modem)
      BY <1>4, <2>3 DEF Rules, InPhase, Opens, Closes, Unsent
    <2>6. Lent(y, modem)
      BY <1>4, <2>3 DEF Rules, Lent
    <2>7. Calling(y)
      BY <1>2, <1>5, <2>2, <2>3, <2>4, <2>5, <2>6, PublishKept, MovesTwice
      DEF Calling, Inv, Rules
    <2>8. QED  BY <1>7, <2>7, CallKeeps
  <1>8. QED  BY <1>3, <1>6, <1>7

LEMMA CallsStep ==
    ASSUME IInv, Calls
    PROVE  IInv' /\ Reports
  BY SetPausedStep, SetSecurityReadyStep, StopStep, PauseStep, ConfigureStep, PublishStep,
     CancelPublishStep, BorrowWorkspaceStep, ReturnWorkspaceStep DEF Calls

-----------------------------------------------------------------------------
(* The AT client.                                                          *)
LEMMA WriteStep ==
    ASSUME IInv, Write
    PROVE  IInv' /\ Reports
  <1> DEFINE w == [m EXCEPT !.stage = "wire"]
             v == [m EXCEPT !.quarantined = TRUE]
             d == Done(v, "SEND_FAIL")
  <1>1. m \in Record /\ Inv(m, modem) /\ Publishing(m) /\ Rules(m, modem) /\ m.stage = "queued"
    BY DEF IInv, Inv, Write
  <1>2. CASE Call(w)
    <2>1. w \in Record
      BY <1>1 DEF Record
    <2>2. /\ SamePublish(m, w) /\ w.stage = "wire"
          /\ w.state = m.state /\ w.pending = m.pending /\ w.result = m.result
          /\ w.urc = m.urc /\ w.code = m.code /\ w.closing = m.closing /\ w.sub = m.sub
          /\ w.config = m.config /\ w.quarantined = m.quarantined /\ w.locked = m.locked
          /\ w.borrowed = m.borrowed /\ w.enabled = m.enabled /\ w.close = m.close
          /\ w.cmd = m.cmd
      BY <1>1 DEF Record, SamePublish
    <2> HIDE DEF w
    <2>3. Phased(w) = Phased(m) /\ (Unsent(w) <=> Unsent(m))
      BY <2>2 DEF Phased, Unsent
    <2>4. Commanding(w)
      BY <1>1, <2>2, <2>3 DEF Rules, Commanding
    <2>5. InPhase(w, modem)
      BY <1>1, <2>2, <2>3 DEF Rules, InPhase, Opens, Closes
    <2>6. Lent(w, modem)
      BY <1>1, <2>2 DEF Rules, Lent
    <2>7. Calling(w)
      BY <1>1, <2>1, <2>2, <2>4, <2>5, <2>6, PublishKept DEF Calling, Inv, Rules
    <2>8. QED  BY <1>2, <2>7, CallKeeps
  <1>3. CASE Call(d)
    <2>1. v \in Record
      BY <1>1 DEF Record
    <2>2. /\ SamePublish(m, v) /\ SamePhase(m, v) /\ v.quarantined
          /\ v.locked = m.locked /\ v.borrowed = m.borrowed
          /\ v.enabled = m.enabled /\ v.close = m.close
      BY <1>1 DEF Record, SamePublish, SamePhase
    <2> HIDE DEF v
    <2>3. Inv(v, modem) /\ Moves(m, v)
      BY <1>1, <2>1, <2>2, FlagsKept, PublishKept
    <2>4. Ended(v, d, FALSE)
      BY <2>1, <2>3, DoneEnds, PublishingTells DEF Inv
    <2> HIDE DEF d
    <2>5. Rules(d, modem)
      BY <2>2, <2>3, <2>4, DoneKeeps DEF Inv, Ended
    <2>6. Calling(d)
      BY <2>3, <2>4, <2>5, MovesTwice DEF Calling, Inv, Ended
    <2>7. QED  BY <1>3, <2>6, CallKeeps
  <1>4. QED  BY <1>2, <1>3 DEF Write

LEMMA TimeoutStep ==
    ASSUME IInv, Timeout
    PROVE  IInv' /\ Reports
  <1> DEFINE d == Done(m, "TIMEOUT")
  <1>1. m \in Record /\ Publishing(m) /\ Rules(m, modem) /\ Call(d)
    BY DEF IInv, Inv, Timeout
  <1>2. Ended(m, d, FALSE) /\ d.quarantined
    BY <1>1, DoneEnds, PublishingTells
  <1> HIDE DEF d
  <1>3. Rules(d, modem)
    BY <1>1, <1>2, DoneKeeps
  <1>4. Calling(d)
    BY <1>2, <1>3 DEF Calling, Inv, Ended
  <1>5. QED  BY <1>1, <1>4, CallKeeps

LEMMA QuarantineStep ==
    ASSUME IInv, Call(Quarantine(m))
    PROVE  IInv' /\ Reports
  <1>1. Calling(Quarantine(m))
    BY Quarantines DEF IInv, Calling
  <1>2. QED  BY <1>1, CallKeeps

LEMMA RxLocksStep ==
    ASSUME IInv, RxLocks
    PROVE  IInv' /\ Reports
  <1> DEFINE y == [m EXCEPT !.locked = TRUE]
  <1>1. m \in Record /\ Publishing(m) /\ Rules(m, modem) /\ Call(y) /\ modem.client = "connected"
    BY DEF IInv, Inv, RxLocks
  <1>2. y \in Record
    BY <1>1 DEF Record
  <1>3. /\ SamePublish(m, y) /\ SamePhase(m, y) /\ y.quarantined = m.quarantined /\ y.locked
        /\ y.borrowed = m.borrowed /\ y.enabled = m.enabled /\ y.close = m.close
    BY <1>1 DEF Record, SamePublish, SamePhase
  <1> HIDE DEF y
  <1>4. ~m.borrowed /\ m.state \notin Rest
    BY <1>1 DEF Rules, InPhase, Lent
  <1>5. Phased(y) = Phased(m) /\ (Unsent(y) <=> Unsent(m))
    BY <1>3 DEF SamePhase, Phased, Unsent
  <1>6. Commanding(y)
    BY <1>1, <1>3, <1>4, <1>5 DEF SamePhase, Rules, Commanding
  <1>7. InPhase(y, modem)
    BY <1>1, <1>3, <1>5 DEF SamePhase, Rules, InPhase, Opens, Closes
  <1>8. Lent(y, modem)
    BY <1>3, <1>4 DEF Lent
  <1>9. Calling(y)
    BY <1>1, <1>2, <1>3, <1>6, <1>7, <1>8, PublishKept DEF Calling, Inv, Rules
  <1>10. QED  BY <1>1, <1>9, CallKeeps

LEMMA AtClientStep ==
    ASSUME IInv, AtClient
    PROVE  IInv' /\ Reports
  BY WriteStep, TimeoutStep, QuarantineStep, RxLocksStep
  DEF AtClient, OthersQuarantine, AtSeesLock

-----------------------------------------------------------------------------
(* The modem speaks.  What its lines leave of what is owed.                *)
OpenDuty(md) == {n \in Nat : <<"open", n>> \in md.duty}

(* The modem is left as it is but for what it has yet to say.              *)
LEMMA ModemKept ==
    ASSUME NEW x, NEW md, NEW md2, Rules(x, md),
           md2.client = md.client, md2.opens = md.opens,
           md.client # "closed" => md2.config = md.config,
           OpenDuty(md2) \subseteq OpenDuty(md),
           md.duty = {} => md2.duty = {} \/ md.client # "closed"
    PROVE  Rules(x, md2)
  <1>1. ASSUME Opens(x, md) PROVE Opens(x, md2)
    BY <1>1 DEF Opens, OpenDuty
  <1>2. Closes(x, md) => Closes(x, md2)
    BY DEF Closes
  <1>3. InPhase(x, md2)
    BY <1>1, <1>2 DEF Rules, InPhase, Rest
  <1>4. Lent(x, md2)
    BY DEF Rules, Lent
  <1>5. QED  BY <1>3, <1>4 DEF Rules

(* The modem of a step, from what is said.                                 *)
LEMMA SaysMakes ==
    ASSUME NEW x, NEW client \in Client, NEW duty \in SUBSET Duties, modem \in Modems,
           Says(x, client, duty)
    PROVE  /\ m' = x /\ modem' \in Modems
           /\ modem'.client = client /\ modem'.duty = duty /\ modem'.opens = modem.opens
           /\ modem'.config = IF client = "closed" THEN NoConfig ELSE modem.config
  <1> DEFINE c == IF client = "closed" THEN NoConfig ELSE modem.config
             md == [modem EXCEPT !.client = client, !.duty = duty, !.config = c]
  <1>1. m' = x /\ modem' = md
    BY DEF Says
  <1>2. c \in Config \cup {NoConfig}
    BY DEF Modems
  <1> HIDE DEF c
  <1>3. md \in Modems
    BY <1>2 DEF Modems
  <1>4. md.client = client /\ md.duty = duty /\ md.opens = modem.opens /\ md.config = c
    BY DEF Modems
  <1>5. QED  BY <1>1, <1>3, <1>4 DEF c

LEMMA ForgetStep ==
    ASSUME IInv, Forget
    PROVE  IInv' /\ Reports
  <1>1. PICK d \in modem.duty : Says(m, modem.client, modem.duty \ {d})
    BY DEF Forget
  <1>2. modem \in Modems /\ modem.client \in Client /\ modem.duty \ {d} \in SUBSET Duties
    BY DEF IInv, Modems
  <1>3. /\ m' = m /\ modem' \in Modems
        /\ modem'.client = modem.client /\ modem'.duty = modem.duty \ {d}
        /\ modem'.opens = modem.opens
        /\ modem.client # "closed" => modem'.config = modem.config
    BY <1>1, <1>2, SaysMakes
  <1>4. Rules(m, modem')
    BY <1>3, ModemKept DEF IInv, Inv, OpenDuty
  <1>5. Inv(m, modem)'
    BY <1>3, <1>4 DEF IInv, Inv
  <1>6. Owned(modem)'
    BY <1>3 DEF IInv, Owned
  <1>7. QED  BY <1>3, <1>5, <1>6 DEF IInv, Reports, Moves

(* What may be owed.                                                       *)
LEMMA DutyTypes ==
    ASSUME NEW n \in 0..MaxOpens, NEW i \in Nat, NEW o \in 0..MaxOps, NEW id \in 0..MaxOps
    PROVE  /\ <<"open", n>> \in Duties /\ <<"conn", n>> \in Duties /\ <<"stat", n>> \in Duties
           /\ <<"sub", i>> \in Duties /\ <<"pub", o, id>> \in Duties
  BY DEF Duties

LEMMA OpenOk ==
    ASSUME IInv, Asked("open"), modem.client = "closed", modem.opens < MaxOpens,
           m' = Done(m, "OK"),
           modem' = [modem EXCEPT !.client = "opening", !.opens = @ + 1, !.config = m.config,
                                  !.duty = Owes(<<"open", modem.opens + 1>>)]
    PROVE  IInv' /\ Reports
  <1> USE MqttAssumption
  <1> DEFINE n == modem.opens + 1
             duty == modem.duty \cup {<<"open", n>>}
             md == [modem EXCEPT !.client = "opening", !.opens = n, !.config = m.config,
                                 !.duty = duty]
  <1>1. /\ m \in Record /\ Publishing(m) /\ Rules(m, modem) /\ modem \in Modems /\ Owned(modem)
        /\ m.cmd = "open"
    BY DEF IInv, Inv, Asked
  <1>2. Ended(m, m', TRUE)
    BY <1>1, DoneEnds, PublishingTells
  <1>3. modem.opens \in 0..MaxOpens /\ modem.duty \in SUBSET Duties /\ m.config \in Config
    BY <1>1 DEF Modems, Record
  <1>4. n \in 0..MaxOpens
    BY <1>3
  <1>5. modem' = md
    BY DEF Owes
  <1> HIDE DEF n
  <1>6. duty \in SUBSET Duties
    BY <1>3, <1>4 DEF Duties
  <1>7. \A k \in Nat : <<"open", k>> \in duty => <<"open", k>> \in modem.duty \/ k = n
    OBVIOUS
  <1>8. \A o, id \in 0..MaxOps : <<"pub", o, id>> \in duty => <<"pub", o, id>> \in modem.duty
    OBVIOUS
  <1> HIDE DEF duty
  <1>9. "opening" \in Client
    BY DEF Client
  <1>10. md \in Modems
    BY <1>1, <1>3, <1>4, <1>6, <1>9 DEF Modems
  <1>11. md.client = "opening" /\ md.opens = n /\ md.config = m.config /\ md.duty = duty
    BY <1>1 DEF Modems
  <1> HIDE DEF md
  <1>12. m.state \in {"OPENING", "BLOCKED"} /\ ~m.borrowed
    BY <1>1 DEF Rules, Commanding, Phased, Lent
  <1>13. Commanding(m')
    BY <1>1, <1>2 DEF Ended, Rules, Commanding, Rest
  <1>14. InPhase(m', md)
    <2>1. CASE m.state = "BLOCKED"
      BY <1>2, <2>1 DEF Ended, InPhase, Rest
    <2>2. CASE m.state = "OPENING"
      <3>1. Opens(m, modem)
        BY <1>1, <2>2 DEF Rules, InPhase
      <3>2. m.urc = "none" /\ \A k \in Nat : <<"open", k>> \notin modem.duty
        BY <1>1, <3>1 DEF Opens
      <3>3. Opens(m', md)
        BY <1>2, <1>7, <1>11, <3>2 DEF Ended, Opens, Unsent
      <3>4. QED  BY <1>2, <1>11, <2>2, <3>3 DEF Ended, InPhase, Rest
    <2>3. QED  BY <1>12, <2>1, <2>2
  <1>15. Lent(m', md)
    BY <1>2, <1>12 DEF Ended, Lent
  <1>16. Owned(md)
    BY <1>1, <1>8, <1>11 DEF Owned
  <1>17. QED
    BY <1>2, <1>5, <1>10, <1>13, <1>14, <1>15, <1>16
    DEF IInv, Inv, Rules, Ended, Reports

(* A command other than QMTOPEN is answered OK, and the modem owes for it. *)
LEMMA OwingOk ==
    ASSUME IInv, m.cmd # "none", m.state # "CLOSING", modem.client # "closed",
           NEW d \in Duties, \A n \in Nat : d # <<"open", n>>,
           \A o, id \in 0..MaxOps : d = <<"pub", o, id>> => id \in {0, o},
           Says(Done(m, "OK"), modem.client, Owes(d))
    PROVE  IInv' /\ Reports
  <1>1. /\ m \in Record /\ Publishing(m) /\ Rules(m, modem) /\ modem \in Modems /\ Owned(modem)
    BY DEF IInv, Inv
  <1>2. modem.client \in Client /\ Owes(d) \in SUBSET Duties
    BY <1>1 DEF Modems, Owes
  <1>3. /\ m' = Done(m, "OK") /\ modem' \in Modems
        /\ modem'.client = modem.client /\ modem'.duty = Owes(d)
        /\ modem'.opens = modem.opens /\ modem'.config = modem.config
    BY <1>1, <1>2, SaysMakes
  <1>4. Ended(m, m', TRUE)
    BY <1>1, <1>3, DoneEnds, PublishingTells
  <1>5. Rules(m', modem)
    BY <1>1, <1>4, DoneKeeps
  <1>6. OpenDuty(modem') \subseteq OpenDuty(modem)
    BY <1>3 DEF OpenDuty, Owes
  <1>7. Rules(m', modem')
    BY <1>3, <1>5, <1>6, ModemKept
  <1>8. Owned(modem)'
    BY <1>1, <1>3 DEF Owned, Owes
  <1>9. QED  BY <1>3, <1>4, <1>7, <1>8 DEF IInv, Inv, Ended, Reports

(* The client that a command answered with nothing owed may leave.         *)
Leaves(result, client) ==
    /\ \/ client = modem.client
       \/ client = "closed" /\ m.state \in {"CLOSING", "BLOCKED"}
       \/ client = "open" /\ modem.client # "closed" /\ m.state \in {"CLOSING", "BLOCKED"}
          /\ m.closing = 0
       \/ client = "open" /\ modem.client # "closed" /\ m.state = "BLOCKED"
    /\ m.state = "CLOSING" /\ m.closing # 0 /\ result = "OK" => client = "closed"
    /\ m.state = "CLOSING" /\ m.closing = 2 => client = "closed"

LEMMA Answered ==
    ASSUME IInv, NEW result \in {"OK", "ERROR"}, NEW client \in Client,
           Leaves(result, client), Says(Done(m, result), client, modem.duty)
    PROVE  IInv' /\ Reports
  <1>1. /\ m \in Record /\ Publishing(m) /\ Rules(m, modem) /\ modem \in Modems /\ Owned(modem)
    BY DEF IInv, Inv
  <1>2. modem.duty \in SUBSET Duties
    BY <1>1 DEF Modems
  <1>3. /\ m' = Done(m, result) /\ modem' \in Modems
        /\ modem'.client = client /\ modem'.duty = modem.duty /\ modem'.opens = modem.opens
        /\ modem'.config = IF client = "closed" THEN NoConfig ELSE modem.config
    BY <1>1, <1>2, SaysMakes
  <1> DEFINE ok == result = "OK"
  <1>4. Ended(m, m', ok)
    BY <1>1, <1>3, DoneEnds, PublishingTells
  <1>5. Owned(modem)'
    BY <1>1, <1>3 DEF Owned
  <1>6. Rules(m', modem')
    <2>1. CASE client = modem.client
      <3>1. Rules(m, modem')
        BY <1>1, <1>3, <2>1, ModemKept DEF OpenDuty
      <3>2. m.state = "CLOSING" => /\ ok /\ m.closing # 0 => modem'.client = "closed"
                                   /\ m.closing = 2 => modem'.client = "closed"
        BY <1>3 DEF Leaves
      <3>3. ok \in BOOLEAN
        OBVIOUS
      <3> HIDE DEF ok
      <3>4. QED  BY <1>4, <3>1, <3>2, <3>3, DoneKeeps
    <2>2. CASE client # modem.client
      <3>1. m.state \in {"CLOSING", "BLOCKED"} /\ (m.borrowed => client = "closed")
        BY <1>1, <2>2 DEF Leaves, Rules, Lent
      <3>2. Commanding(m')
        BY <1>1, <1>4 DEF Ended, Rules, Commanding, Rest
      <3>3. InPhase(m', modem')
        <4>1. m.state = "CLOSING" => Closes(m', modem')
          BY <1>3, <1>4, <2>2 DEF Leaves, Ended, Closes
        <4>2. m'.state # "BLOCKED" /\ client # "closed" => modem'.config = m'.config
          BY <1>1, <1>3, <1>4, <2>2 DEF Leaves, Ended, Rules, InPhase
        <4>3. QED  BY <1>3, <1>4, <3>1, <4>1, <4>2 DEF Ended, InPhase, Rest
      <3>4. Lent(m', modem')
        BY <1>1, <1>3, <1>4, <3>1 DEF Ended, Rules, Lent
      <3>5. QED  BY <3>2, <3>3, <3>4 DEF Rules
    <2>3. QED  BY <2>1, <2>2
  <1>7. QED  BY <1>3, <1>4, <1>5, <1>6 DEF IInv, Inv, Ended, Reports

LEMMA OkStep ==
    ASSUME IInv, Ok
    PROVE  IInv' /\ Reports
  <1>1. /\ m \in Record /\ Publishing(m) /\ Rules(m, modem) /\ modem \in Modems
    BY DEF IInv, Inv
  <1>2. modem.client \in Client /\ modem.opens \in 0..MaxOpens /\ m.sid \in Nat
    BY <1>1 DEF Modems, Record
  <1>3. CASE Asked("setup") /\ Says(Done(m, "OK"), modem.client, modem.duty)
    <2>1. m.state # "CLOSING"
      BY <1>1, <1>3 DEF Asked, Rules, Commanding, Phased
    <2>2. Leaves("OK", modem.client)
      BY <2>1 DEF Leaves
    <2>3. QED  BY <1>2, <1>3, <2>2, Answered
  <1>4. CASE /\ Asked("open") /\ modem.client = "closed" /\ modem.opens < MaxOpens
             /\ m' = Done(m, "OK")
             /\ modem' = [modem EXCEPT !.client = "opening", !.opens = @ + 1,
                                       !.config = m.config,
                                       !.duty = Owes(<<"open", modem.opens + 1>>)]
    BY <1>4, OpenOk
  <1>5. CASE /\ Asked("conn") /\ modem.client = "open"
             /\ Says(Done(m, "OK"), "open", Owes(<<"conn", modem.opens>>))
    <2>1. m.state # "CLOSING" /\ m.cmd # "none"
      BY <1>1, <1>5 DEF Asked, Rules, Commanding, Phased
    <2>2. <<"conn", modem.opens>> \in Duties
      BY <1>2 DEF Duties
    <2>3. QED  BY <1>5, <2>1, <2>2, OwingOk
  <1>6. CASE /\ Asked("sub") /\ modem.client = "connected"
             /\ Says(Done(m, "OK"), "connected", Owes(<<"sub", m.sid>>))
    <2>1. m.state # "CLOSING" /\ m.cmd # "none"
      BY <1>1, <1>6 DEF Asked, Rules, Commanding, Phased
    <2>2. <<"sub", m.sid>> \in Duties
      BY <1>2 DEF Duties
    <2>3. QED  BY <1>6, <2>1, <2>2, OwingOk
  <1>7. CASE /\ Asked("disc") /\ modem.client \in {"connected", "lost"}
             /\ \E client \in {"open", "closed"} : Says(Done(m, "OK"), client, modem.duty)
    <2>1. PICK client \in {"open", "closed"} : Says(Done(m, "OK"), client, modem.duty)
      BY <1>7
    <2>2. m.state = "BLOCKED" \/ (m.state = "CLOSING" /\ m.closing = 0)
      BY <1>1, <1>7 DEF Asked, Rules, Commanding, Phased
    <2>3. client \in Client /\ modem.client # "closed"
      BY <1>7 DEF Client
    <2>4. Leaves("OK", client)
      BY <2>2, <2>3 DEF Leaves
    <2>5. QED  BY <2>1, <2>3, <2>4, Answered
  <1>8. CASE Asked("close") /\ Says(Done(m, "OK"), "closed", modem.duty)
    <2>1. m.state \in {"CLOSING", "BLOCKED"} /\ "closed" \in Client
      BY <1>1, <1>8 DEF Asked, Rules, Commanding, Phased, Client
    <2>2. Leaves("OK", "closed")
      BY <2>1 DEF Leaves
    <2>3. QED  BY <1>8, <2>1, <2>2, Answered
  <1>9. CASE /\ m.cmd = "pub" /\ m.stage = "given"
             /\ Says(Done(m, "OK"), modem.client, modem.duty)
    <2>1. m.state # "CLOSING"
      BY <1>1, <1>9 DEF Rules, Commanding, Phased
    <2>2. Leaves("OK", modem.client)
      BY <2>1 DEF Leaves
    <2>3. QED  BY <1>2, <1>9, <2>2, Answered
  <1>10. QED  BY <1>3, <1>4, <1>5, <1>6, <1>7, <1>8, <1>9 DEF Ok
LEMMA ErrorStep ==
    ASSUME IInv, Error
    PROVE  IInv' /\ Reports
  <1> DEFINE client == IF m.cmd = "close" /\ modem.client = "refused" THEN "closed"
                       ELSE modem.client
  <1>1. /\ m \in Record /\ Publishing(m) /\ Rules(m, modem) /\ modem \in Modems
        /\ Says(Done(m, "ERROR"), client, modem.duty) /\ m.cmd # "none"
    BY DEF IInv, Inv, Error, OnWire, Rules, Commanding
  <1>2. client \in Client
    BY <1>1 DEF Modems, Client
  <1>3. m.cmd = "close" => m.state \in {"CLOSING", "BLOCKED"}
    BY <1>1 DEF Rules, Commanding, Phased
  <1>4. m.state = "CLOSING" /\ m.closing = 2 => client = "closed"
    BY <1>1 DEF Rules, Commanding, Phased, InPhase, Closes
  <1>5. client = modem.client \/ (client = "closed" /\ m.cmd = "close")
    OBVIOUS
  <1> HIDE DEF client
  <1>6. Leaves("ERROR", client)
    BY <1>3, <1>4, <1>5 DEF Leaves
  <1>7. "ERROR" \in {"OK", "ERROR"}
    OBVIOUS
  <1>8. QED  BY <1>1, <1>2, <1>6, <1>7, Answered

(* The stage of a command and the quarantine move on.                      *)
Staged(x, y) ==
    /\ y.state = x.state /\ y.pending = x.pending /\ y.result = x.result
    /\ y.urc = x.urc /\ y.code = x.code /\ y.closing = x.closing /\ y.sub = x.sub
    /\ y.config = x.config /\ y.cmd = x.cmd /\ y.locked = x.locked
    /\ y.borrowed = x.borrowed /\ y.enabled = x.enabled /\ y.close = x.close
    /\ x.stage # "none" /\ y.stage # "none" /\ (x.quarantined => y.quarantined)

LEMMA StagedKeeps ==
    ASSUME NEW x, NEW y, NEW md, Rules(x, md), Staged(x, y)
    PROVE  Rules(y, md)
  <1>1. Phased(y) = Phased(x) /\ (Unsent(y) <=> Unsent(x))
    BY DEF Staged, Phased, Unsent
  <1>2. Commanding(y)
    BY <1>1 DEF Staged, Rules, Commanding
  <1>3. InPhase(y, md)
    BY <1>1 DEF Staged, Rules, InPhase, Opens, Closes
  <1>4. Lent(y, md)
    BY DEF Staged, Rules, Lent
  <1>5. QED  BY <1>2, <1>3, <1>4 DEF Rules

(* The payload is given to the modem.                                      *)
LEMMA GivenStep ==
    ASSUME IInv, Asked("pub"), m.active, ~m.prompt, m.state = "READY",
           Says([Tell(m, "submitted") EXCEPT !.prompt = TRUE, !.stage = "given"],
                modem.client, Owes(<<"pub", m.op, m.msg>>))
    PROVE  IInv' /\ Reports
  <1> DEFINE y == [m EXCEPT !.told = <<"submitted">>, !.prompt = TRUE, !.stage = "given"]
             d == <<"pub", m.op, m.msg>>
  <1>1. /\ m \in Record /\ Publishing(m) /\ Rules(m, modem) /\ modem \in Modems /\ Owned(modem)
        /\ m.stage = "wire"
    BY DEF IInv, Inv, Asked
  <1>2. /\ m.told = <<>> /\ m.op = m.next /\ m.next > 0 /\ m.op \in 0..MaxOps
        /\ m.msg \in 0..MaxOps /\ m.msg \in {0, m.op}
    BY <1>1 DEF Publishing, Record
  <1>3. Append(m.told, "submitted") = <<"submitted">>
    BY <1>2
  <1>4. [Tell(m, "submitted") EXCEPT !.prompt = TRUE, !.stage = "given"] = y
    <2>1. m.op # 0
      BY <1>2
    <2>2. Tell(m, "submitted") = [m EXCEPT !.told = <<"submitted">>]
      BY <1>3, <2>1 DEF Tell
    <2>3. QED  BY <1>1, <2>2 DEF Record
  <1>5. <<"submitted">> \in Seq({"submitted", "confirmed", "failed"})
    OBVIOUS
  <1>6. y \in Record
    BY <1>1, <1>5 DEF Record
  <1>7. /\ Staged(m, y) /\ y.told = <<"submitted">> /\ y.prompt /\ y.active = m.active
        /\ y.op = m.op /\ y.msg = m.msg /\ y.next = m.next
    BY <1>1 DEF Record, Staged
  <1> HIDE DEF y
  <1>8. Rules(y, modem)
    BY <1>1, <1>7, StagedKeeps
  <1>9. Publishing(y)
    BY <1>1, <1>2, <1>7 DEF Publishing
  <1>10. d \in Duties
    BY <1>2, DutyTypes DEF Duties
  <1>11. modem.client \in Client /\ Owes(d) \in SUBSET Duties
    BY <1>1, <1>10 DEF Modems, Owes
  <1>12. \A n \in Nat : d # <<"open", n>>
    OBVIOUS
  <1>13. \A o, id \in 0..MaxOps : d = <<"pub", o, id>> => id \in {0, o}
    BY <1>2
  <1> HIDE DEF d
  <1>14. Says(y, modem.client, Owes(d))
    BY <1>4 DEF d
  <1>15. /\ m' = y /\ modem' \in Modems
         /\ modem'.client = modem.client /\ modem'.duty = Owes(d)
         /\ modem'.opens = modem.opens /\ (modem.client # "closed" => modem'.config = modem.config)
    BY <1>1, <1>11, <1>14, SaysMakes
  <1>16. OpenDuty(modem') \subseteq OpenDuty(modem) /\ modem.client # "closed"
    BY <1>1, <1>12, <1>15 DEF OpenDuty, Owes, Rules, InPhase
  <1>17. Rules(y, modem')
    BY <1>8, <1>15, <1>16, ModemKept
  <1>18. Owned(modem)'
    BY <1>1, <1>13, <1>15 DEF Owned, Owes
  <1>19. QED  BY <1>2, <1>6, <1>7, <1>9, <1>15, <1>17, <1>18 DEF IInv, Inv, Reports

(* The payload cannot be written: the publish fails, once.                 *)
LEMMA WriteFailedStep ==
    ASSUME IInv, Asked("pub"), m.active, ~m.prompt, m.state = "READY", Call(WriteFailed(m))
    PROVE  IInv' /\ Reports
  <1> DEFINE v == [m EXCEPT !.quarantined = TRUE, !.prompt = TRUE]
             d == Done(v, "SEND_FAIL")
             y == [d EXCEPT !.close = TRUE]
  <1>1. m \in Record /\ Publishing(m) /\ Rules(m, modem) /\ m.stage = "wire"
    BY DEF IInv, Inv, Asked
  <1>2. v \in Record
    BY <1>1 DEF Record
  <1>3. /\ Staged(m, v) /\ v.told = m.told /\ v.active = m.active
        /\ v.op = m.op /\ v.msg = m.msg /\ v.next = m.next
    BY <1>1 DEF Record, Staged
  <1> HIDE DEF v
  <1>4. Rules(v, modem)
    BY <1>1, <1>3, StagedKeeps
  <1>5. Telling(v) /\ Moves(m, v)
    BY <1>1, <1>3 DEF Publishing, Telling, Moves
  <1>6. Ended(v, d, FALSE) /\ ~d.active
    BY <1>2, <1>5, DoneEnds
  <1> HIDE DEF d
  <1>7. d \in Record /\ Publishing(d) /\ d.state = "READY" /\ Moves(m, d)
    BY <1>3, <1>5, <1>6, MovesTwice DEF Ended, Staged
  <1>8. Rules(d, modem)
    BY <1>3, <1>4, <1>6, DoneKeeps DEF Staged
  <1>9. Settle(d, "failed") = d
    <2>1. Tell(d, "failed") = d
      BY <1>6, <1>7 DEF Publishing, Tell
    <2>2. d.active = FALSE /\ d.prompt = FALSE /\ d.op = 0 /\ d.msg = 0
      BY <1>6, <1>7 DEF Publishing, Record
    <2>3. QED  BY <1>7, <2>1, <2>2 DEF Settle, Record
  <1>10. WriteFailed(m) = y
    BY <1>9 DEF WriteFailed, v, d
  <1>11. Inv(y, modem) /\ SamePublish(d, y)
    <2>1. Inv(d, modem)
      BY <1>7, <1>8 DEF Inv
    <2>2. QED  BY <1>7, <2>1, CloseSet DEF Rest
  <1> HIDE DEF y
  <1>12. Calling(y)
    BY <1>7, <1>11, PublishKept, MovesTwice DEF Calling
  <1>13. QED  BY <1>10, <1>12, CallKeeps

LEMMA PromptStep ==
    ASSUME IInv, Prompt
    PROVE  IInv' /\ Reports
  <1> DEFINE y == [m EXCEPT !.stage = "data"]
  <1>1. CASE Call(y)
    <2>1. m \in Record /\ Publishing(m) /\ Rules(m, modem) /\ m.stage = "wire"
      BY DEF IInv, Inv, Prompt, Asked
    <2>2. y \in Record
      BY <2>1 DEF Record
    <2>3. SamePublish(m, y) /\ Staged(m, y)
      BY <2>1 DEF Record, SamePublish, Staged
    <2> HIDE DEF y
    <2>4. Calling(y)
      BY <2>1, <2>2, <2>3, PublishKept, StagedKeeps DEF Calling, Inv
    <2>5. QED  BY <1>1, <2>4, CallKeeps
  <1>2. QED  BY <1>1, GivenStep, WriteFailedStep DEF Prompt

-----------------------------------------------------------------------------
(* The result lines.  What hearing one leaves alone.                       *)
HeardBy(x, y) ==
    /\ SamePublish(x, y) /\ y.state = x.state /\ y.pending = x.pending
    /\ y.result = x.result /\ y.closing = x.closing /\ y.sub = x.sub
    /\ y.config = x.config /\ y.cmd = x.cmd /\ y.stage = x.stage
    /\ y.quarantined = x.quarantined /\ y.locked = x.locked
    /\ y.borrowed = x.borrowed /\ y.enabled = x.enabled /\ y.close = x.close

LEMMA Hears ==
    ASSUME m \in Record, NEW urc \in Verdict, NEW code \in {"none", "unopened", "refused"}
    PROVE  LET y == Heard(urc, code) IN
           y \in Record /\ HeardBy(m, y) /\ y.urc = urc /\ y.code = code
  <1> DEFINE y == [m EXCEPT !.urc = urc, !.code = code]
  <1>1. y \in Record
    BY DEF Record
  <1>2. HeardBy(m, y) /\ y.urc = urc /\ y.code = code
    BY DEF Record, HeardBy, SamePublish
  <1>3. QED  BY <1>1, <1>2 DEF Heard

(* The phase is what hearing a line can disturb.                           *)
LEMMA HeardKeeps ==
    ASSUME NEW x, NEW y, NEW md, NEW md2, Rules(x, md), HeardBy(x, y),
           InPhase(y, md2), x.borrowed => md2.client = "closed"
    PROVE  Rules(y, md2)
  <1>1. Phased(y) = Phased(x)
    BY DEF HeardBy, Phased
  <1>2. Commanding(y)
    BY <1>1 DEF HeardBy, Rules, Commanding
  <1>3. Lent(y, md2)
    BY DEF HeardBy, Rules, Lent
  <1>4. QED  BY <1>2, <1>3 DEF Rules

(* A step in which the modem says a line and nothing is reported.          *)
LEMMA LineKeeps ==
    ASSUME IInv, NEW y \in Record, SamePublish(m, y), NEW client \in Client,
           NEW duty \in SUBSET Duties, Says(y, client, duty), Rules(y, modem'),
           \A o, id \in 0..MaxOps : <<"pub", o, id>> \in duty => <<"pub", o, id>> \in modem.duty
    PROVE  IInv' /\ Reports
  <1>1. Publishing(m) /\ modem \in Modems /\ Owned(modem)
    BY DEF IInv, Inv
  <1>2. m' = y /\ modem' \in Modems /\ modem'.duty = duty
    BY <1>1, SaysMakes
  <1>3. Owned(modem)'
    BY <1>1, <1>2 DEF Owned
  <1>4. Publishing(y) /\ Moves(m, y)
    BY <1>1, PublishKept
  <1>5. QED  BY <1>2, <1>3, <1>4 DEF IInv, Inv, Reports

(* The client of a session goes on to another state unheard.               *)
LEMMA ClientMoves ==
    ASSUME NEW x, NEW md, NEW md2, Rules(x, md),
           md.client \in {"opening", "open", "connected"},
           x.state = "OPENING" => /\ md.client # "opening"
                                  /\ md2.client \in {"refused", "connected", "lost"},
           x.state \in {"CONNECTING", "SUBSCRIBING", "READY"} => md2.client = "lost",
           md2.opens = md.opens, OpenDuty(md2) \subseteq OpenDuty(md),
           md2.client # "closed" => md2.config = md.config
    PROVE  Rules(x, md2)
  <1>1. x.state \notin Rest \cup {"RETRY_WAIT", "CONFIGURING"}
    BY DEF Rules, InPhase
  <1>2. ~x.borrowed
    BY DEF Rules, Lent
  <1>3. x.state = "OPENING" => Opens(x, md2)
    BY DEF Rules, InPhase, Opens, OpenDuty
  <1>4. x.state = "CLOSING" => Closes(x, md2)
    BY DEF Rules, InPhase, Closes
  <1>5. InPhase(x, md2)
    BY <1>1, <1>3, <1>4 DEF Rules, InPhase
  <1>6. QED  BY <1>2, <1>5 DEF Rules, Lent

LEMMA OpenLineStep ==
    ASSUME IInv, NEW n \in 1..modem.opens, OpenLine(n)
    PROVE  IInv' /\ Reports
  <1> DEFINE mine == modem.client = "opening" /\ n = modem.opens
             duty == modem.duty \ {<<"open", n>>}
             to(urc, code) == IF m.state = "OPENING" THEN Heard(urc, code) ELSE m
  <1>1. m \in Record /\ Rules(m, modem) /\ modem \in Modems
    BY DEF IInv, Inv
  <1>2. /\ modem.client \in Client /\ "open" \in Client /\ "closed" \in Client
        /\ duty \in SUBSET Duties /\ modem.opens \in Nat
    BY <1>1 DEF Modems, Client
  <1>3. PICK urc \in {"ok", "failed"}, code \in {"none", "unopened"}, client \in Client :
           /\ Says(to(urc, code), client, duty)
           /\ urc = "ok" => mine /\ client = "open"
           /\ urc = "failed" /\ code = "unopened" /\ mine => client = "closed"
           /\ mine => client \in {"open", "closed"}
           /\ code = "none" /\ mine => client = "open"
           /\ ~mine => client = modem.client
    <2>1. CASE mine /\ Says(to("ok", "none"), "open", duty)
      BY <1>2, <2>1
    <2>2. CASE Says(to("failed", "unopened"), IF mine THEN "closed" ELSE modem.client, duty)
      BY <1>2, <2>2
    <2>3. CASE Says(to("failed", "none"), IF mine THEN "open" ELSE modem.client, duty)
      BY <1>2, <2>3
    <2>4. QED  BY <2>1, <2>2, <2>3 DEF OpenLine
  <1> DEFINE y == to(urc, code)
  <1>4. /\ modem'.client = client /\ modem'.duty = duty /\ modem'.opens = modem.opens
        /\ modem'.config = IF client = "closed" THEN NoConfig ELSE modem.config
    BY <1>1, <1>2, <1>3, SaysMakes
  <1>5. <<"open", n>> \in modem.duty
    BY DEF OpenLine
  <1>6. OpenDuty(modem') \subseteq OpenDuty(modem)
    BY <1>4 DEF OpenDuty
  <1>7. y \in Record /\ SamePublish(m, y) /\ Rules(y, modem')
    <2>1. CASE m.state = "OPENING"
      <3>1. /\ y \in Record /\ HeardBy(m, y) /\ y.urc = urc /\ y.code = code
        BY <1>1, <2>1, Hears DEF Verdict
      <3> HIDE DEF y
      <3>2. Opens(m, modem)
        BY <1>1, <2>1 DEF Rules, InPhase
      <3>3. /\ mine /\ ~Unsent(m) /\ m.cmd # "open"
            /\ \A k \in Nat : <<"open", k>> \in modem.duty => k = n
        BY <1>2, <1>5, <3>2 DEF Opens
      <3>4. ~Unsent(y) /\ y.cmd # "open" /\ y.state = "OPENING"
        BY <2>1, <3>1, <3>3 DEF HeardBy, Unsent
      <3>5. \A k \in Nat : <<"open", k>> \notin modem'.duty
        BY <1>4, <3>3
      <3>6. Opens(y, modem')
        BY <1>3, <1>4, <3>1, <3>3, <3>4, <3>5 DEF Opens
      <3>7. client # "closed" => modem'.config = y.config
        BY <1>1, <1>4, <2>1, <3>1, <3>3 DEF Rules, InPhase, HeardBy
      <3>8. InPhase(y, modem')
        BY <1>4, <3>4, <3>6, <3>7 DEF InPhase, Rest
      <3>9. ~m.borrowed
        BY <1>1, <3>3 DEF Rules, Lent
      <3>10. QED  BY <1>1, <3>1, <3>8, <3>9, HeardKeeps DEF HeardBy
    <2>2. CASE m.state # "OPENING"
      <3>1. y = m
        BY <2>2
      <3> HIDE DEF y
      <3>2. CASE ~mine
        BY <1>1, <1>3, <1>4, <1>5, <1>6, <3>1, <3>2, ModemKept DEF SamePublish
      <3>3. CASE mine
        <4>1. m.state \notin {"CONNECTING", "SUBSCRIBING", "READY"}
          BY <1>1, <3>3 DEF Rules, InPhase
        <4>2. Rules(m, modem')
          BY <1>1, <1>4, <1>6, <2>2, <3>3, <4>1, ClientMoves
        <4>3. QED  BY <1>1, <3>1, <4>2 DEF SamePublish
      <3>4. QED  BY <3>2, <3>3
    <2>3. QED  BY <2>1, <2>2
  <1>8. Says(y, client, duty)
    BY <1>3
  <1>9. \A o, id \in 0..MaxOps : <<"pub", o, id>> \in duty => <<"pub", o, id>> \in modem.duty
    OBVIOUS
  <1> HIDE DEF y, duty
  <1>10. QED  BY <1>2, <1>7, <1>8, <1>9, LineKeeps

LEMMA ConnLineStep ==
    ASSUME IInv, NEW n \in 1..modem.opens, ConnLine(n)
    PROVE  IInv' /\ Reports
  <1> DEFINE mine == modem.client = "open" /\ n = modem.opens
             duty == modem.duty \ {<<"conn", n>>}
             to(urc, code) == IF m.state = "CONNECTING" THEN Heard(urc, code) ELSE m
  <1>1. m \in Record /\ Rules(m, modem) /\ modem \in Modems
    BY DEF IInv, Inv
  <1>2. /\ modem.client \in Client /\ {"connected", "refused", "lost"} \subseteq Client
        /\ duty \in SUBSET Duties
    BY <1>1 DEF Modems, Client
  <1>3. PICK urc \in {"ok", "failed"}, code \in {"none", "refused"}, client \in Client :
           /\ Says(to(urc, code), client, duty)
           /\ urc = "ok" => client = "connected"
           /\ urc = "failed" /\ code = "refused" => client = "refused"
           /\ mine => client \in {"connected", "refused", "lost"}
           /\ ~mine => client = modem.client
    <2>1. CASE mine /\ Says(to("ok", "none"), "connected", duty)
      BY <1>2, <2>1
    <2>2. CASE mine /\ Says(to("failed", "refused"), "refused", duty)
      BY <1>2, <2>2
    <2>3. CASE Says(to("failed", "none"), IF mine THEN "lost" ELSE modem.client, duty)
      BY <1>2, <2>3
    <2>4. QED  BY <2>1, <2>2, <2>3 DEF ConnLine
  <1> DEFINE y == to(urc, code)
  <1>4. /\ modem'.client = client /\ modem'.duty = duty /\ modem'.opens = modem.opens
        /\ modem'.config = IF client = "closed" THEN NoConfig ELSE modem.config
    BY <1>1, <1>2, <1>3, SaysMakes
  <1>5. <<"conn", n>> \in modem.duty
    BY DEF ConnLine
  <1>6. OpenDuty(modem') \subseteq OpenDuty(modem)
    BY <1>4 DEF OpenDuty
  <1>7. y \in Record /\ SamePublish(m, y) /\ Rules(y, modem')
    <2>1. CASE m.state = "CONNECTING"
      <3>1. /\ y \in Record /\ HeardBy(m, y) /\ y.urc = urc /\ y.code = code
        BY <1>1, <2>1, Hears DEF Verdict
      <3> HIDE DEF y
      <3>2. modem.client \in {"open", "refused", "connected", "lost"} /\ modem.config = m.config
        BY <1>1, <2>1 DEF Rules, InPhase
      <3>3. client \in {"open", "refused", "connected", "lost"}
        BY <1>3, <3>2
      <3>4. InPhase(y, modem')
        BY <1>3, <1>4, <2>1, <3>1, <3>2, <3>3 DEF InPhase, HeardBy, Rest
      <3>5. ~m.borrowed
        BY <1>1, <2>1 DEF Rules, Lent, Rest
      <3>6. QED  BY <1>1, <3>1, <3>4, <3>5, HeardKeeps DEF HeardBy
    <2>2. CASE m.state # "CONNECTING"
      <3>1. y = m
        BY <2>2
      <3> HIDE DEF y
      <3>2. CASE ~mine
        BY <1>1, <1>3, <1>4, <1>5, <1>6, <3>1, <3>2, ModemKept DEF SamePublish
      <3>3. CASE mine
        <4>1. m.state \notin {"SUBSCRIBING", "READY"}
          BY <1>1, <3>3 DEF Rules, InPhase
        <4>2. client \in {"connected", "refused", "lost"}
          BY <1>3, <3>3
        <4>3. Rules(m, modem')
          BY <1>1, <1>4, <1>6, <2>2, <3>3, <4>1, <4>2, ClientMoves
        <4>4. QED  BY <1>1, <3>1, <4>3 DEF SamePublish
      <3>4. QED  BY <3>2, <3>3
    <2>3. QED  BY <2>1, <2>2
  <1>8. Says(y, client, duty)
    BY <1>3
  <1>9. \A o, id \in 0..MaxOps : <<"pub", o, id>> \in duty => <<"pub", o, id>> \in modem.duty
    OBVIOUS
  <1> HIDE DEF y, duty
  <1>10. QED  BY <1>2, <1>7, <1>8, <1>9, LineKeeps

LEMMA SubLineStep ==
    ASSUME IInv, NEW id \in 1..m.sid, SubLine(id)
    PROVE  IInv' /\ Reports
  <1> DEFINE duty == modem.duty \ {<<"sub", id>>}
  <1>1. m \in Record /\ Rules(m, modem) /\ modem \in Modems
    BY DEF IInv, Inv
  <1>2. modem.client \in Client /\ duty \in SUBSET Duties
    BY <1>1 DEF Modems
  <1>3. PICK urc \in {"ok", "failed"} :
           Says(IF m.state = "SUBSCRIBING" /\ id = m.sid THEN [m EXCEPT !.urc = urc] ELSE m,
                modem.client, duty)
    BY DEF SubLine
  <1> DEFINE heard == [m EXCEPT !.urc = urc]
             y == IF m.state = "SUBSCRIBING" /\ id = m.sid THEN heard ELSE m
  <1>4. /\ modem'.client = modem.client /\ modem'.duty = duty /\ modem'.opens = modem.opens
        /\ modem.client # "closed" => modem'.config = modem.config
    BY <1>1, <1>2, <1>3, SaysMakes
  <1>5. OpenDuty(modem') \subseteq OpenDuty(modem)
    BY <1>4 DEF OpenDuty
  <1>6. modem.duty # {}
    BY DEF SubLine
  <1>7. Rules(m, modem')
    BY <1>1, <1>4, <1>5, <1>6, ModemKept
  <1>8. y \in Record /\ SamePublish(m, y) /\ Rules(y, modem')
    <2>1. CASE y = m
      BY <1>1, <1>7, <2>1 DEF SamePublish
    <2>2. CASE m.state = "SUBSCRIBING" /\ y = heard
      <3>1. heard \in Record
        BY <1>1 DEF Record, Verdict
      <3>2. HeardBy(m, heard)
        BY <1>1 DEF Record, HeardBy, SamePublish
      <3> HIDE DEF heard
      <3>3. InPhase(heard, modem')
        BY <1>7, <2>2, <3>2 DEF Rules, InPhase, HeardBy, Rest
      <3>4. ~m.borrowed
        BY <1>7, <2>2 DEF Rules, Lent, Rest
      <3> HIDE DEF y
      <3>5. QED  BY <1>7, <2>2, <3>1, <3>2, <3>3, <3>4, HeardKeeps DEF HeardBy
    <2>3. QED  BY <2>1, <2>2
  <1>9. Says(y, modem.client, duty)
    BY <1>3
  <1>10. \A o, i \in 0..MaxOps : <<"pub", o, i>> \in duty => <<"pub", o, i>> \in modem.duty
    OBVIOUS
  <1> HIDE DEF y, duty
  <1>11. QED  BY <1>2, <1>8, <1>9, <1>10, LineKeeps

LEMMA LoseStep ==
    ASSUME IInv, Lose
    PROVE  IInv' /\ Reports
  <1> DEFINE d == <<"stat", modem.opens>>
             duty == Owes(d)
  <1>1. m \in Record /\ Rules(m, modem) /\ modem \in Modems
    BY DEF IInv, Inv
  <1>2. modem.client \in {"open", "connected"} /\ Says(m, "lost", duty)
    BY DEF Lose
  <1>3. "lost" \in Client /\ duty \in SUBSET Duties
    BY <1>1 DEF Modems, Client, Owes, Duties
  <1>4. /\ modem'.client = "lost" /\ modem'.duty = duty /\ modem'.opens = modem.opens
        /\ modem'.config = modem.config
    BY <1>1, <1>2, <1>3, SaysMakes
  <1>5. OpenDuty(modem') \subseteq OpenDuty(modem)
    BY <1>4 DEF OpenDuty, Owes
  <1>6. Rules(m, modem')
    BY <1>1, <1>2, <1>4, <1>5, ClientMoves
  <1>7. \A o, id \in 0..MaxOps : <<"pub", o, id>> \in duty => <<"pub", o, id>> \in modem.duty
    BY DEF Owes
  <1>8. SamePublish(m, m)
    BY DEF SamePublish
  <1> HIDE DEF duty
  <1>9. QED  BY <1>1, <1>2, <1>3, <1>6, <1>7, <1>8, LineKeeps

LEMMA StatLineStep ==
    ASSUME IInv, NEW n \in 1..modem.opens, StatLine(n)
    PROVE  IInv' /\ Reports
  <1> DEFINE duty == modem.duty \ {<<"stat", n>>}
             closing == [m EXCEPT !.close = TRUE]
             y == IF m.state = "READY" THEN closing ELSE m
  <1>1. m \in Record /\ Rules(m, modem) /\ modem \in Modems
    BY DEF IInv, Inv
  <1>2. modem.client \in Client /\ duty \in SUBSET Duties
    BY <1>1 DEF Modems
  <1>3. Says(y, modem.client, duty) /\ modem.duty # {}
    BY DEF StatLine
  <1>4. /\ modem'.client = modem.client /\ modem'.duty = duty /\ modem'.opens = modem.opens
        /\ modem.client # "closed" => modem'.config = modem.config
    BY <1>1, <1>2, <1>3, SaysMakes
  <1>5. OpenDuty(modem') \subseteq OpenDuty(modem)
    BY <1>4 DEF OpenDuty
  <1>6. y \in Record /\ SamePublish(m, y) /\ Rules(y, modem)
    <2>1. CASE m.state = "READY"
      <3>1. Inv(closing, modem) /\ SamePublish(m, closing)
        BY <2>1, CloseSet DEF IInv, Rest
      <3> HIDE DEF closing
      <3>2. QED  BY <2>1, <3>1 DEF Inv
    <2>2. CASE m.state # "READY"
      BY <1>1, <2>2 DEF SamePublish
    <2>3. QED  BY <2>1, <2>2
  <1> HIDE DEF y
  <1>7. Rules(y, modem')
    BY <1>3, <1>4, <1>5, <1>6, ModemKept
  <1>8. \A o, i \in 0..MaxOps : <<"pub", o, i>> \in duty => <<"pub", o, i>> \in modem.duty
    OBVIOUS
  <1> HIDE DEF duty
  <1>9. QED  BY <1>2, <1>3, <1>6, <1>7, <1>8, LineKeeps

(* What a result line makes of the publish in flight.                      *)
Verdicts(x, id, good) ==
    IF ~Matches(x, id) THEN x
    ELSE [Settle(x, IF good THEN "confirmed" ELSE "failed") EXCEPT !.close = @ \/ ~good]

LEMMA VerdictKeeps ==
    ASSUME NEW x, NEW md, Inv(x, md), NEW id, NEW good \in BOOLEAN
    PROVE  LET y == Verdicts(x, id, good) IN
           /\ Inv(y, md)
           /\ y.cmd = x.cmd /\ y.stage = x.stage /\ y.state = x.state
           /\ \/ Moves(x, y)
              \/ /\ x.active /\ x.prompt /\ id = x.msg
                 /\ y.next = x.next /\ y.told = Append(x.told, "confirmed")
  <1>1. x \in Record /\ Publishing(x) /\ Rules(x, md)
    BY DEF Inv
  <1>2. CASE ~Matches(x, id)
    BY <1>1, <1>2 DEF Verdicts, Moves
  <1>3. CASE Matches(x, id)
    <2> DEFINE event == IF good THEN "confirmed" ELSE "failed"
               s == Settle(x, event)
               c == s.close \/ ~good
               y == [s EXCEPT !.close = c]
    <2>1. Verdicts(x, id, good) = y
      BY <1>3 DEF Verdicts
    <2>2. x.active /\ x.prompt /\ id = x.msg /\ x.state = "READY"
      BY <1>3 DEF Matches
    <2>3. event \in {"confirmed", "failed"} /\ (event = "failed" \/ event = "confirmed")
      OBVIOUS
    <2> HIDE DEF event
    <2>4. /\ s \in Record /\ Publishing(s) /\ SameCore(x, s) /\ ~s.active
          /\ s.told = Append(x.told, event) /\ s.next = x.next
      BY <1>1, <2>2, <2>3, Settles, PublishingTells
    <2> HIDE DEF s
    <2>5. Inv(s, md)
      BY <1>1, <2>4, CoreKept DEF Inv
    <2>6. c \in BOOLEAN
      OBVIOUS
    <2> HIDE DEF c
    <2>7. s.state = "READY"
      BY <2>2, <2>4 DEF SameCore
    <2>8. Inv(y, md) /\ SamePublish(s, y) /\ y.state = s.state
      BY <2>5, <2>6, <2>7, CloseSet DEF Rest
    <2>9. y.cmd = x.cmd /\ y.stage = x.stage
      BY <2>4 DEF SameCore, Record
    <2> HIDE DEF y
    <2>10. QED  BY <2>1, <2>2, <2>3, <2>4, <2>7, <2>8, <2>9 DEF Moves, SamePublish
  <1>4. QED  BY <1>2, <1>3

LEMMA PubLineStep ==
    ASSUME IInv, NEW o \in 1..MaxOps, NEW id \in 0..MaxOps, PubLine(o, id)
    PROVE  IInv' /\ Reports
  <1> DEFINE d == <<"pub", o, id>>
             ends(x) == x.cmd = "pub" /\ x.stage \in {"data", "given"}
             ended(x) == IF ends(x) THEN Done(x, "OK") ELSE x
             md == [modem EXCEPT !.duty = @ \ {d}]
  <1>1. m \in Record /\ Rules(m, modem) /\ modem \in Modems /\ Owned(modem) /\ Inv(m, modem)
    BY DEF IInv, Inv
  <1>2. PICK good \in BOOLEAN : m' = ended(Verdicts(m, id, good)) /\ modem' = md
    BY DEF PubLine, Verdicts
  <1> DEFINE y == Verdicts(m, id, good)
             z == ended(y)
  <1>3. /\ Inv(y, modem)
        /\ y.cmd = m.cmd /\ y.stage = m.stage /\ y.state = m.state
        /\ \/ Moves(m, y)
           \/ /\ m.active /\ m.prompt /\ id = m.msg
              /\ y.next = m.next /\ y.told = Append(m.told, "confirmed")
    BY <1>1, VerdictKeeps
  <1> HIDE DEF y
  <1>4. Inv(z, modem) /\ z.told = y.told /\ z.next = y.next /\ (Moves(m, y) => Moves(m, z))
    <2>1. CASE ends(y)
      <3>1. y \in Record /\ Publishing(y) /\ Rules(y, modem) /\ y.state # "CLOSING"
        BY <1>3, <2>1 DEF Inv, Rules, Commanding, Phased
      <3> DEFINE v == Done(y, "OK")
      <3>2. Ended(y, v, TRUE) /\ SamePublish(y, v)
        BY <3>1, DoneEnds, PublishingTells
      <3>3. z = v
        BY <2>1
      <3> HIDE DEF v, z
      <3>4. Rules(v, modem)
        BY <3>1, <3>2, DoneKeeps
      <3>5. QED  BY <3>2, <3>3, <3>4, MovesTwice DEF Ended, Inv, SamePublish
    <2>2. CASE ~ends(y)
      BY <1>3, <2>2
    <2>3. QED  BY <2>1, <2>2
  <1> HIDE DEF z
  <1>5. m' = z
    BY <1>2 DEF z, y
  <1>6. d \in modem.duty
    BY DEF PubLine
  <1>7. /\ modem' \in Modems /\ modem'.client = modem.client /\ modem'.opens = modem.opens
        /\ modem'.config = modem.config /\ modem'.duty = modem.duty \ {d}
    BY <1>1, <1>2 DEF Modems
  <1>8. OpenDuty(modem') \subseteq OpenDuty(modem)
    BY <1>7 DEF OpenDuty
  <1>9. Rules(z, modem')
    BY <1>4, <1>6, <1>7, <1>8, ModemKept DEF Inv
  <1>10. Owned(modem)'
    BY <1>1, <1>7 DEF Owned
  <1>11. Reports
    <2>1. CASE Moves(m, y)
      BY <1>4, <1>5, <2>1 DEF Reports
    <2>2. CASE m.active /\ m.prompt /\ id = m.msg
               /\ y.next = m.next /\ y.told = Append(m.told, "confirmed")
      <3>1. m.msg # 0 => d = <<"pub", m.msg, m.msg>>
        BY <1>1, <1>6, <2>2 DEF Owned
      <3>2. QED  BY <1>4, <1>5, <1>6, <1>7, <2>2, <3>1 DEF Reports, Confirms
    <2>3. QED  BY <1>3, <2>1, <2>2
  <1>12. QED  BY <1>4, <1>5, <1>7, <1>9, <1>10, <1>11 DEF IInv, Inv

LEMMA ModemResetStep ==
    ASSUME IInv, ModemReset
    PROVE  IInv' /\ Reports
  <1> DEFINE x == IF m.cmd = "none" THEN m ELSE Done(m, "ERROR")
             q == [x EXCEPT !.quarantined = FALSE]
             f == FailPublish(q)
             y == [f EXCEPT !.locked = FALSE, !.close = FALSE]
             state == IF y.enabled /\ ~y.paused /\ y.security /\ ~y.borrowed /\ ~y.quarantined
                      THEN "CONFIGURING"
                      ELSE IF y.paused THEN "PAUSED" ELSE "IDLE"
             z == Change(y, state)
  <1>1. /\ m \in Record /\ Publishing(m) /\ Rules(m, modem) /\ modem \in Modems
        /\ Says(z, "closed", {})
    BY DEF IInv, Inv, ModemReset, OnModemReset
  <1>2. x \in Record /\ Publishing(x) /\ Moves(m, x) /\ x.cmd = "none" /\ x.stage = "none"
    <2>1. CASE m.cmd = "none"
      BY <1>1, <2>1 DEF Rules, Commanding, Moves
    <2>2. CASE m.cmd # "none"
      <3> DEFINE d == Done(m, "ERROR")
      <3>1. Ended(m, d, FALSE)
        BY <1>1, DoneEnds, PublishingTells
      <3>2. x = d
        BY <2>2
      <3> HIDE DEF d, x
      <3>3. QED  BY <3>1, <3>2 DEF Ended
    <2>3. QED  BY <2>1, <2>2
  <1> HIDE DEF x
  <1>3. q \in Record
    BY <1>2 DEF Record
  <1>4. SamePublish(x, q) /\ q.cmd = "none" /\ q.stage = "none"
    BY <1>2 DEF Record, SamePublish
  <1> HIDE DEF q
  <1>5. Publishing(q) /\ Moves(m, q)
    BY <1>2, <1>4, PublishKept, MovesTwice
  <1>6. f \in Record /\ Publishing(f) /\ Moves(m, f) /\ f.cmd = "none" /\ f.stage = "none"
    <2>1. f \in Record /\ Publishing(f) /\ SameCore(q, f) /\ Moves(q, f)
      BY <1>3, <1>5, PublishFails, PublishingTells
    <2> HIDE DEF f
    <2>2. QED  BY <1>4, <1>5, <2>1, MovesTwice DEF SameCore
  <1> HIDE DEF f
  <1>7. y \in Record
    BY <1>6 DEF Record
  <1>8. SamePublish(f, y) /\ ~y.locked /\ ~y.close /\ y.cmd = "none" /\ y.stage = "none"
    BY <1>6 DEF Record, SamePublish
  <1> HIDE DEF y
  <1>9. /\ state \in {"CONFIGURING", "PAUSED", "IDLE"} /\ state \in State
        /\ state = "CONFIGURING" => ~y.borrowed
    BY DEF State, Rest
  <1> HIDE DEF state
  <1>10. Changed(y, z, state)
    BY <1>7, <1>9, Changes
  <1> HIDE DEF z
  <1>11. z \in Record /\ Publishing(z) /\ Moves(m, z)
    <2>1. SamePublish(f, z)
      BY <1>8, <1>10 DEF SamePublish, Changed
    <2>2. QED  BY <1>6, <1>10, <2>1, PublishKept, MovesTwice DEF Changed
  <1>12. "closed" \in Client /\ {} \in SUBSET Duties
    BY DEF Client
  <1>13. /\ m' = z /\ modem' \in Modems /\ modem'.client = "closed" /\ modem'.duty = {}
    BY <1>1, <1>12, SaysMakes
  <1>14. Commanding(z)
    BY <1>8, <1>9, <1>10 DEF Changed, Commanding, Rest
  <1>15. InPhase(z, modem')
    BY <1>9, <1>10, <1>13 DEF Changed, InPhase, Rest
  <1>16. Lent(z, modem')
    BY <1>8, <1>9, <1>10, <1>13 DEF Changed, Lent, Rest
  <1>17. Owned(modem)'
    BY <1>13 DEF Owned
  <1>18. QED  BY <1>11, <1>13, <1>14, <1>15, <1>16, <1>17 DEF IInv, Inv, Rules, Reports

LEMMA ModemStep ==
    ASSUME IInv, Modem
    PROVE  IInv' /\ Reports
  BY OkStep, ErrorStep, PromptStep, OpenLineStep, ConnLineStep, SubLineStep, PubLineStep,
     StatLineStep, ForgetStep, LoseStep, ModemResetStep
  DEF Modem, Lines

-----------------------------------------------------------------------------
LEMMA InitKeeps == Init => IInv
  <1> SUFFICES ASSUME Init PROVE IInv
    OBVIOUS
  <1> USE MqttAssumption
  <1>1. m \in Record
    BY DEF Init, Record, State, Rest, Step, Verdict, Command
  <1>2. Publishing(m)
    BY DEF Init, Publishing
  <1>3. modem \in Modems /\ Owned(modem)
    BY DEF Init, Modems, Client, Owned
  <1>4. Rules(m, modem)
    BY DEF Init, Rules, Commanding, InPhase, Lent, Rest
  <1>5. QED  BY <1>1, <1>2, <1>3, <1>4 DEF IInv, Inv

LEMMA StepKeeps ==
    ASSUME IInv, Next
    PROVE  IInv' /\ Reports
  BY PollStep, CallsStep, AtClientStep, ModemStep DEF Next

(* The invariant is kept by every step.                                    *)
LEMMA Kept == Spec => []IInv
  <1>1. IInv /\ UNCHANGED vars => IInv'
    BY DEF vars, IInv, Inv, Record, Publishing, Rules, Commanding, Phased, InPhase, Opens,
           Unsent, Closes, Lent, Modems, Owned
  <1>2. QED  BY <1>1, InitKeeps, StepKeeps, PTL DEF Spec

(* Every field of the transport and of the modem keeps its type, the       *)
(* report of a publish included (Poll, event, done).                       *)
THEOREM TypeCorrect == Spec => []TypeOK
  <1>1. IInv => TypeOK
    BY DEF IInv, Inv, TypeOK, Modems
  <1>2. QED  BY <1>1, Kept, PTL

(* The transport knows what client the modem has, whatever line is late    *)
(* and whatever command fails (Poll, event, fail_closed).                  *)
THEOREM ClientKnown == Spec => []ClientInStep
  <1>1. IInv => ClientInStep
    BY DEF IInv, Inv, Rules, Commanding, InPhase, ClientInStep
  <1>2. QED  BY <1>1, Kept, PTL

(* A lent receive buffer is not written to (BorrowWorkspace, Start,        *)
(* OnModemReset).                                                          *)
THEOREM LoanIsQuiet == Spec => []BorrowedIsQuiet
  <1>1. IInv => BorrowedIsQuiet
    BY DEF IInv, Inv, Rules, Lent, BorrowedIsQuiet, Rest
  <1>2. QED  BY <1>1, Kept, PTL

(* At rest nothing of the last session is at the AT client or to come from *)
(* the modem (Poll in RETRY_WAIT, Stop, Pause).                            *)
THEOREM StopsDrained == Spec => []RestIsDrained
  <1>1. IInv => RestIsDrained
    BY DEF IInv, Inv, Rules, Commanding, InPhase, Rest, RestIsDrained
  <1>2. QED  BY <1>1, Kept, PTL

(* A publish of QoS 1 is confirmed by the result line of its own number    *)
(* (event, +QMTPUBEX).                                                     *)
THEOREM ConfirmsOwn == Spec => ConfirmedByOwn
  <1>1. ASSUME IInv, Next, m.msg # 0, m'.told = Append(m.told, "confirmed")
        PROVE  <<"pub", m.msg, m.msg>> \in modem.duty \ modem'.duty
    <2>1. Reports /\ m.told \in Seq(Event)
      BY <1>1, StepKeeps DEF IInv, Inv, Record, Event
    <2>2. Append(m.told, "confirmed") # m.told /\ Append(m.told, "confirmed") # <<>>
      BY <2>1
    <2>3. /\ Append(m.told, "confirmed")[Len(m.told) + 1] = "confirmed"
          /\ Append(m.told, "failed")[Len(m.told) + 1] = "failed"
      BY <2>1 DEF Event
    <2>4. m.told = <<>> => Append(m.told, "confirmed") # <<"submitted">>
      OBVIOUS
    <2>5. ~Moves(m, m')
      BY <1>1, <2>2, <2>3 DEF Moves
    <2>6. QED  BY <1>1, <2>1, <2>2, <2>4, <2>5 DEF Reports, Confirms
  <1>2. IInv /\ [Next]_vars
        => [LET o == m.msg
            IN  o # 0 /\ m'.told = Append(m.told, "confirmed")
                => <<"pub", o, o>> \in modem.duty \ modem'.duty]_vars
    BY <1>1
  <1>3. QED  BY <1>2, Kept, PTL DEF Spec, ConfirmedByOwn

(* Each publish accepted is told of as the contract of the callback says:  *)
(* SUBMITTED once at most, then CONFIRMED or FAILED once (published, done, *)
(* fail_closed, CancelPublish, SetSecurityReady).                          *)
THEOREM KeepsContract == Spec => ImplementsPublishContract
  <1>1. Init => Contract!Init
    BY DEF Init, Contract!Init
  <1>2. ASSUME IInv, Next
        PROVE  Contract!Next \/ UNCHANGED <<m.next, m.told>>
    <2>1. Reports /\ m \in Record /\ Publishing(m)
      BY <1>2, StepKeeps DEF IInv, Inv
    <2>2. m.active => m.next > 0 /\ m.told \in {<<>>, <<"submitted">>}
                      /\ (m.prompt => m.told = <<"submitted">>)
      BY <2>1 DEF Publishing
    <2>3. m.active => ~Contract!Settled
      BY <2>2 DEF Contract!Settled
    <2>4. ~m.active => m.next = 0 \/ Contract!Settled
      BY <2>1 DEF Publishing, Contract!Settled
    <2>5. CASE Moves(m, m')
      BY <2>2, <2>3, <2>5 DEF Moves, Contract!Next, Contract!Tell
    <2>6. CASE ~m.active /\ m'.next = m.next + 1 /\ m.next < MaxOps /\ m'.told = <<>>
      BY <2>4, <2>6 DEF Contract!Next, Contract!Accept
    <2>7. CASE m.active /\ m.told = <<>> /\ m'.told = <<"submitted">> /\ m'.next = m.next
      <3>1. m'.told = Append(m.told, "submitted")
        BY <2>7
      <3>2. QED  BY <2>2, <2>3, <2>7, <3>1 DEF Contract!Next, Contract!Tell
    <2>8. CASE Confirms
      BY <2>2, <2>3, <2>8 DEF Confirms, Contract!Next, Contract!Tell
    <2>9. QED  BY <2>1, <2>5, <2>6, <2>7, <2>8 DEF Reports
  <1>3. IInv /\ [Next]_vars => [Contract!Next]_(Contract!vars)
    BY <1>2 DEF vars, Contract!vars
  <1>4. QED  BY <1>1, <1>3, Kept, PTL DEF Spec, ImplementsPublishContract, Contract!Spec
=============================================================================
