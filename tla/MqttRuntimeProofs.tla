-------------------------- MODULE MqttRuntimeProofs --------------------------
(***************************************************************************)
(* What MqttRuntime keeps for any set of configurations, any length of the *)
(* set-up of a TLS context and any number of disturbances.  The handlers   *)
(* are functions of the runtime's record: what each does to the command    *)
(* adapter, the lease and the binding is shown first (Line), then what     *)
(* each phase makes of it (Phases).                                        *)
(***************************************************************************)
EXTENDS MqttRuntime, TLAPS

MaybeConfig == Config \cup {NoConfig}

Record == [state : State, requested : MaybeConfig, active : BOOLEAN,
           staged : BOOLEAN, waiting : 0..2, active_tls : BOOLEAN, blocked : BOOLEAN,
           locked : BOOLEAN, probed : BOOLEAN, gate : BOOLEAN, applied : MaybeConfig,
           lease : Async \cup {"none"}, lease_waiting : BOOLEAN, step : 0..Steps,
           cred : MaybeConfig, bind : Async, bind_on : BOOLEAN,
           bind_waiting : BOOLEAN, pinned : BOOLEAN,
           op : {"none", "runtime", "lease", "bind"}, result : Async,
           cmd : Command \cup {"none"}, quarantined : BOOLEAN]

TlsCommand == {"context", "bind", "unbind"}
Busy == {"PREPARE", "BIND", "UNBIND", "STOP_UNBIND"}

(* The adapter, the lease and the binding of a record, against the modem.  *)
(* A command is in effect once it is answered OK; one that was given up    *)
(* may still come, and only under quarantine.                              *)
Line(x, md) ==
    /\ x.result = "OK" => x.cmd = "none"
    /\ x.result # "PENDING" /\ x.cmd # "none" => x.quarantined
    /\ x.lease_waiting => x.lease = "PENDING" /\ x.op = "lease"
    /\ x.bind_waiting => x.bind = "PENDING" /\ x.op = "bind"
    /\ x.lease_waiting /\ x.result = "PENDING" => x.cmd = "context"
    /\ x.bind_waiting /\ x.result = "PENDING" =>
          x.cmd = IF x.bind_on THEN "bind" ELSE "unbind"
    /\ x.cmd \in TlsCommand => x.lease_waiting \/ x.bind_waiting \/ x.quarantined
    /\ x.lease = "PENDING" => x.step < Steps
    /\ x.pinned => x.lease # "none"
    /\ x.lease = "OK" => x.cmd # "context" /\ md.context = x.cred
    /\ x.lease_waiting /\ x.result = "OK" /\ x.step + 1 = Steps => md.context = x.cred
    /\ x.bind_waiting /\ x.bind_on /\ x.result = "OK" => md.bound

Sound(x, md) == x \in Record /\ Line(x, md)

(* The phases: which of them may have the session, the gate, a lease or a  *)
(* binding under way.                                                      *)
Phases(x, md) ==
    /\ x.gate => x.state \in Connecting \cup {"READY"}
    /\ x.state \in Securing \cup {"UNBIND", "STOP_UNBIND"} => ~md.open
    /\ x.lease = "PENDING" => x.state = "PREPARE"
    /\ x.bind = "PENDING" => x.state \in Busy \ {"PREPARE"}
    /\ x.state \in {"PREPARE", "BIND"} => x.cred = x.requested
    /\ x.state \in Busy \ {"PREPARE"} => x.bind = "PENDING"
    /\ x.state = "BIND" => x.bind_on /\ x.pinned
    /\ x.cmd \in TlsCommand =>
          /\ x.state \in Busy \/ (x.state = "BLOCKED" /\ x.quarantined)
          /\ ~md.open
    /\ (x.gate \/ md.open) /\ x.applied \in Tls => md.bound /\ md.context = x.applied
    /\ x.locked => x.blocked
    /\ x.blocked => x.state \in {"BLOCKED", "FAILED"}
    /\ x.state = "STOP_WAIT_DRAIN" /\ ~x.active_tls => x.lease = "none"

Inv(x, md) == Sound(x, md) /\ Phases(x, md)

Modem == [open : BOOLEAN, bound : BOOLEAN, context : MaybeConfig]

IInv ==
    /\ Inv(r, modem) /\ modem \in Modem
    /\ option \in Option /\ allowed \in BOOLEAN /\ ca \in BOOLEAN /\ time \in BOOLEAN
    /\ faults \in 0..MaxFaults

-----------------------------------------------------------------------------
(* The fields a handler of the adapter leaves alone.                       *)
SameRest(x, y) ==
    /\ y.state = x.state /\ y.requested = x.requested /\ y.active = x.active
    /\ y.staged = x.staged /\ y.waiting = x.waiting /\ y.active_tls = x.active_tls
    /\ y.blocked = x.blocked /\ y.locked = x.locked /\ y.probed = x.probed
    /\ y.gate = x.gate /\ y.applied = x.applied

LEMMA SubmitRuntime ==
    ASSUME NEW x, NEW md, Sound(x, md), NEW cmd \in {"probe", "mode", "clock"},
           Free(x), ~x.lease_waiting, ~x.bind_waiting
    PROVE  LET y == Submit(x, "runtime", cmd) IN
           /\ Sound(y, md) /\ SameRest(x, y)
           /\ y.lease = x.lease /\ y.bind = x.bind /\ y.cred = x.cred /\ y.cmd = cmd
           /\ y.bind_on = x.bind_on /\ y.pinned = x.pinned
           /\ y.lease_waiting = x.lease_waiting /\ y.bind_waiting = x.bind_waiting
  <1> DEFINE y == [x EXCEPT !.op = "runtime", !.result = "PENDING", !.cmd = cmd]
  <1>1. x \in Record
    BY DEF Sound
  <1>2. "PENDING" \in Async /\ cmd \in Command
    BY DEF Async, Command
  <1>3. y \in Record
    BY <1>1, <1>2 DEF Record
  <1>4. /\ SameRest(x, y) /\ y.op = "runtime" /\ y.result = "PENDING" /\ y.cmd = cmd
        /\ y.lease = x.lease /\ y.bind = x.bind /\ y.cred = x.cred
        /\ y.bind_on = x.bind_on /\ y.pinned = x.pinned /\ y.step = x.step
        /\ y.lease_waiting = x.lease_waiting /\ y.bind_waiting = x.bind_waiting
        /\ y.quarantined = x.quarantined
    BY <1>1 DEF Record, SameRest
  <1>5. Submit(x, "runtime", cmd) = y
    BY DEF Submit
  <1> HIDE DEF y
  <1>6. Line(y, md)
    BY <1>4 DEF Sound, Line, TlsCommand
  <1>7. QED  BY <1>3, <1>4, <1>5, <1>6 DEF Sound

(* What giving up a command of one's own leaves.                           *)
GivenUp(x, y) ==
    /\ SameRest(x, y)
    /\ y.lease = x.lease /\ y.bind = x.bind /\ y.cred = x.cred /\ y.step = x.step
    /\ y.bind_on = x.bind_on /\ y.pinned = x.pinned /\ y.op = x.op
    /\ y.lease_waiting = x.lease_waiting /\ y.bind_waiting = x.bind_waiting
    /\ x.quarantined => y.quarantined
    /\ y.cmd \in {x.cmd, "none"}

LEMMA CancelGivesUp ==
    ASSUME NEW x, NEW md, Sound(x, md), NEW who, NEW wire \in BOOLEAN
    PROVE  LET y == Cancel(x, who, wire) IN
           /\ Sound(y, md) /\ GivenUp(x, y)
           /\ x.op = who /\ y.cmd # "none" => y.quarantined
  <1> DEFINE y == [x EXCEPT !.quarantined = TRUE, !.result = "FAILED"]
             z == [x EXCEPT !.result = "FAILED", !.cmd = "none"]
  <1>1. x \in Record /\ Line(x, md)
    BY DEF Sound
  <1>2. "FAILED" \in Async
    BY DEF Async
  <1>3. CASE Cancel(x, who, wire) = x /\ (x.op = who => x.quarantined \/ x.result # "PENDING")
    BY <1>1, <1>3 DEF GivenUp, SameRest, Line, Sound
  <1>4. CASE Cancel(x, who, wire) = y
    <2>1. y \in Record
      BY <1>1, <1>2 DEF Record
    <2>2. /\ SameRest(x, y) /\ y.op = x.op /\ y.result = "FAILED" /\ y.cmd = x.cmd
          /\ y.lease = x.lease /\ y.bind = x.bind /\ y.cred = x.cred
          /\ y.bind_on = x.bind_on /\ y.pinned = x.pinned /\ y.step = x.step
          /\ y.lease_waiting = x.lease_waiting /\ y.bind_waiting = x.bind_waiting
          /\ y.quarantined
      BY <1>1 DEF Record, SameRest
    <2> HIDE DEF y
    <2>3. Line(y, md)
      BY <1>1, <2>2 DEF Line
    <2>4. QED  BY <1>4, <2>1, <2>2, <2>3 DEF Sound, GivenUp
  <1>5. CASE Cancel(x, who, wire) = z
    <2>1. z \in Record
      BY <1>1, <1>2 DEF Record
    <2>2. /\ SameRest(x, z) /\ z.op = x.op /\ z.result = "FAILED" /\ z.cmd = "none"
          /\ z.lease = x.lease /\ z.bind = x.bind /\ z.cred = x.cred
          /\ z.bind_on = x.bind_on /\ z.pinned = x.pinned /\ z.step = x.step
          /\ z.lease_waiting = x.lease_waiting /\ z.bind_waiting = x.bind_waiting
          /\ z.quarantined = x.quarantined
      BY <1>1 DEF Record, SameRest
    <2> HIDE DEF z
    <2>3. Line(z, md)
      BY <1>1, <2>2 DEF Line, TlsCommand
    <2>4. QED  BY <1>5, <2>1, <2>2, <2>3 DEF Sound, GivenUp
  <1>6. QED  BY <1>3, <1>4, <1>5 DEF Cancel

(* A step of the lease, and one of the binding.                            *)
LeaseMoves(x, y) ==
    /\ SameRest(x, y) /\ y.cred = x.cred
    /\ y.bind = x.bind /\ y.bind_on = x.bind_on /\ y.bind_waiting = x.bind_waiting
    /\ y.pinned = x.pinned
    /\ y.cmd \in {x.cmd, "none", "context"}
    /\ y.cmd # "none" => y.cmd = x.cmd \/ y.lease = "PENDING"
    /\ x.quarantined => y.quarantined

BindMoves(x, y) ==
    /\ SameRest(x, y) /\ y.cred = x.cred
    /\ y.lease = x.lease /\ y.lease_waiting = x.lease_waiting /\ y.step = x.step
    /\ y.bind_on = x.bind_on
    /\ y.cmd \in {x.cmd, "none", "bind", "unbind"}
    /\ y.cmd # "none" => y.cmd = x.cmd \/ y.bind = "PENDING"
    /\ x.quarantined => y.quarantined

LEMMA LeaseStops ==
    ASSUME NEW x, NEW md, Sound(x, md), NEW wire \in BOOLEAN
    PROVE  LET y == LeaseStop(x, wire) IN
           /\ Sound(y, md) /\ LeaseMoves(x, y)
           /\ y.lease \in {"FAILED", "QUARANTINED"} /\ ~y.lease_waiting
  <1>1. CASE ~x.lease_waiting
    <2> DEFINE y == [x EXCEPT !.lease = "FAILED"]
    <2>1. y \in Record
      BY DEF Sound, Record, Async
    <2>2. /\ SameRest(x, y) /\ y.lease = "FAILED" /\ y.lease_waiting = x.lease_waiting
          /\ y.step = x.step /\ y.cred = x.cred /\ y.bind = x.bind /\ y.bind_on = x.bind_on
          /\ y.bind_waiting = x.bind_waiting /\ y.pinned = x.pinned /\ y.op = x.op
          /\ y.result = x.result /\ y.cmd = x.cmd /\ y.quarantined = x.quarantined
      BY DEF Sound, Record, SameRest
    <2>3. LeaseStop(x, wire) = y
      BY <1>1 DEF LeaseStop
    <2> HIDE DEF y
    <2>4. Line(y, md)
      BY <1>1, <2>2 DEF Sound, Line, TlsCommand
    <2>5. QED  BY <1>1, <2>1, <2>2, <2>3, <2>4 DEF Sound, LeaseMoves
  <1>2. CASE x.lease_waiting
    <2> DEFINE c == Cancel(x, "lease", wire)
               l == IF Drained(x, "lease", wire) THEN "FAILED" ELSE "QUARANTINED"
               y == [c EXCEPT !.lease = l, !.lease_waiting = FALSE]
    <2>1. /\ Sound(c, md) /\ GivenUp(x, c)
          /\ x.op = "lease" /\ c.cmd # "none" => c.quarantined
      BY CancelGivesUp
    <2>2. LeaseStop(x, wire) = y
      BY <1>2 DEF LeaseStop
    <2>3. l \in {"FAILED", "QUARANTINED"} /\ l \in Async
      BY DEF Async
    <2>4. x.op = "lease"
      BY <1>2 DEF Sound, Line
    <2> HIDE DEF c, l
    <2>5. y \in Record
      BY <2>1, <2>3 DEF Sound, Record
    <2>6. /\ SameRest(c, y) /\ y.lease = l /\ ~y.lease_waiting
          /\ y.step = c.step /\ y.cred = c.cred /\ y.bind = c.bind /\ y.bind_on = c.bind_on
          /\ y.bind_waiting = c.bind_waiting /\ y.pinned = c.pinned /\ y.op = c.op
          /\ y.result = c.result /\ y.cmd = c.cmd /\ y.quarantined = c.quarantined
      BY <2>1 DEF Sound, Record, SameRest
    <2> HIDE DEF y
    <2>7. Line(y, md)
      BY <2>1, <2>3, <2>4, <2>6 DEF Sound, Line, TlsCommand
    <2>8. LeaseMoves(x, y)
      BY <2>1, <2>6 DEF LeaseMoves, GivenUp, SameRest
    <2>9. QED  BY <2>2, <2>3, <2>5, <2>6, <2>7, <2>8 DEF Sound
  <1>3. QED  BY <1>1, <1>2 DEF Sound, Record

LEMMA LeaseGoesOn ==
    ASSUME NEW x, NEW md, Sound(x, md), x.lease = "PENDING" \/ x.step = Steps,
           ~x.lease_waiting, ~x.bind_waiting,
           x.lease = "PENDING" \/ (md.context = x.cred /\ x.cmd # "context"),
           x.step = Steps => md.context = x.cred /\ x.cmd # "context"
    PROVE  LET y == LeaseNext(x) IN
           /\ Sound(y, md) /\ LeaseMoves(x, y) /\ y.lease \in {x.lease, "OK"}
  <1> USE RuntimeAssumption
  <1>1. x \in Record /\ Line(x, md)
    BY DEF Sound
  <1>2. CASE x.step = Steps
    <2> DEFINE y == [x EXCEPT !.lease = "OK"]
    <2>1. y \in Record
      BY <1>1 DEF Record, Async
    <2>2. /\ SameRest(x, y) /\ y.lease = "OK" /\ y.lease_waiting = x.lease_waiting
          /\ y.step = x.step /\ y.cred = x.cred /\ y.bind = x.bind /\ y.bind_on = x.bind_on
          /\ y.bind_waiting = x.bind_waiting /\ y.pinned = x.pinned /\ y.op = x.op
          /\ y.result = x.result /\ y.cmd = x.cmd /\ y.quarantined = x.quarantined
      BY <1>1 DEF Record, SameRest
    <2>3. LeaseNext(x) = y
      BY <1>2 DEF LeaseNext
    <2> HIDE DEF y
    <2>4. Line(y, md)
      BY <1>1, <1>2, <2>2 DEF Line, TlsCommand
    <2>5. QED  BY <2>1, <2>2, <2>3, <2>4 DEF Sound, LeaseMoves
  <1>3. CASE x.step # Steps /\ Free(x)
    <2> DEFINE s == [x EXCEPT !.op = "lease", !.result = "PENDING", !.cmd = "context"]
               y == [s EXCEPT !.lease_waiting = TRUE]
    <2>a. "PENDING" \in Async /\ "context" \in Command
      BY DEF Async, Command
    <2>b. s \in Record
      BY <1>1, <2>a DEF Record
    <2>1. s \in Record /\ s.op = "lease" /\ s.result = "PENDING" /\ s.cmd = "context"
          /\ SameRest(x, s) /\ s.lease = x.lease
          /\ s.step = x.step /\ s.cred = x.cred /\ s.bind = x.bind /\ s.bind_on = x.bind_on
          /\ s.bind_waiting = x.bind_waiting /\ s.pinned = x.pinned
          /\ s.quarantined = x.quarantined
      BY <1>1, <2>b DEF Record, SameRest
    <2>2. LeaseNext(x) = y
      BY <1>3 DEF LeaseNext, Submit
    <2> HIDE DEF s
    <2>3. y \in Record
      BY <2>1 DEF Record
    <2>4. /\ SameRest(s, y) /\ y.lease = s.lease /\ y.lease_waiting
          /\ y.step = s.step /\ y.cred = s.cred /\ y.bind = s.bind /\ y.bind_on = s.bind_on
          /\ y.bind_waiting = s.bind_waiting /\ y.pinned = s.pinned /\ y.op = s.op
          /\ y.result = s.result /\ y.cmd = s.cmd /\ y.quarantined = s.quarantined
      BY <2>1 DEF Record, SameRest
    <2> HIDE DEF y
    <2>5. x.lease = "PENDING"
      BY <1>3
    <2>6. Line(y, md)
      BY <1>1, <2>1, <2>4, <2>5 DEF Line, TlsCommand
    <2>7. QED  BY <2>1, <2>2, <2>3, <2>4, <2>5, <2>6 DEF Sound, LeaseMoves, SameRest
  <1>4. CASE x.step # Steps /\ ~Free(x)
    <2>1. LeaseNext(x) = x
      BY <1>4 DEF LeaseNext
    <2>2. QED  BY <2>1 DEF LeaseMoves, SameRest
  <1>5. QED  BY <1>2, <1>3, <1>4

LEMMA LeasePolls ==
    ASSUME NEW x, NEW md, Sound(x, md), NEW w \in Turn, ~x.bind_waiting
    PROVE  LET y == LeasePoll(x, w) IN Sound(y, md) /\ LeaseMoves(x, y)
  <1> USE RuntimeAssumption
  <1>1. x \in Record /\ Line(x, md) /\ w.wire \in BOOLEAN
    BY DEF Sound, Turn
  <1>2. CASE LeasePoll(x, w) = x
    BY <1>2 DEF LeaseMoves, SameRest
  <1>3. CASE LeasePoll(x, w) = LeaseStop(x, w.wire)
    BY <1>1, <1>3, LeaseStops
  <1>4. CASE LeasePoll(x, w) = LeaseNext(x) /\ x.lease = "PENDING" /\ ~x.lease_waiting
    <2>1. x.step # Steps
      BY <1>1, <1>4 DEF Line
    <2>2. QED  BY <1>4, <2>1, LeaseGoesOn
  <1>5. CASE /\ x.lease = "PENDING" /\ x.lease_waiting /\ Outcome(x, "lease") = "OK"
             /\ LeasePoll(x, w) = LeaseNext([x EXCEPT !.lease_waiting = FALSE, !.step = @ + 1])
    <2> DEFINE n == x.step + 1
               z == [x EXCEPT !.lease_waiting = FALSE, !.step = n]
               y == LeaseNext(z)
    <2>1. x.op = "lease" /\ x.result = "OK" /\ x.cmd = "none"
      BY <1>1, <1>5 DEF Outcome, Line
    <2>2. n \in 1..Steps /\ (n = Steps => md.context = x.cred) /\ x.step \in 0..Steps
      BY <1>1, <1>5, <2>1 DEF Line, Record
    <2>3. LeasePoll(x, w) = y
      BY <1>5
    <2>a. n \in 0..Steps
      BY <2>2
    <2> HIDE DEF n
    <2>4. z \in Record
      BY <1>1, <2>a DEF Record
    <2>5. /\ SameRest(x, z) /\ z.lease = "PENDING" /\ ~z.lease_waiting
          /\ z.step = n /\ z.cred = x.cred /\ z.bind = x.bind /\ z.bind_on = x.bind_on
          /\ z.bind_waiting = x.bind_waiting /\ z.pinned = x.pinned /\ z.op = x.op
          /\ z.result = x.result /\ z.cmd = x.cmd /\ z.quarantined = x.quarantined
      BY <1>1, <1>5 DEF Record, SameRest
    <2> HIDE DEF z
    <2>6. CASE n < Steps
      <3>1. Line(z, md)
        BY <1>1, <2>1, <2>5, <2>6 DEF Line, TlsCommand
      <3>2. z.step # Steps
        BY <2>2, <2>5, <2>6
      <3>3. /\ Sound(y, md) /\ LeaseMoves(z, y)
        BY <2>4, <2>5, <3>1, <3>2, LeaseGoesOn DEF Sound
      <3>4. QED  BY <2>1, <2>3, <2>5, <3>3 DEF LeaseMoves, SameRest
    <2>7. CASE n = Steps
      <3> DEFINE v == [z EXCEPT !.lease = "OK"]
      <3>1. y = v
        BY <2>5, <2>7 DEF LeaseNext
      <3>2. v \in Record
        BY <2>4 DEF Record, Async
      <3>3. /\ SameRest(z, v) /\ v.lease = "OK" /\ v.lease_waiting = z.lease_waiting
            /\ v.step = z.step /\ v.cred = z.cred /\ v.bind = z.bind /\ v.bind_on = z.bind_on
            /\ v.bind_waiting = z.bind_waiting /\ v.pinned = z.pinned /\ v.op = z.op
            /\ v.result = z.result /\ v.cmd = z.cmd /\ v.quarantined = z.quarantined
        BY <2>4 DEF Record, SameRest
      <3> HIDE DEF v
      <3>4. Line(v, md)
        BY <1>1, <2>1, <2>2, <2>5, <2>7, <3>3 DEF Line, TlsCommand
      <3>5. QED  BY <2>1, <2>3, <2>5, <3>1, <3>2, <3>3, <3>4 DEF Sound, LeaseMoves, SameRest
    <2>8. QED  BY <2>2, <2>6, <2>7
  <1>6. QED  BY <1>2, <1>3, <1>4, <1>5 DEF LeasePoll

LEMMA BindStops ==
    ASSUME NEW x, NEW md, Sound(x, md), NEW wire \in BOOLEAN
    PROVE  LET y == BindStop(x, wire) IN
           /\ Sound(y, md) /\ BindMoves(x, y) /\ y.pinned = x.pinned
           /\ y.bind \in {"FAILED", "QUARANTINED"} /\ ~y.bind_waiting
  <1>1. CASE ~x.bind_waiting
    <2> DEFINE y == [x EXCEPT !.bind = "FAILED"]
    <2>1. y \in Record
      BY DEF Sound, Record, Async
    <2>2. /\ SameRest(x, y) /\ y.lease = x.lease /\ y.lease_waiting = x.lease_waiting
          /\ y.step = x.step /\ y.cred = x.cred /\ y.bind = "FAILED" /\ y.bind_on = x.bind_on
          /\ y.bind_waiting = x.bind_waiting /\ y.pinned = x.pinned /\ y.op = x.op
          /\ y.result = x.result /\ y.cmd = x.cmd /\ y.quarantined = x.quarantined
      BY DEF Sound, Record, SameRest
    <2>3. BindStop(x, wire) = y
      BY <1>1 DEF BindStop
    <2> HIDE DEF y
    <2>4. Line(y, md)
      BY <1>1, <2>2 DEF Sound, Line, TlsCommand
    <2>5. QED  BY <1>1, <2>1, <2>2, <2>3, <2>4 DEF Sound, BindMoves
  <1>2. CASE x.bind_waiting
    <2> DEFINE c == Cancel(x, "bind", wire)
               l == IF Drained(x, "bind", wire) THEN "FAILED" ELSE "QUARANTINED"
               y == [c EXCEPT !.bind = l, !.bind_waiting = FALSE]
    <2>1. /\ Sound(c, md) /\ GivenUp(x, c)
          /\ x.op = "bind" /\ c.cmd # "none" => c.quarantined
      BY CancelGivesUp
    <2>2. BindStop(x, wire) = y
      BY <1>2 DEF BindStop
    <2>3. l \in {"FAILED", "QUARANTINED"} /\ l \in Async
      BY DEF Async
    <2>4. x.op = "bind"
      BY <1>2 DEF Sound, Line
    <2> HIDE DEF c, l
    <2>5. y \in Record
      BY <2>1, <2>3 DEF Sound, Record
    <2>6. /\ SameRest(c, y) /\ y.lease = c.lease /\ y.lease_waiting = c.lease_waiting
          /\ y.step = c.step /\ y.cred = c.cred /\ y.bind = l /\ y.bind_on = c.bind_on
          /\ ~y.bind_waiting /\ y.pinned = c.pinned /\ y.op = c.op
          /\ y.result = c.result /\ y.cmd = c.cmd /\ y.quarantined = c.quarantined
      BY <2>1 DEF Sound, Record, SameRest
    <2> HIDE DEF y
    <2>7. Line(y, md)
      BY <2>1, <2>3, <2>4, <2>6 DEF Sound, Line, TlsCommand
    <2>8. BindMoves(x, y) /\ y.pinned = x.pinned
      BY <2>1, <2>6 DEF BindMoves, GivenUp, SameRest
    <2>9. QED  BY <2>2, <2>3, <2>5, <2>6, <2>7, <2>8 DEF Sound
  <1>3. QED  BY <1>1, <1>2 DEF Sound, Record
LEMMA BindPolls ==
    ASSUME NEW x, NEW md, Sound(x, md), NEW w \in Turn, x.bind = "PENDING", ~x.lease_waiting
    PROVE  LET y == BindPoll(x, w) IN
           /\ Sound(y, md) /\ BindMoves(x, y)
           /\ y.bind = "PENDING" => y.pinned = x.pinned
           /\ y.bind = "OK" =>
                 /\ y.cmd = "none"
                 /\ x.pinned => x.lease = "OK"
                 /\ x.bind_on => md.bound
  <1>1. x \in Record /\ Line(x, md) /\ w.wire \in BOOLEAN
    BY DEF Sound, Turn
  <1>2. CASE BindPoll(x, w) = x
    BY <1>2 DEF BindMoves, SameRest
  <1>3. CASE BindPoll(x, w) = BindStop(x, w.wire)
    BY <1>1, <1>3, BindStops
  <1>4. CASE /\ ~x.bind_waiting /\ Free(x)
             /\ BindPoll(x, w) = [Submit(x, "bind", IF x.bind_on THEN "bind" ELSE "unbind")
                                    EXCEPT !.bind_waiting = TRUE]
    <2> DEFINE k == IF x.bind_on THEN "bind" ELSE "unbind"
               s == [x EXCEPT !.op = "bind", !.result = "PENDING", !.cmd = k]
               y == [s EXCEPT !.bind_waiting = TRUE]
    <2>1. "PENDING" \in Async /\ k \in Command /\ k \in {"bind", "unbind"}
      BY DEF Async, Command
    <2>2. BindPoll(x, w) = y
      BY <1>4 DEF Submit
    <2>k. k = IF x.bind_on THEN "bind" ELSE "unbind"
      OBVIOUS
    <2> HIDE DEF k
    <2>3. s \in Record
      BY <1>1, <2>1 DEF Record
    <2>4. /\ SameRest(x, s) /\ s.op = "bind" /\ s.result = "PENDING" /\ s.cmd = k
          /\ s.lease = x.lease /\ s.lease_waiting = x.lease_waiting
          /\ s.step = x.step /\ s.cred = x.cred /\ s.bind = x.bind /\ s.bind_on = x.bind_on
          /\ s.pinned = x.pinned /\ s.quarantined = x.quarantined
      BY <1>1 DEF Record, SameRest
    <2> HIDE DEF s
    <2>5. y \in Record
      BY <2>3 DEF Record
    <2>6. /\ SameRest(s, y) /\ y.op = s.op /\ y.result = s.result /\ y.cmd = s.cmd
          /\ y.lease = s.lease /\ y.lease_waiting = s.lease_waiting
          /\ y.step = s.step /\ y.cred = s.cred /\ y.bind = s.bind /\ y.bind_on = s.bind_on
          /\ y.bind_waiting /\ y.pinned = s.pinned /\ y.quarantined = s.quarantined
      BY <2>3 DEF Record, SameRest
    <2> HIDE DEF y
    <2>7. Line(y, md)
      BY <1>1, <2>1, <2>4, <2>6, <2>k DEF Line, TlsCommand
    <2>8. BindMoves(x, y)
      BY <2>1, <2>4, <2>6 DEF BindMoves, SameRest
    <2>9. QED  BY <2>2, <2>4, <2>5, <2>6, <2>7, <2>8 DEF Sound
  <1>5. CASE /\ ~(x.pinned /\ x.lease # "OK") /\ x.bind_waiting /\ Outcome(x, "bind") = "OK"
             /\ BindPoll(x, w) = [x EXCEPT !.bind_waiting = FALSE, !.bind = "OK",
                                          !.pinned = @ /\ x.bind_on]
    <2> DEFINE p == x.pinned /\ x.bind_on
               y == [x EXCEPT !.bind_waiting = FALSE, !.bind = "OK", !.pinned = p]
    <2>1. x.result = "OK" /\ x.cmd = "none" /\ x.op = "bind"
      BY <1>1, <1>5 DEF Outcome, Line
    <2>2. p \in BOOLEAN /\ "OK" \in Async
      BY DEF Async
    <2>3. BindPoll(x, w) = y
      BY <1>5
    <2>p. p => x.pinned
      OBVIOUS
    <2> HIDE DEF p
    <2>4. y \in Record
      BY <1>1, <2>2 DEF Record
    <2>5. /\ SameRest(x, y) /\ y.op = x.op /\ y.result = x.result /\ y.cmd = x.cmd
          /\ y.lease = x.lease /\ y.lease_waiting = x.lease_waiting
          /\ y.step = x.step /\ y.cred = x.cred /\ y.bind = "OK" /\ y.bind_on = x.bind_on
          /\ ~y.bind_waiting /\ y.pinned = p /\ y.quarantined = x.quarantined
      BY <1>1 DEF Record, SameRest
    <2> HIDE DEF y
    <2>6. Line(y, md)
      BY <1>1, <2>1, <2>5, <2>p DEF Line, TlsCommand
    <2>7. BindMoves(x, y)
      BY <2>5 DEF BindMoves
    <2>8. x.bind_on => md.bound
      BY <1>1, <1>5, <2>1 DEF Line
    <2>9. QED  BY <1>5, <2>1, <2>3, <2>4, <2>5, <2>6, <2>7, <2>8, <2>p DEF Sound
  <1>6. QED  BY <1>2, <1>3, <1>4, <1>5 DEF BindPoll

-----------------------------------------------------------------------------
(* What the rest of the runtime does with the record.  A handler that does *)
(* not touch the adapter, the lease or the binding leaves Line as it is.   *)
SameLine(x, y) ==
    /\ y.lease = x.lease /\ y.lease_waiting = x.lease_waiting /\ y.step = x.step
    /\ y.cred = x.cred /\ y.bind = x.bind /\ y.bind_on = x.bind_on
    /\ y.bind_waiting = x.bind_waiting /\ y.pinned = x.pinned
    /\ y.op = x.op /\ y.result = x.result /\ y.cmd = x.cmd /\ y.quarantined = x.quarantined

(* Nothing of the lease or the binding is under way.                       *)
Idle(x) == x.lease # "PENDING" /\ x.bind # "PENDING"

(* What the gate and an open session promise.                              *)
Session(x, md) ==
    (x.gate \/ md.open) /\ x.applied \in Tls => md.bound /\ md.context = x.applied

LEMMA LineKept ==
    ASSUME NEW x, NEW y, NEW md, Line(x, md), SameLine(x, y)
    PROVE  Line(y, md)
  BY DEF Line, SameLine

(* A record at rest in a phase without lease and binding.                  *)
LEMMA Calm ==
    ASSUME NEW x, NEW md, Sound(x, md), Idle(x), x.state \in State \ (Busy \cup {"BLOCKED"}),
           x.state # "STOP_WAIT_DRAIN", x.cmd \notin TlsCommand,
           x.gate => x.state \in Connecting \cup {"READY"},
           x.state \in Securing => ~md.open, Session(x, md),
           x.locked => x.blocked, x.blocked => x.state = "FAILED"
    PROVE  Inv(x, md)
  BY DEF Inv, Phases, Idle, Session, Busy, Connecting, Securing, Sound, Line

LEMMA FailKeeps ==
    ASSUME NEW x, NEW md, Sound(x, md), Idle(x), x.cmd \in TlsCommand => ~md.open,
           Session(x, md), x.locked => x.blocked
    PROVE  Inv(Fail(x), md)
  <1> DEFINE unsafe == x.state \in Leaving \/ x.quarantined
             s == IF unsafe THEN "BLOCKED" ELSE "FAILED"
             b == x.blocked \/ unsafe
             y == [x EXCEPT !.gate = FALSE, !.waiting = 0, !.blocked = b, !.state = s]
  <1>1. x \in Record /\ Line(x, md)
    BY DEF Sound
  <1>2. s \in State /\ b \in BOOLEAN /\ s \in {"BLOCKED", "FAILED"}
        /\ (x.quarantined => s = "BLOCKED") /\ (x.blocked => b)
    BY <1>1 DEF State, Resting, Record
  <1>3. Fail(x) = y
    BY <1>1 DEF Fail, Shut, Record
  <1> HIDE DEF s, b
  <1>a. 0 \in 0..2
    OBVIOUS
  <1>4. y \in Record
    BY <1>1, <1>2, <1>a DEF Record
  <1>5. /\ SameLine(x, y) /\ ~y.gate /\ y.blocked = b /\ y.state = s
        /\ y.locked = x.locked /\ y.applied = x.applied
    BY <1>1 DEF Record, SameLine
  <1> HIDE DEF y
  <1>6. Line(y, md)
    BY <1>1, <1>5, LineKept
  <1>7. Phases(y, md)
    <2>1. y.cmd \in TlsCommand => y.quarantined
      BY <1>1, <1>5 DEF Idle, Line, SameLine
    <2>2. QED  BY <1>2, <1>5, <2>1 DEF Phases, Idle, Session, SameLine, Busy, Securing
  <1>8. QED  BY <1>3, <1>4, <1>6, <1>7 DEF Inv, Sound
LEMMA CancelledIdle ==
    ASSUME NEW x, NEW md, Sound(x, md), NEW wire \in BOOLEAN
    PROVE  LET y == Cancelled(x, wire) IN
           Sound(y, md) /\ Idle(y) /\ SameRest(x, y) /\ y.cmd \in {x.cmd, "none"}
  <1> DEFINE b == IF x.bind = "PENDING" THEN BindStop(x, wire) ELSE x
             l == IF b.lease = "PENDING" THEN LeaseStop(b, wire) ELSE b
             y == Cancel(l, l.op, wire)
  <1>1. /\ Sound(b, md) /\ b.bind # "PENDING" /\ SameRest(x, b) /\ b.cmd \in {x.cmd, "none"}
    <2>1. CASE x.bind = "PENDING"
      <3>1. LET z == BindStop(x, wire) IN
              /\ Sound(z, md) /\ BindMoves(x, z) /\ z.bind \in {"FAILED", "QUARANTINED"}
        BY BindStops
      <3>2. QED  BY <2>1, <3>1 DEF BindMoves
    <2>2. CASE x.bind # "PENDING"
      BY <2>2 DEF SameRest
    <2>3. QED  BY <2>1, <2>2
  <1> HIDE DEF b
  <1>2. /\ Sound(l, md) /\ Idle(l) /\ SameRest(x, l) /\ l.cmd \in {x.cmd, "none"}
    <2>1. CASE b.lease = "PENDING"
      <3>1. LET z == LeaseStop(b, wire) IN
              /\ Sound(z, md) /\ LeaseMoves(b, z) /\ z.lease \in {"FAILED", "QUARANTINED"}
        BY <1>1, LeaseStops
      <3>2. QED  BY <1>1, <2>1, <3>1 DEF LeaseMoves, SameRest, Idle
    <2>2. CASE b.lease # "PENDING"
      BY <1>1, <2>2 DEF Idle
    <2>3. QED  BY <2>1, <2>2
  <1>3. Cancelled(x, wire) = y
    BY DEF Cancelled, b
  <1> HIDE DEF l
  <1>4. Sound(y, md) /\ GivenUp(l, y)
    BY <1>2, CancelGivesUp
  <1>5. QED  BY <1>2, <1>3, <1>4 DEF GivenUp, SameRest, Idle

LEMMA BlockKeeps ==
    ASSUME NEW x, NEW md, Inv(x, md), NEW wire \in BOOLEAN
    PROVE  Inv(Block(x, wire), md)
  <1>1. CASE x.locked
    BY <1>1 DEF Block
  <1>2. CASE ~x.locked
    <2> DEFINE c == Cancelled(x, wire)
               y == [c EXCEPT !.gate = FALSE, !.blocked = TRUE, !.locked = TRUE,
                              !.waiting = 0, !.state = "BLOCKED"]
    <2>1. Sound(c, md) /\ Idle(c) /\ SameRest(x, c) /\ c.cmd \in {x.cmd, "none"}
      BY CancelledIdle DEF Inv
    <2> HIDE DEF c
    <2>2. c \in Record /\ Line(c, md)
      BY <2>1 DEF Sound
    <2>3. Block(x, wire) = y
      BY <1>2, <2>2 DEF Block, Shut, c, Record
    <2>4. 0 \in 0..2 /\ "BLOCKED" \in State
      BY DEF State, Resting
    <2>5. y \in Record
      BY <2>2, <2>4 DEF Record
    <2>6. /\ SameLine(c, y) /\ ~y.gate /\ y.blocked /\ y.state = "BLOCKED"
          /\ y.locked /\ y.applied = c.applied
      BY <2>2 DEF Record, SameLine
    <2> HIDE DEF y
    <2>7. Line(y, md)
      BY <2>2, <2>6, LineKept
    <2>8. y.cmd \in TlsCommand => y.quarantined /\ ~md.open
      BY <2>1, <2>2, <2>6 DEF Idle, Line, SameLine, Inv, Phases, TlsCommand
    <2>9. Session(y, md)
      BY <2>1, <2>6 DEF Inv, Phases, Session, SameRest
    <2>10. Phases(y, md)
      BY <2>1, <2>6, <2>8, <2>9 DEF Phases, Idle, Session, SameLine, Busy, Securing
    <2>11. QED  BY <2>3, <2>5, <2>7, <2>10 DEF Inv, Sound
  <1>3. QED  BY <1>1, <1>2 DEF Inv, Sound, Record

LEMMA PreparedKeeps ==
    ASSUME NEW x, NEW md, Sound(x, md), Idle(x), x.cmd \notin TlsCommand,
           ~x.locked, ~x.blocked,
           x.requested \in Tls => md.bound /\ md.context = x.requested
    PROVE  Inv(Prepared(x), md)
  <1> DEFINE y == [x EXCEPT !.applied = x.requested, !.gate = TRUE, !.state = "PREPARED"]
  <1>1. x \in Record /\ Line(x, md)
    BY DEF Sound
  <1>2. "PREPARED" \in State /\ x.requested \in MaybeConfig
    BY <1>1 DEF State, Connecting, Record
  <1>3. Prepared(x) = y
    BY DEF Prepared
  <1>4. y \in Record
    BY <1>1, <1>2 DEF Record
  <1>5. /\ SameLine(x, y) /\ y.gate /\ y.state = "PREPARED"
        /\ y.locked = x.locked /\ y.blocked = x.blocked /\ y.applied = x.requested
    BY <1>1 DEF Record, SameLine
  <1> HIDE DEF y
  <1>6. Line(y, md)
    BY <1>1, <1>5, LineKept
  <1>7. QED  BY <1>2, <1>3, <1>4, <1>5, <1>6, Calm
             DEF Sound, Idle, Session, SameLine, Busy, Connecting, Securing

(* start, from a phase in which the transport is closed.                   *)
LEMMA StartKeeps ==
    ASSUME NEW x, NEW md, Sound(x, md), Idle(x), x.cmd \notin TlsCommand,
           ~x.locked, ~x.blocked,
           ~x.gate, ~md.open, NEW w \in Turn, allowed
    PROVE  Inv(Start(x, w, TRUE), md) /\ Inv(Start(x, w, ~md.open), md)
  <1>1. x \in Record /\ Line(x, md)
    BY DEF Sound
  <1>2. Inv(Fail(x), md)
    BY <1>1, FailKeeps DEF Session
  <1>3. CASE x.requested \in Tls
    <2> DEFINE y == [x EXCEPT !.state = "WAIT_CA"]
    <2>1. "WAIT_CA" \in State
      BY DEF State, Securing
    <2>2. y \in Record
      BY <1>1, <2>1 DEF Record
    <2>3. /\ SameLine(x, y) /\ y.gate = x.gate /\ y.state = "WAIT_CA"
          /\ y.locked = x.locked /\ y.blocked = x.blocked /\ y.applied = x.applied
      BY <1>1 DEF Record, SameLine
    <2>4. Start(x, w, TRUE) = y /\ Start(x, w, ~md.open) = y
      BY <1>3 DEF Start
    <2> HIDE DEF y
    <2>5. Line(y, md)
      BY <1>1, <2>3, LineKept
    <2>6. QED  BY <2>1, <2>2, <2>3, <2>4, <2>5, Calm
               DEF Sound, Idle, Session, SameLine, Busy
  <1>4. CASE x.requested \notin Tls
    <2> DEFINE y == [x EXCEPT !.active_tls = FALSE]
    <2>1. y \in Record
      BY <1>1 DEF Record
    <2>2. /\ SameLine(x, y) /\ y.locked = x.locked /\ y.blocked = x.blocked
          /\ y.requested = x.requested
      BY <1>1 DEF Record, SameLine
    <2>3. /\ Start(x, w, TRUE) \in {Prepared(y), Fail(x)}
          /\ Start(x, w, ~md.open) \in {Prepared(y), Fail(x)}
      BY <1>4 DEF Start
    <2> HIDE DEF y
    <2>4. Line(y, md)
      BY <1>1, <2>2, LineKept
    <2>5. Inv(Prepared(y), md)
      BY <1>4, <2>1, <2>2, <2>4, PreparedKeeps DEF Sound, Idle, SameLine
    <2>6. QED  BY <1>2, <2>3, <2>5
  <1>5. QED  BY <1>3, <1>4
LEMMA PrepareKeeps ==
    ASSUME NEW x, NEW md, Inv(x, md), x.state \in {"WAIT_CA", "CLOCK"}
    PROVE  Inv(PrepareTls(x), md)
  <1> USE RuntimeAssumption
  <1>1. x \in Record /\ Line(x, md)
    BY DEF Inv, Sound
  <1>2. Idle(x) /\ x.cmd \notin TlsCommand /\ ~x.gate /\ ~md.open /\ ~x.locked /\ ~x.blocked
    BY DEF Inv, Phases, Idle, Busy, Securing, Connecting
  <1>3. Inv(Fail(x), md)
    BY <1>1, <1>2, FailKeeps DEF Sound, Session
  <1>4. x.lease # "none" \/ Inv(Fail([x EXCEPT !.lease = "IDLE"]), md)
    <2> DEFINE y == [x EXCEPT !.lease = "IDLE"]
    <2>1. "IDLE" \in Async
      BY DEF Async
    <2>2. y \in Record
      BY <1>1, <2>1 DEF Record
    <2>3. /\ SameRest(x, y) /\ y.op = x.op /\ y.result = x.result /\ y.cmd = x.cmd
          /\ y.lease = "IDLE" /\ y.lease_waiting = x.lease_waiting
          /\ y.step = x.step /\ y.cred = x.cred /\ y.bind = x.bind /\ y.bind_on = x.bind_on
          /\ y.bind_waiting = x.bind_waiting /\ y.pinned = x.pinned
          /\ y.quarantined = x.quarantined
      BY <1>1 DEF Record, SameRest
    <2> HIDE DEF y
    <2>4. x.lease = "none" => Line(y, md)
      BY <1>1, <2>3 DEF Line
    <2>5. QED  BY <1>2, <2>2, <2>3, <2>4, FailKeeps DEF Sound, Session, Idle, SameRest, y
  <1>5. x.lease # "none" \/
        Inv([x EXCEPT !.lease = "PENDING", !.cred = x.requested, !.step = 0, !.state = "PREPARE"], md)
    <2> DEFINE y == [x EXCEPT !.lease = "PENDING", !.cred = x.requested, !.step = 0,
                              !.state = "PREPARE"]
    <2>1. /\ "PENDING" \in Async /\ "PREPARE" \in State /\ 0 \in 0..Steps
          /\ x.requested \in MaybeConfig
      BY <1>1 DEF Async, State, Securing, Record
    <2>2. y \in Record
      BY <1>1, <2>1 DEF Record
    <2>3. /\ y.state = "PREPARE" /\ y.gate = x.gate /\ y.locked = x.locked
          /\ y.blocked = x.blocked
          /\ y.requested = x.requested /\ y.op = x.op /\ y.result = x.result /\ y.cmd = x.cmd
          /\ y.lease = "PENDING" /\ y.lease_waiting = x.lease_waiting
          /\ y.step = 0 /\ y.cred = x.requested /\ y.bind = x.bind /\ y.bind_on = x.bind_on
          /\ y.bind_waiting = x.bind_waiting /\ y.pinned = x.pinned
          /\ y.quarantined = x.quarantined
      BY <1>1 DEF Record
    <2> HIDE DEF y
    <2>4. x.lease = "none" => Line(y, md)
      BY <1>1, <2>3 DEF Line
    <2>5. Phases(y, md)
      BY <1>2, <2>3 DEF Phases, Idle, Busy, Securing
    <2>6. QED  BY <2>2, <2>4, <2>5 DEF Inv, Sound, y
  <1>6. QED  BY <1>3, <1>4, <1>5 DEF PrepareTls

LEMMA UnbindKeeps ==
    ASSUME NEW x, NEW md, Sound(x, md), Idle(x), x.cmd \notin TlsCommand,
           ~x.locked, ~x.blocked,
           ~x.gate, ~md.open, NEW s \in {"UNBIND", "STOP_UNBIND"}
    PROVE  Inv(Unbind(x, s), md)
  <1>1. x \in Record /\ Line(x, md)
    BY DEF Sound
  <1>2. Inv(Fail(x), md)
    BY FailKeeps DEF Session
  <1>3. Inv([Begin(x, FALSE) EXCEPT !.state = s], md)
    <2> DEFINE z == [x EXCEPT !.bind = "PENDING", !.bind_on = FALSE, !.bind_waiting = FALSE]
               y == [z EXCEPT !.state = s]
    <2>1. "PENDING" \in Async /\ s \in State
      BY DEF Async, State, Leaving, Stopping
    <2>2. /\ z \in Record
      BY <1>1, <2>1 DEF Record
    <2>3. /\ z.gate = x.gate /\ z.locked = x.locked /\ z.blocked = x.blocked
          /\ z.applied = x.applied
          /\ z.op = x.op /\ z.result = x.result /\ z.cmd = x.cmd
          /\ z.lease = x.lease /\ z.lease_waiting = x.lease_waiting
          /\ z.step = x.step /\ z.cred = x.cred /\ z.bind = "PENDING" /\ ~z.bind_on
          /\ ~z.bind_waiting /\ z.pinned = x.pinned /\ z.quarantined = x.quarantined
      BY <1>1 DEF Record
    <2> HIDE DEF z
    <2>4. y \in Record
      BY <2>1, <2>2 DEF Record
    <2>5. /\ SameLine(z, y) /\ y.gate = z.gate /\ y.state = s
          /\ y.locked = z.locked /\ y.blocked = z.blocked /\ y.applied = z.applied
      BY <2>2 DEF Record, SameLine
    <2> HIDE DEF y
    <2>6. Line(z, md)
      BY <1>1, <2>3 DEF Line, TlsCommand
    <2>7. Line(y, md)
      BY <2>5, <2>6, LineKept
    <2>8. Phases(y, md)
      BY <2>3, <2>5 DEF Phases, Idle, Busy, Securing, SameLine
    <2>9. QED  BY <2>4, <2>7, <2>8 DEF Inv, Sound, Begin, y, z
  <1>4. QED  BY <1>2, <1>3 DEF Unbind

LEMMA StopCompleteKeeps ==
    ASSUME NEW x, NEW md, Sound(x, md), Idle(x), x.cmd \notin TlsCommand,
           ~x.locked, ~x.blocked,
           ~x.gate, Session(x, md)
    PROVE  Inv(StopComplete(x), md)
  <1> DEFINE y == [x EXCEPT !.active = FALSE, !.requested = NoConfig, !.staged = FALSE,
                            !.active_tls = FALSE, !.waiting = 0, !.state = "UNENROLLED"]
  <1>1. x \in Record /\ Line(x, md)
    BY DEF Sound
  <1>2. "UNENROLLED" \in State /\ NoConfig \in MaybeConfig /\ 0 \in 0..2
    BY DEF State, Resting, MaybeConfig
  <1>3. StopComplete(x) = y
    BY DEF StopComplete
  <1>4. y \in Record
    BY <1>1, <1>2 DEF Record
  <1>5. /\ SameLine(x, y) /\ y.gate = x.gate /\ y.state = "UNENROLLED"
        /\ y.locked = x.locked /\ y.blocked = x.blocked /\ y.applied = x.applied
    BY <1>1 DEF Record, SameLine
  <1> HIDE DEF y
  <1>6. Line(y, md)
    BY <1>1, <1>5, LineKept
  <1>7. QED  BY <1>2, <1>3, <1>4, <1>5, <1>6, Calm
             DEF Sound, Idle, Session, SameLine, Busy, Securing

(* The lease is given back once the binding is undone.                     *)
LEMMA ReleasedKeeps ==
    ASSUME NEW x, NEW md, Sound(x, md), x.lease # "PENDING", ~x.pinned
    PROVE  LET y == Released(x) IN
           /\ Sound(y, md) /\ SameRest(x, y) /\ y.lease = "none" /\ ~y.pinned
           /\ y.bind = x.bind /\ y.cmd = x.cmd
  <1> DEFINE y == [x EXCEPT !.lease = "none", !.cred = NoConfig, !.step = 0]
  <1>1. x \in Record /\ Line(x, md)
    BY DEF Sound
  <1>2. NoConfig \in MaybeConfig /\ 0 \in 0..Steps
    BY RuntimeAssumption DEF MaybeConfig
  <1>3. y \in Record
    BY <1>1, <1>2 DEF Record
  <1>4. /\ SameRest(x, y) /\ y.op = x.op /\ y.result = x.result /\ y.cmd = x.cmd
        /\ y.lease = "none" /\ y.lease_waiting = x.lease_waiting
        /\ y.step = 0 /\ y.bind = x.bind /\ y.bind_on = x.bind_on
        /\ y.bind_waiting = x.bind_waiting /\ y.pinned = x.pinned
        /\ y.quarantined = x.quarantined
    BY <1>1 DEF Record, SameRest
  <1>5. Released(x) = y
    BY DEF Released
  <1> HIDE DEF y
  <1>6. Line(y, md)
    BY <1>1, <1>4 DEF Line
  <1>7. QED  BY <1>3, <1>4, <1>5, <1>6 DEF Sound

-----------------------------------------------------------------------------
(* A change of phase alone, to one that neither leases nor binds.          *)
LEMMA PhaseKeeps ==
    ASSUME NEW x, NEW md, Sound(x, md), Idle(x), x.cmd \notin TlsCommand,
           ~x.locked, ~x.blocked,
           Session(x, md), NEW s \in State \ (Busy \cup {"BLOCKED"}), s # "STOP_WAIT_DRAIN",
           x.gate => s \in Connecting \cup {"READY"}, s \in Securing => ~md.open
    PROVE  Inv([x EXCEPT !.state = s], md)
  <1> DEFINE y == [x EXCEPT !.state = s]
  <1>1. x \in Record /\ Line(x, md)
    BY DEF Sound
  <1>2. y \in Record
    BY <1>1 DEF Record
  <1>3. /\ SameLine(x, y) /\ y.gate = x.gate /\ y.state = s
        /\ y.locked = x.locked /\ y.blocked = x.blocked /\ y.applied = x.applied
    BY <1>1 DEF Record, SameLine
  <1> HIDE DEF y
  <1>4. Line(y, md)
    BY <1>1, <1>3, LineKept
  <1>5. Inv(y, md)
    BY <1>2, <1>3, <1>4, Calm DEF Sound, Idle, Session, SameLine
  <1>6. QED  BY <1>5 DEF y

LEMMA ActivatedKeeps ==
    ASSUME NEW x, NEW md, Sound(x, md), Idle(x), x.cmd \notin TlsCommand,
           ~x.locked, ~x.blocked,
           Session(x, md)
    PROVE  Inv(Activated(x), md)
  <1> DEFINE y == [x EXCEPT !.gate = FALSE, !.staged = FALSE, !.waiting = 0,
                            !.state = "DISCONNECT"]
  <1>1. x \in Record /\ Line(x, md)
    BY DEF Sound
  <1>2. 0 \in 0..2 /\ "DISCONNECT" \in State
    BY DEF State, Leaving
  <1>3. y \in Record
    BY <1>1, <1>2 DEF Record
  <1>4. /\ SameLine(x, y) /\ ~y.gate /\ y.state = "DISCONNECT"
        /\ y.locked = x.locked /\ y.blocked = x.blocked /\ y.applied = x.applied
    BY <1>1 DEF Record, SameLine
  <1>5. Activated(x) = y
    BY <1>1 DEF Activated, Shut, Record
  <1> HIDE DEF y
  <1>6. Line(y, md)
    BY <1>1, <1>4, LineKept
  <1>7. QED  BY <1>2, <1>3, <1>4, <1>5, <1>6, Calm
             DEF Sound, Idle, Session, SameLine, Busy, Securing

LEMMA Quiet ==
    ASSUME NEW x, NEW md, Inv(x, md), x.state \notin Busy \cup {"BLOCKED"}
    PROVE  /\ Sound(x, md) /\ Idle(x) /\ x.cmd \notin TlsCommand /\ Session(x, md)
           /\ x.state \in State
           /\ x.state # "FAILED" => ~x.locked /\ ~x.blocked
           /\ ~x.blocked => ~x.locked
  BY DEF Inv, Sound, Phases, Idle, Session, Busy, Record
-----------------------------------------------------------------------------
(* The product's calls.                                                    *)
LEMMA StageKeeps ==
    ASSUME Inv(r, modem), NEW c \in Config, Stage(c)
    PROVE  Inv(r', modem)
  <1>1. CASE ~allowed
    BY <1>1, BlockKeeps DEF Stage
  <1>2. CASE allowed
    <2> DEFINE y == [r EXCEPT !.requested = c, !.staged = TRUE]
    <2>1. ~r.blocked /\ r.state \in Stageable /\ r' = y
      BY <1>2 DEF Stage
    <2>2. /\ Sound(r, modem) /\ Idle(r) /\ r.cmd \notin TlsCommand /\ Session(r, modem)
          /\ r.state \in State /\ ~r.locked /\ ~r.blocked
      BY <2>1, Quiet DEF Stageable, Busy
    <2>3. r \in Record /\ Line(r, modem) /\ c \in MaybeConfig
      BY <2>2 DEF Sound, MaybeConfig
    <2>4. y \in Record
      BY <2>3 DEF Record
    <2>5. /\ SameLine(r, y) /\ y.gate = r.gate /\ y.state = r.state
          /\ y.locked = r.locked /\ y.blocked = r.blocked /\ y.applied = r.applied
      BY <2>3 DEF Record, SameLine
    <2> HIDE DEF y
    <2>6. Line(y, modem)
      BY <2>3, <2>5, LineKept
    <2>7. QED  BY <2>1, <2>2, <2>4, <2>5, <2>6, Calm
               DEF Sound, Idle, Session, SameLine, Busy, Securing, Stageable, Inv, Phases
  <1>3. QED  BY <1>1, <1>2 DEF Stage

LEMMA ActivateKeeps ==
    ASSUME Inv(r, modem), Activate
    PROVE  Inv(r', modem)
  <1>1. ~r.blocked /\ r.state \in Stageable /\ r' = Activated(r)
    BY DEF Activate
  <1>2. /\ Sound(r, modem) /\ Idle(r) /\ r.cmd \notin TlsCommand /\ Session(r, modem)
        /\ ~r.locked /\ ~r.blocked
    BY <1>1, Quiet DEF Stageable, Busy
  <1>3. QED  BY <1>1, <1>2, ActivatedKeeps

LEMMA RestoreKeeps ==
    ASSUME Inv(r, modem), NEW c \in Config, Restore(c)
    PROVE  Inv(r', modem)
  <1> DEFINE x == IF r.state \in Connecting THEN [Shut(r) EXCEPT !.state = "FAILED"] ELSE r
  <1>1. Inv(x, modem) /\ (r.state \in Connecting => x.state = "FAILED" /\ ~x.locked
        /\ ~x.blocked)
    <2>1. CASE r.state \in Connecting
      <3> DEFINE g == [r EXCEPT !.gate = FALSE]
      <3>1. /\ Sound(r, modem) /\ Idle(r) /\ r.cmd \notin TlsCommand /\ Session(r, modem)
            /\ ~r.locked /\ ~r.blocked
        BY <2>1, Quiet DEF Connecting, Busy
      <3>2. r \in Record /\ Line(r, modem)
        BY <3>1 DEF Sound
      <3>3. g \in Record
        BY <3>2 DEF Record
      <3>4. SameLine(r, g) /\ ~g.gate /\ g.locked = r.locked /\ g.blocked = r.blocked
            /\ g.applied = r.applied
        BY <3>2 DEF Record, SameLine
      <3>5. x = [g EXCEPT !.state = "FAILED"] /\ x.state = "FAILED"
            /\ x.locked = g.locked /\ x.blocked = g.blocked
        BY <2>1, <3>2 DEF Shut, Record
      <3> HIDE DEF g, x
      <3>6. Sound(g, modem) /\ Idle(g) /\ g.cmd \notin TlsCommand /\ Session(g, modem)
        BY <3>1, <3>2, <3>3, <3>4, LineKept DEF Sound, SameLine, Idle, Session
      <3>7. "FAILED" \in State \ (Busy \cup {"BLOCKED"}) /\ "FAILED" \notin Securing
        BY DEF State, Resting, Busy, Securing
      <3>8. Inv([g EXCEPT !.state = "FAILED"], modem)
        BY <3>1, <3>4, <3>6, <3>7, PhaseKeeps
      <3>9. QED  BY <3>1, <3>4, <3>5, <3>8
    <2>2. CASE r.state \notin Connecting
      BY <2>2
    <2>3. QED  BY <2>1, <2>2
  <1>2. CASE ~allowed
    <2>1. PICK wire \in BOOLEAN : r' = Block(x, wire)
      BY <1>2 DEF Restore
    <2> HIDE DEF x
    <2>2. QED  BY <1>1, <2>1, BlockKeeps
  <1>3. CASE allowed /\ ~x.blocked /\ x.state \in Stageable
    <2> DEFINE y == [x EXCEPT !.requested = c]
    <2>1. r' = Activated(y)
      BY <1>3 DEF Restore
    <2> HIDE DEF x
    <2>2. /\ Sound(x, modem) /\ Idle(x) /\ x.cmd \notin TlsCommand /\ Session(x, modem)
          /\ ~x.locked /\ ~x.blocked
      BY <1>1, <1>3, Quiet DEF Stageable, Busy
    <2>3. x \in Record /\ Line(x, modem) /\ c \in MaybeConfig
      BY <2>2 DEF Sound, MaybeConfig
    <2>4. y \in Record
      BY <2>3 DEF Record
    <2>5. /\ SameLine(x, y) /\ y.gate = x.gate /\ y.locked = x.locked
          /\ y.blocked = x.blocked /\ y.applied = x.applied
      BY <2>3 DEF Record, SameLine
    <2> HIDE DEF y
    <2>6. Line(y, modem)
      BY <2>3, <2>5, LineKept
    <2>7. QED  BY <2>1, <2>2, <2>4, <2>5, <2>6, ActivatedKeeps DEF Sound, Idle, Session, SameLine
  <1>4. CASE allowed /\ ~(~x.blocked /\ x.state \in Stageable)
    <2>1. r' = x
      BY <1>4 DEF Restore
    <2> HIDE DEF x
    <2>2. QED  BY <1>1, <2>1
  <1>5. QED  BY <1>2, <1>3, <1>4

LEMMA StopFirstKeeps ==
    ASSUME Inv(r, modem), StopFirst
    PROVE  Inv(r', modem)
  <1>1. ~r.blocked /\ r.state \in {"READY", "FAILED", "PREPARED"}
    BY DEF StopFirst
  <1>2. /\ Sound(r, modem) /\ Idle(r) /\ r.cmd \notin TlsCommand /\ Session(r, modem)
        /\ ~r.locked /\ ~r.blocked
    BY <1>1, Quiet DEF Busy
  <1>3. r \in Record /\ Line(r, modem) /\ 0 \in 0..2
        /\ "BLOCKED" \in State /\ "STOP_WAIT_DRAIN" \in State
    BY <1>2 DEF Sound, State, Resting, Leaving, Stopping
  <1>4. CASE r.lease # "none" /\ ~r.active_tls
    <2> DEFINE y == [r EXCEPT !.gate = FALSE, !.blocked = TRUE, !.state = "BLOCKED"]
    <2>1. r' = y
      BY <1>3, <1>4 DEF StopFirst, Shut, Record
    <2>2. y \in Record
      BY <1>3 DEF Record
    <2>3. /\ SameLine(r, y) /\ ~y.gate /\ y.state = "BLOCKED"
          /\ y.locked = r.locked /\ y.blocked /\ y.applied = r.applied
      BY <1>3 DEF Record, SameLine
    <2> HIDE DEF y
    <2>4. Line(y, modem)
      BY <1>3, <2>3, LineKept
    <2>5. Phases(y, modem)
      BY <1>2, <2>3 DEF Phases, Idle, Session, SameLine, Busy, Securing
    <2>6. QED  BY <2>1, <2>2, <2>4, <2>5 DEF Inv, Sound
  <1>5. CASE ~(r.lease # "none" /\ ~r.active_tls)
    <2> DEFINE y == [r EXCEPT !.gate = FALSE, !.waiting = 0, !.state = "STOP_WAIT_DRAIN"]
    <2>1. r' = y
      BY <1>3, <1>5 DEF StopFirst, Shut, Record
    <2>2. y \in Record
      BY <1>3 DEF Record
    <2>3. /\ SameLine(r, y) /\ ~y.gate /\ y.state = "STOP_WAIT_DRAIN"
          /\ y.locked = r.locked /\ y.blocked = r.blocked /\ y.applied = r.applied
          /\ y.active_tls = r.active_tls
      BY <1>3 DEF Record, SameLine
    <2> HIDE DEF y
    <2>4. Line(y, modem)
      BY <1>3, <2>3, LineKept
    <2>5. Phases(y, modem)
      BY <1>2, <1>5, <2>3 DEF Phases, Idle, Session, SameLine, Busy, Securing
    <2>6. QED  BY <2>1, <2>2, <2>4, <2>5 DEF Inv, Sound
  <1>6. QED  BY <1>4, <1>5

LEMMA RecoveryCompleteKeeps ==
    ASSUME Inv(r, modem), RecoveryComplete
    PROVE  Inv(r', modem)
  <1> DEFINE s == IF r.active THEN "FAILED" ELSE "UNENROLLED"
             y == [r EXCEPT !.blocked = FALSE, !.locked = FALSE, !.state = s]
  <1>1. /\ r.blocked /\ ~r.quarantined /\ r.result # "PENDING" /\ r.lease = "none" /\ r' = y
    BY DEF RecoveryComplete
  <1>2. r \in Record /\ Line(r, modem)
    BY DEF Inv, Sound
  <1>3. s \in State /\ s \in {"FAILED", "UNENROLLED"}
    BY DEF State, Resting
  <1> HIDE DEF s
  <1>4. y \in Record
    BY <1>2, <1>3 DEF Record
  <1>5. /\ SameLine(r, y) /\ y.gate = r.gate /\ y.state = s /\ ~y.locked /\ ~y.blocked
        /\ y.applied = r.applied
    BY <1>2 DEF Record, SameLine
  <1> HIDE DEF y
  <1>6. Line(y, modem)
    BY <1>2, <1>5, LineKept
  <1>7. y.cmd = "none"
    BY <1>1, <1>2, <1>5 DEF Line, SameLine
  <1>8. Idle(r) /\ ~r.gate /\ Session(r, modem)
    BY <1>1, <1>2 DEF Inv, Phases, Idle, Session, Busy, Connecting
  <1>9. QED  BY <1>1, <1>3, <1>4, <1>5, <1>6, <1>7, <1>8, Calm
             DEF Sound, Idle, Session, SameLine, Busy, Securing, TlsCommand
-----------------------------------------------------------------------------
(* The phases.                                                             *)
LEMMA AskKeeps ==
    ASSUME NEW x, NEW md, Sound(x, md), Idle(x), ~x.locked, ~x.blocked, Session(x, md),
           Free(x), NEW cmd \in {"probe", "mode", "clock"}
    PROVE  LET y == Ask(x, cmd) IN
           /\ Sound(y, md) /\ Idle(y) /\ y.cmd \notin TlsCommand /\ Session(y, md)
           /\ SameRest(x, y)
  <1>1. ~x.lease_waiting /\ ~x.bind_waiting
    BY DEF Sound, Line, Idle
  <1>2. LET y == Submit(x, "runtime", cmd) IN
           /\ Sound(y, md) /\ SameRest(x, y)
           /\ y.lease = x.lease /\ y.bind = x.bind /\ y.cred = x.cred /\ y.cmd = cmd
    BY <1>1, SubmitRuntime
  <1>3. QED  BY <1>2 DEF Ask, SameRest, Idle, Session, TlsCommand

LEMMA WaitingKeeps ==
    ASSUME NEW x, NEW md, Sound(x, md), Idle(x), x.cmd \notin TlsCommand, ~x.locked,
           ~x.blocked, Session(x, md), x.state = "READY", NEW n \in 0..2
    PROVE  Inv([x EXCEPT !.waiting = n], md)
  <1> DEFINE y == [x EXCEPT !.waiting = n]
  <1>1. x \in Record /\ Line(x, md)
    BY DEF Sound
  <1>2. y \in Record
    BY <1>1 DEF Record
  <1>3. /\ SameLine(x, y) /\ y.gate = x.gate /\ y.state = x.state
        /\ y.locked = x.locked /\ y.blocked = x.blocked /\ y.applied = x.applied
    BY <1>1 DEF Record, SameLine
  <1> HIDE DEF y
  <1>4. Line(y, md)
    BY <1>1, <1>3, LineKept
  <1>5. "READY" \in State \ (Busy \cup {"BLOCKED"}) /\ "READY" \notin Securing
    BY DEF State, Resting, Busy, Securing
  <1>6. Inv(y, md)
    BY <1>2, <1>3, <1>4, <1>5, Calm DEF Sound, Idle, Session, SameLine
  <1>7. QED  BY <1>6 DEF y

LEMMA PollReadyKeeps ==
    ASSUME Inv(r, modem), NEW w \in Turn, PollReady(w)
    PROVE  Inv(r', modem)
  <1>1. r.state = "READY"
    BY DEF PollReady
  <1>2. /\ Sound(r, modem) /\ Idle(r) /\ r.cmd \notin TlsCommand /\ Session(r, modem)
        /\ ~r.locked /\ ~r.blocked
    BY <1>1, Quiet DEF Busy
  <1>3. r' = [r EXCEPT !.waiting = 0] \/
        /\ Free(r)
        /\ \E cmd \in {"mode", "clock"}, n \in {1, 2} : r' = [Ask(r, cmd) EXCEPT !.waiting = n]
    BY DEF PollReady
  <1>4. CASE r' = [r EXCEPT !.waiting = 0]
    <2>1. 0 \in 0..2
      OBVIOUS
    <2>2. QED  BY <1>1, <1>2, <1>4, <2>1, WaitingKeeps
  <1>5. ASSUME Free(r), NEW cmd \in {"mode", "clock"}, NEW n \in {1, 2},
               r' = [Ask(r, cmd) EXCEPT !.waiting = n]
        PROVE  Inv(r', modem)
    <2> DEFINE y == Ask(r, cmd)
    <2>1. /\ Sound(y, modem) /\ Idle(y) /\ y.cmd \notin TlsCommand /\ Session(y, modem)
          /\ SameRest(r, y)
      BY <1>2, <1>5, AskKeeps
    <2>2. r' = [y EXCEPT !.waiting = n] /\ n \in 0..2
      BY <1>5
    <2> HIDE DEF y
    <2>3. QED  BY <1>1, <1>2, <2>1, <2>2, WaitingKeeps DEF SameRest
  <1>6. QED  BY <1>3, <1>4, <1>5

(* mqtt_stop only ever closes the session.                                 *)
LEMMA Closing ==
    ASSUME modem \in Modem, NEW w \in Turn, TransportStops(w)
    PROVE  /\ modem' \in Modem
           /\ modem'.bound = modem.bound /\ modem'.context = modem.context
           /\ modem'.open => modem.open
           /\ w.closed => ~modem'.open
  BY DEF TransportStops, Modem

LEMMA LineElsewhere ==
    ASSUME NEW x, NEW md, NEW mn, Line(x, md), mn.bound = md.bound, mn.context = md.context
    PROVE  Line(x, mn)
  BY DEF Line

LEMMA PollDisconnectKeeps ==
    ASSUME Inv(r, modem), modem \in Modem, allowed, NEW w \in Turn, PollDisconnect(w) \/ PollStop(w)
    PROVE  Inv(r', modem') /\ modem' \in Modem
  <1>1. r.state \in {"DISCONNECT", "STOP_WAIT_DRAIN"} /\ TransportStops(w)
    BY DEF PollDisconnect, PollStop
  <1>2. /\ modem' \in Modem
        /\ modem'.bound = modem.bound /\ modem'.context = modem.context
        /\ modem'.open => modem.open
        /\ w.closed => ~modem'.open
    BY <1>1, Closing
  <1>3. /\ Sound(r, modem) /\ Idle(r) /\ r.cmd \notin TlsCommand /\ Session(r, modem)
        /\ ~r.locked /\ ~r.blocked
    BY <1>1, Quiet DEF Busy
  <1>4. ~r.gate
    BY <1>1 DEF Inv, Phases, Connecting
  <1>5. Sound(r, modem') /\ Session(r, modem')
    BY <1>2, <1>3, LineElsewhere DEF Sound, Session
  <1>6. r' = Fail(r) \/ (w.closed /\ (r' = Unbind(r, "UNBIND") \/ r' = Start(r, w, TRUE)
                                      \/ r' = Unbind(r, "STOP_UNBIND") \/ r' = StopComplete(r)))
    BY DEF PollDisconnect, PollStop
  <1>7. CASE r' = Fail(r)
    BY <1>2, <1>3, <1>5, <1>7, FailKeeps
  <1>8. CASE w.closed /\ r' = Start(r, w, TRUE)
    BY <1>2, <1>3, <1>4, <1>5, <1>8, StartKeeps
  <1>9. CASE w.closed /\ (r' = Unbind(r, "UNBIND") \/ r' = Unbind(r, "STOP_UNBIND"))
    BY <1>2, <1>3, <1>4, <1>5, <1>9, UnbindKeeps
  <1>10. CASE r' = StopComplete(r)
    BY <1>2, <1>3, <1>4, <1>5, <1>10, StopCompleteKeeps
  <1>11. QED  BY <1>2, <1>6, <1>7, <1>8, <1>9, <1>10

LEMMA PollUnbindKeeps ==
    ASSUME Inv(r, modem), allowed, NEW w \in Turn, PollUnbind(w)
    PROVE  Inv(r', modem)
  <1> DEFINE x == BindPoll(r, w)
  <1>1. /\ r.state \in {"UNBIND", "STOP_UNBIND"}
        /\ \/ x.bind = "PENDING" /\ r' = x
           \/ x.bind # "PENDING" /\ r' = Fail(x)
           \/ /\ x.bind = "OK" /\ Releasable(x)
              /\ \/ r' = StopComplete(Released(x))
                 \/ r' = Start([Released(x) EXCEPT !.active_tls = FALSE], w, ~modem.open)
    BY DEF PollUnbind
  <1>2. /\ Sound(r, modem) /\ r.bind = "PENDING" /\ r.lease # "PENDING" /\ ~r.gate
        /\ ~modem.open
        /\ ~r.locked /\ ~r.blocked /\ r.state \in State
    BY <1>1 DEF Inv, Phases, Busy, Connecting, Sound, Record
  <1>3. /\ Sound(x, modem) /\ BindMoves(r, x)
        /\ x.bind = "OK" => x.cmd = "none"
    BY <1>2, BindPolls DEF Sound, Line
  <1> HIDE DEF x
  <1>4. /\ x.lease # "PENDING" /\ ~x.gate /\ ~x.locked /\ ~x.blocked /\ x.state = r.state
        /\ x.applied = r.applied
    BY <1>2, <1>3 DEF BindMoves, SameRest
  <1>5. CASE x.bind = "PENDING" /\ r' = x
    <2>1. Phases(x, modem)
      BY <1>1, <1>2, <1>4, <1>5 DEF Phases, Busy
    <2>2. QED  BY <1>3, <1>5, <2>1 DEF Inv
  <1>6. CASE x.bind # "PENDING" /\ r' = Fail(x)
    BY <1>2, <1>3, <1>4, <1>6, FailKeeps DEF Idle, Session
  <1>7. CASE x.bind = "OK" /\ Releasable(x)
    <2> DEFINE y == Released(x)
    <2>1. Sound(y, modem) /\ SameRest(x, y) /\ y.lease = "none" /\ y.bind = "OK"
          /\ y.cmd = "none"
      BY <1>3, <1>4, <1>7, ReleasedKeeps DEF Releasable
    <2> HIDE DEF y
    <2>2. ~y.gate /\ ~y.locked /\ ~y.blocked /\ Idle(y) /\ y.cmd \notin TlsCommand
      BY <1>4, <2>1 DEF SameRest, Idle, TlsCommand
    <2>3. Inv(StopComplete(y), modem)
      BY <1>2, <2>1, <2>2, StopCompleteKeeps DEF Session
    <2>4. Inv(Start([y EXCEPT !.active_tls = FALSE], w, ~modem.open), modem)
      <3> DEFINE z == [y EXCEPT !.active_tls = FALSE]
      <3>1. y \in Record /\ Line(y, modem)
        BY <2>1 DEF Sound
      <3>2. z \in Record
        BY <3>1 DEF Record
      <3>3. SameLine(y, z) /\ z.gate = y.gate /\ z.locked = y.locked /\ z.blocked = y.blocked
        BY <3>1 DEF Record, SameLine
      <3> HIDE DEF z
      <3>4. Line(z, modem)
        BY <3>1, <3>3, LineKept
      <3>5. Inv(Start(z, w, ~modem.open), modem)
        BY <1>2, <2>2, <3>2, <3>3, <3>4, StartKeeps DEF Sound, Idle, SameLine
      <3>6. QED  BY <3>5 DEF z
    <2>5. QED  BY <1>1, <1>7, <2>3, <2>4, FailKeeps, <1>6 DEF y
  <1>8. QED  BY <1>1, <1>5, <1>6, <1>7
LEMMA PollConnectKeeps ==
    ASSUME Inv(r, modem), NEW w \in Turn, PollConnect(w) \/ PollConnected(w) \/ PollPrepared
    PROVE  Inv(r', modem)
  <1>1. r.state \in Connecting
    BY DEF PollConnect, PollConnected, PollPrepared, Connecting
  <1>2. /\ Sound(r, modem) /\ Idle(r) /\ r.cmd \notin TlsCommand /\ Session(r, modem)
        /\ ~r.locked /\ ~r.blocked
    BY <1>1, Quiet DEF Busy, Connecting
  <1>3. \/ r' = Fail(r)
        \/ \E s \in {"CONNECT", "CONNECTED"} : r' = [r EXCEPT !.state = s]
        \/ r' = [r EXCEPT !.active = TRUE, !.state = "READY"]
    BY DEF PollConnect, PollConnected, PollPrepared
  <1>4. CASE r' = Fail(r)
    BY <1>2, <1>4, FailKeeps
  <1>5. ASSUME NEW s \in {"CONNECT", "CONNECTED"}, r' = [r EXCEPT !.state = s]
        PROVE  Inv(r', modem)
    <2>1. s \in State \ (Busy \cup {"BLOCKED"}) /\ s \in Connecting /\ s \notin Securing
      BY DEF State, Connecting, Busy, Securing
    <2>2. QED  BY <1>2, <1>5, <2>1, PhaseKeeps
  <1>6. CASE r' = [r EXCEPT !.active = TRUE, !.state = "READY"]
    <2> DEFINE y == [r EXCEPT !.active = TRUE, !.state = "READY"]
    <2>1. r \in Record /\ Line(r, modem) /\ "READY" \in State
      BY <1>2 DEF Sound, State, Resting
    <2>2. y \in Record
      BY <2>1 DEF Record
    <2>3. /\ SameLine(r, y) /\ y.gate = r.gate /\ y.state = "READY"
          /\ y.locked = r.locked /\ y.blocked = r.blocked /\ y.applied = r.applied
      BY <2>1 DEF Record, SameLine
    <2> HIDE DEF y
    <2>4. Line(y, modem)
      BY <2>1, <2>3, LineKept
    <2>5. QED  BY <1>2, <1>6, <2>1, <2>2, <2>3, <2>4, Calm
               DEF Sound, Idle, Session, SameLine, Busy, Securing, y
  <1>7. QED  BY <1>3, <1>4, <1>5, <1>6

LEMMA PollSecuringKeeps ==
    ASSUME Inv(r, modem), PollWaitCa \/ PollClockMode \/ PollProbe \/ PollClock
    PROVE  Inv(r', modem)
  <1>1. r.state \in {"WAIT_CA", "CLOCK_MODE", "PROBE_TLS", "CLOCK"}
    BY DEF PollWaitCa, PollClockMode, PollProbe, PollClock
  <1>2. /\ Sound(r, modem) /\ Idle(r) /\ r.cmd \notin TlsCommand /\ Session(r, modem)
        /\ ~r.locked /\ ~r.blocked
    BY <1>1, Quiet DEF Busy
  <1>3. r \in Record /\ Line(r, modem) /\ ~r.gate /\ ~modem.open
    BY <1>1, <1>2 DEF Inv, Sound, Phases, Connecting, Securing
  <1>4. Inv(Fail(r), modem)
    BY <1>2, FailKeeps
  <1>5. \/ r' = Fail(r)
        \/ /\ r.state \in {"WAIT_CA", "CLOCK"} /\ r' = PrepareTls(r)
        \/ /\ Free(r)
           /\ \E cmd \in {"probe", "mode", "clock"}, s \in {"PROBE_TLS", "CLOCK_MODE", "CLOCK"} :
                 r' = [Ask(r, cmd) EXCEPT !.state = s]
        \/ r' = Fail([r EXCEPT !.locked = TRUE, !.blocked = TRUE])
        \/ r' = [r EXCEPT !.probed = TRUE, !.state = "WAIT_CA"]
    BY DEF PollWaitCa, PollClockMode, PollProbe, PollClock
  <1>6. CASE r.state \in {"WAIT_CA", "CLOCK"} /\ r' = PrepareTls(r)
    BY <1>6, PrepareKeeps
  <1>7. ASSUME Free(r), NEW cmd \in {"probe", "mode", "clock"},
               NEW s \in {"PROBE_TLS", "CLOCK_MODE", "CLOCK"},
               r' = [Ask(r, cmd) EXCEPT !.state = s]
        PROVE  Inv(r', modem)
    <2> DEFINE y == Ask(r, cmd)
    <2>1. /\ Sound(y, modem) /\ Idle(y) /\ y.cmd \notin TlsCommand /\ Session(y, modem)
          /\ SameRest(r, y)
      BY <1>2, <1>7, AskKeeps
    <2>2. s \in State \ (Busy \cup {"BLOCKED"})
      BY DEF State, Securing, Busy
    <2>3. r' = [y EXCEPT !.state = s]
      BY <1>7
    <2> HIDE DEF y
    <2>4. QED  BY <1>2, <1>3, <2>1, <2>2, <2>3, PhaseKeeps DEF SameRest
  <1>8. CASE r' = Fail([r EXCEPT !.locked = TRUE, !.blocked = TRUE])
    <2> DEFINE y == [r EXCEPT !.locked = TRUE, !.blocked = TRUE]
    <2>1. y \in Record
      BY <1>3 DEF Record
    <2>2. /\ SameLine(r, y) /\ y.gate = r.gate /\ y.blocked /\ y.applied = r.applied
      BY <1>3 DEF Record, SameLine
    <2> HIDE DEF y
    <2>3. Line(y, modem)
      BY <1>3, <2>2, LineKept
    <2>4. Inv(Fail(y), modem)
      BY <1>2, <1>3, <2>1, <2>2, <2>3, FailKeeps DEF Sound, Idle, Session, SameLine
    <2>5. QED  BY <1>8, <2>4 DEF y
  <1>9. CASE r' = [r EXCEPT !.probed = TRUE, !.state = "WAIT_CA"]
    <2> DEFINE y == [r EXCEPT !.probed = TRUE, !.state = "WAIT_CA"]
    <2>1. "WAIT_CA" \in State
      BY DEF State, Securing
    <2>2. y \in Record
      BY <1>3, <2>1 DEF Record
    <2>3. /\ SameLine(r, y) /\ y.gate = r.gate /\ y.state = "WAIT_CA"
          /\ y.locked = r.locked /\ y.blocked = r.blocked /\ y.applied = r.applied
      BY <1>3 DEF Record, SameLine
    <2> HIDE DEF y
    <2>4. Line(y, modem)
      BY <1>3, <2>3, LineKept
    <2>5. QED  BY <1>2, <1>3, <1>9, <2>1, <2>2, <2>3, <2>4, Calm
               DEF Sound, Idle, Session, SameLine, Busy, y
  <1>10. QED  BY <1>4, <1>5, <1>6, <1>7, <1>8, <1>9

LEMMA PollPrepareKeeps ==
    ASSUME Inv(r, modem), NEW w \in Turn, PollPrepare(w)
    PROVE  Inv(r', modem)
  <1> DEFINE x == LeasePoll(r, w)
  <1>1. /\ r.state = "PREPARE"
        /\ \/ x.lease = "PENDING" /\ r' = x
           \/ x.lease # "PENDING" /\ r' = Fail(x)
           \/ x.lease = "OK" /\ r' = [Begin(x, TRUE) EXCEPT !.pinned = TRUE, !.state = "BIND"]
    BY DEF PollPrepare
  <1>2. /\ Sound(r, modem) /\ r.bind # "PENDING" /\ ~r.gate /\ ~modem.open
        /\ ~r.locked /\ ~r.blocked /\ r.cred = r.requested
    BY <1>1 DEF Inv, Phases, Busy, Connecting, Securing
  <1>3. Sound(x, modem) /\ LeaseMoves(r, x)
    BY <1>2, LeasePolls DEF Sound, Line
  <1> HIDE DEF x
  <1>4. /\ ~x.gate /\ ~x.locked /\ ~x.blocked /\ x.state = "PREPARE" /\ x.bind # "PENDING"
        /\ x.applied = r.applied /\ x.cred = x.requested /\ x \in Record /\ Line(x, modem)
    BY <1>1, <1>2, <1>3 DEF LeaseMoves, SameRest, Sound
  <1>5. CASE x.lease = "PENDING" /\ r' = x
    <2>1. Phases(x, modem)
      BY <1>1, <1>2, <1>4, <1>5 DEF Phases, Busy
    <2>2. QED  BY <1>3, <1>5, <2>1 DEF Inv
  <1>6. CASE x.lease # "PENDING" /\ r' = Fail(x)
    BY <1>2, <1>3, <1>4, <1>6, FailKeeps DEF Idle, Session
  <1>7. CASE x.lease = "OK" /\ r' = [Begin(x, TRUE) EXCEPT !.pinned = TRUE, !.state = "BIND"]
    <2> DEFINE z == [x EXCEPT !.bind = "PENDING", !.bind_on = TRUE, !.bind_waiting = FALSE]
               y == [z EXCEPT !.pinned = TRUE, !.state = "BIND"]
    <2>1. "PENDING" \in Async /\ "BIND" \in State
      BY DEF Async, State, Securing
    <2>2. z \in Record
      BY <1>4, <2>1 DEF Record
    <2>3. /\ z.gate = x.gate /\ z.locked = x.locked /\ z.blocked = x.blocked
          /\ z.requested = x.requested
          /\ z.op = x.op /\ z.result = x.result /\ z.cmd = x.cmd
          /\ z.lease = x.lease /\ z.lease_waiting = x.lease_waiting
          /\ z.step = x.step /\ z.cred = x.cred /\ z.bind = "PENDING" /\ z.bind_on
          /\ ~z.bind_waiting /\ z.quarantined = x.quarantined
      BY <1>4 DEF Record
    <2> HIDE DEF z
    <2>4. y \in Record
      BY <2>1, <2>2 DEF Record
    <2>5. /\ y.state = "BIND" /\ y.pinned
          /\ y.gate = z.gate /\ y.locked = z.locked /\ y.blocked = z.blocked
          /\ y.requested = z.requested
          /\ y.op = z.op /\ y.result = z.result /\ y.cmd = z.cmd
          /\ y.lease = z.lease /\ y.lease_waiting = z.lease_waiting
          /\ y.step = z.step /\ y.cred = z.cred /\ y.bind = z.bind /\ y.bind_on = z.bind_on
          /\ y.bind_waiting = z.bind_waiting /\ y.quarantined = z.quarantined
      BY <2>2 DEF Record
    <2>6. r' = y
      BY <1>7 DEF Begin, z
    <2> HIDE DEF y
    <2>7. Line(y, modem)
      BY <1>4, <1>7, <2>3, <2>5 DEF Line, TlsCommand
    <2>8. Phases(y, modem)
      BY <1>2, <1>4, <1>7, <2>3, <2>5 DEF Phases, Busy, Securing
    <2>9. QED  BY <2>4, <2>6, <2>7, <2>8 DEF Inv, Sound
  <1>8. QED  BY <1>1, <1>5, <1>6, <1>7

LEMMA PollBindKeeps ==
    ASSUME Inv(r, modem), NEW w \in Turn, PollBind(w)
    PROVE  Inv(r', modem)
  <1> DEFINE x == BindPoll(r, w)
  <1>1. /\ r.state = "BIND"
        /\ \/ x.bind = "PENDING" /\ r' = x
           \/ x.bind # "PENDING" /\ r' = Fail(x)
           \/ x.bind = "OK" /\ r' = Prepared([x EXCEPT !.active_tls = TRUE])
    BY DEF PollBind
  <1>2. /\ Sound(r, modem) /\ r.bind = "PENDING" /\ r.bind_on /\ r.pinned
        /\ r.lease # "PENDING"
        /\ ~r.gate /\ ~modem.open /\ ~r.locked /\ ~r.blocked /\ r.cred = r.requested
    BY <1>1 DEF Inv, Phases, Busy, Connecting, Securing
  <1>3. /\ Sound(x, modem) /\ BindMoves(r, x)
        /\ x.bind = "PENDING" => x.pinned = r.pinned
        /\ x.bind = "OK" => x.cmd = "none" /\ r.lease = "OK" /\ modem.bound
    <2>1. ~r.lease_waiting
      BY <1>2 DEF Sound, Line
    <2>2. LET y == BindPoll(r, w) IN
          /\ Sound(y, modem) /\ BindMoves(r, y)
          /\ y.bind = "PENDING" => y.pinned = r.pinned
          /\ y.bind = "OK" =>
                /\ y.cmd = "none"
                /\ r.pinned => r.lease = "OK"
                /\ r.bind_on => modem.bound
      BY <1>2, <2>1, BindPolls
    <2>3. QED  BY <1>2, <2>2
  <1> HIDE DEF x
  <1>4. /\ x.lease = r.lease /\ ~x.gate /\ ~x.locked /\ ~x.blocked /\ x.state = "BIND"
        /\ x.cred = x.requested /\ x.bind_on /\ x \in Record /\ Line(x, modem)
    BY <1>1, <1>2, <1>3 DEF BindMoves, SameRest, Sound
  <1>5. CASE x.bind = "PENDING" /\ r' = x
    <2>1. Phases(x, modem)
      BY <1>2, <1>3, <1>4, <1>5 DEF Phases, Busy
    <2>2. QED  BY <1>3, <1>5, <2>1 DEF Inv
  <1>6. CASE x.bind # "PENDING" /\ r' = Fail(x)
    BY <1>2, <1>3, <1>4, <1>6, FailKeeps DEF Idle, Session
  <1>7. CASE x.bind = "OK" /\ r' = Prepared([x EXCEPT !.active_tls = TRUE])
    <2> DEFINE y == [x EXCEPT !.active_tls = TRUE]
    <2>1. y \in Record
      BY <1>4 DEF Record
    <2>2. SameLine(x, y) /\ y.locked = x.locked /\ y.requested = x.requested
      BY <1>4 DEF Record, SameLine
    <2> HIDE DEF y
    <2>3. Line(y, modem)
      BY <1>4, <2>2, LineKept
    <2>4. modem.bound /\ modem.context = y.requested
      BY <1>3, <1>4, <1>7, <2>2 DEF Line
    <2>5. y.blocked = x.blocked
      BY <1>4 DEF Record, y
    <2>6. Inv(Prepared(y), modem)
      BY <1>2, <1>3, <1>4, <1>7, <2>1, <2>2, <2>3, <2>4, <2>5, PreparedKeeps
         DEF Sound, Idle, SameLine, TlsCommand
    <2>7. QED  BY <1>7, <2>6 DEF y
  <1>8. QED  BY <1>1, <1>5, <1>6, <1>7

LEMMA PollKeeps ==
    ASSUME Inv(r, modem), modem \in Modem, allowed \in BOOLEAN, NEW w \in Turn, Poll(w)
    PROVE  Inv(r', modem') /\ modem' \in Modem
  <1>1. CASE ~allowed
    <2>1. r' = Block(r, w.wire) /\ UNCHANGED modem /\ w.wire \in BOOLEAN
      BY <1>1 DEF Poll, Stay, Turn
    <2>2. Inv(Block(r, w.wire), modem)
      BY <2>1, BlockKeeps
    <2>3. QED  BY <2>1, <2>2
  <1>2. CASE allowed /\ (PollDisconnect(w) \/ PollStop(w))
    BY <1>2, PollDisconnectKeeps
  <1>3. CASE allowed /\ ~(PollDisconnect(w) \/ PollStop(w))
    <2>1. UNCHANGED modem /\ Inv(r', modem)
      BY <1>3, PollReadyKeeps, PollUnbindKeeps, PollConnectKeeps, PollSecuringKeeps,
         PollPrepareKeeps, PollBindKeeps
         DEF Poll, PollReady, PollUnbind, PollConnect, PollConnected, PollPrepared, PollWaitCa,
             PollClockMode, PollProbe, PollClock, PollPrepare, PollBind, Stay
    <2>2. QED  BY <2>1
  <1>4. QED  BY <1>1, <1>2, <1>3
-----------------------------------------------------------------------------
(* The restart of the modem, its answers, and the rest of the world.       *)
LEMMA RebornTyped ==
    ASSUME r \in Record
    PROVE  Reborn \in Record
  <1> DEFINE no == FALSE
             a1  == [r EXCEPT !.probed = no]
             a2  == [a1 EXCEPT !.lease = "none"]
             a3  == [a2 EXCEPT !.lease_waiting = no]
             a4  == [a3 EXCEPT !.step = 0]
             a5  == [a4 EXCEPT !.cred = NoConfig]
             a6  == [a5 EXCEPT !.bind = "IDLE"]
             a7  == [a6 EXCEPT !.bind_on = no]
             a8  == [a7 EXCEPT !.bind_waiting = no]
             a9  == [a8 EXCEPT !.pinned = no]
             a10 == [a9 EXCEPT !.op = "none"]
             a11 == [a10 EXCEPT !.result = "IDLE"]
             a12 == [a11 EXCEPT !.cmd = "none"]
             a13 == [a12 EXCEPT !.quarantined = no]
             a14 == [a13 EXCEPT !.active_tls = no]
             a15 == [a14 EXCEPT !.waiting = 0]
             a16 == [a15 EXCEPT !.gate = no]
  <1>1. Reborn = a16
    BY DEF Reborn
  <1>2. /\ NoConfig \in MaybeConfig /\ 0 \in 0..2 /\ 0 \in 0..Steps /\ "IDLE" \in Async
        /\ no \in BOOLEAN
    BY RuntimeAssumption DEF MaybeConfig, Async
  <1> HIDE DEF no
  <1>3. a1 \in Record
    BY <1>2 DEF Record
  <1> HIDE DEF a1
  <1>4. a2 \in Record
    BY <1>2, <1>3 DEF Record
  <1> HIDE DEF a2
  <1>5. a3 \in Record
    BY <1>2, <1>4 DEF Record
  <1> HIDE DEF a3
  <1>6. a4 \in Record
    BY <1>2, <1>5 DEF Record
  <1> HIDE DEF a4
  <1>7. a5 \in Record
    BY <1>2, <1>6 DEF Record
  <1> HIDE DEF a5
  <1>8. a6 \in Record
    BY <1>2, <1>7 DEF Record
  <1> HIDE DEF a6
  <1>9. a7 \in Record
    BY <1>2, <1>8 DEF Record
  <1> HIDE DEF a7
  <1>10. a8 \in Record
    BY <1>2, <1>9 DEF Record
  <1> HIDE DEF a8
  <1>11. a9 \in Record
    BY <1>2, <1>10 DEF Record
  <1> HIDE DEF a9
  <1>12. a10 \in Record
    BY <1>2, <1>11 DEF Record
  <1> HIDE DEF a10
  <1>13. a11 \in Record
    BY <1>2, <1>12 DEF Record
  <1> HIDE DEF a11
  <1>14. a12 \in Record
    BY <1>2, <1>13 DEF Record
  <1> HIDE DEF a12
  <1>15. a13 \in Record
    BY <1>2, <1>14 DEF Record
  <1> HIDE DEF a13
  <1>16. a14 \in Record
    BY <1>2, <1>15 DEF Record
  <1> HIDE DEF a14
  <1>17. a15 \in Record
    BY <1>2, <1>16 DEF Record
  <1> HIDE DEF a15
  <1>18. a16 \in Record
    BY <1>2, <1>17 DEF Record
  <1>19. QED  BY <1>1, <1>18

LEMMA ResetKeeps ==
    ASSUME Inv(r, modem), OnModemReset
    PROVE  Inv(r', modem') /\ modem' \in Modem
  <1> DEFINE x == Reborn
             y == [x EXCEPT !.blocked = FALSE]
  <1>1. r \in Record /\ (r.locked => r.blocked)
    BY DEF Inv, Sound, Phases
  <1>2. PICK w \in Turn : r' = Resumed(x, w)
    BY DEF OnModemReset
  <1>3. /\ modem' \in Modem /\ ~modem'.open /\ modem'.context = NoConfig
    BY DEF OnModemReset, NewModem, Modem, MaybeConfig
  <1>4. x \in Record
    BY <1>1, RebornTyped
  <1>5. /\ x.lease = "none" /\ ~x.lease_waiting /\ x.bind = "IDLE" /\ ~x.bind_waiting
        /\ x.op = "none" /\ x.result = "IDLE" /\ x.cmd = "none" /\ ~x.gate
        /\ ~x.pinned /\ x.locked = r.locked /\ x.blocked = r.blocked /\ x.state = r.state
    BY <1>1 DEF Reborn, Record
  <1> HIDE DEF x
  <1>6. Line(x, modem')
    BY <1>5 DEF Line, TlsCommand
  <1>7. y \in Record
    BY <1>4 DEF Record
  <1>8. SameLine(x, y) /\ y.gate = x.gate /\ y.locked = x.locked /\ ~y.blocked
    BY <1>4 DEF Record, SameLine
  <1> HIDE DEF y
  <1>9. Line(y, modem')
    BY <1>6, <1>8, LineKept
  <1>10. CASE ~allowed \/ x.locked
    <2> DEFINE z == [x EXCEPT !.state = "BLOCKED"]
    <2>1. "BLOCKED" \in State
      BY DEF State, Resting
    <2>2. z \in Record
      BY <1>4, <2>1 DEF Record
    <2>3. /\ SameLine(x, z) /\ z.gate = x.gate /\ z.locked = x.locked /\ z.blocked = x.blocked
          /\ z.state = "BLOCKED" /\ z.applied = x.applied
      BY <1>4 DEF Record, SameLine
    <2> HIDE DEF z
    <2>4. Line(z, modem')
      BY <1>6, <2>3, LineKept
    <2>5. Inv(z, modem')
      BY <1>1, <1>3, <1>5, <2>2, <2>3, <2>4
         DEF Inv, Sound, Phases, SameLine, Busy, Securing, TlsCommand
    <2>6. CASE x.locked
      <3>1. r' \in {x, z}
        BY <1>2, <2>6 DEF Resumed, Block, z
      <3>2. r' = x => x.state \in {"BLOCKED", "FAILED"}
        BY <1>1, <1>5, <2>6 DEF Inv, Phases
      <3>3. r' = x => Inv(x, modem')
        BY <1>1, <1>3, <1>4, <1>5, <1>6, <3>2
           DEF Inv, Sound, Phases, Busy, Securing, TlsCommand
      <3>4. QED  BY <1>3, <2>5, <3>1, <3>3
    <2>7. CASE ~x.locked
      <3> DEFINE c == Cancelled(x, FALSE)
                 b == [c EXCEPT !.gate = FALSE, !.blocked = TRUE, !.locked = TRUE,
                                !.waiting = 0, !.state = "BLOCKED"]
      <3>1. ~allowed
        BY <1>10, <2>7
      <3>2. c = x
        BY <1>5 DEF Cancelled, Cancel
      <3>3. r' = Block(x, FALSE)
        BY <1>2, <3>1 DEF Resumed
      <3>4. Block(x, FALSE) = Block(z, FALSE)
        <4>1. z.locked = x.locked /\ z.lease = "none" /\ z.bind = "IDLE" /\ z.op = "none"
              /\ z.result = "IDLE"
          BY <1>5, <2>3 DEF SameLine
        <4>2. Cancelled(z, FALSE) = z
          BY <4>1 DEF Cancelled, Cancel
        <4>3. [Shut(x) EXCEPT !.blocked = TRUE, !.locked = TRUE, !.waiting = 0, !.state = "BLOCKED"]
              = [Shut(z) EXCEPT !.blocked = TRUE, !.locked = TRUE, !.waiting = 0, !.state = "BLOCKED"]
          BY <1>4 DEF Shut, z, Record
        <4>4. QED  BY <2>7, <3>2, <4>1, <4>2, <4>3 DEF Block
      <3>5. QED  BY <1>3, <2>5, <3>3, <3>4, BlockKeeps
    <2>8. QED  BY <2>6, <2>7
  <1>11. CASE allowed /\ ~x.locked
    <2>1. \/ r' = StopComplete(y)
          \/ r' = [y EXCEPT !.state = "FAILED"]
          \/ r' = Start(y, w, TRUE)
      BY <1>2, <1>11 DEF Resumed, y
    <2>2. /\ Sound(y, modem') /\ Idle(y) /\ y.cmd \notin TlsCommand /\ ~y.locked /\ ~y.blocked
          /\ ~y.gate /\ Session(y, modem')
      BY <1>3, <1>5, <1>7, <1>8, <1>9, <1>11 DEF Sound, Idle, SameLine, Session, TlsCommand
    <2>3. "FAILED" \in State \ (Busy \cup {"BLOCKED"}) /\ "FAILED" \notin Securing
      BY DEF State, Resting, Busy, Securing
    <2>4. Inv([y EXCEPT !.state = "FAILED"], modem')
      BY <1>3, <2>2, <2>3, PhaseKeeps
    <2>5. QED  BY <1>3, <1>11, <2>1, <2>2, <2>4, StopCompleteKeeps, StartKeeps
  <1>12. QED  BY <1>10, <1>11
LEMMA EffectIs ==
    ASSUME Inv(r, modem), modem \in Modem
    PROVE  /\ Effect \in Modem /\ Effect.open = modem.open
           /\ r.cmd \notin TlsCommand => Effect = modem
           /\ r.cmd # "context" => Effect.context = modem.context
           /\ r.cmd = "context" /\ r.step + 1 = Steps => Effect.context = r.cred
           /\ r.cmd = "bind" => Effect.bound
           /\ r.cmd # "unbind" /\ modem.bound => Effect.bound
  <1>1. r.cred \in MaybeConfig /\ NoConfig \in MaybeConfig /\ r.cmd \in Command \cup {"none"}
    BY DEF Inv, Sound, Record, MaybeConfig
  <1>2. CASE r.cmd = "bind"
    <2>1. Effect = [modem EXCEPT !.bound = TRUE]
      BY <1>2 DEF Effect
    <2>2. QED  BY <1>2, <2>1 DEF Modem, TlsCommand
  <1>3. CASE r.cmd = "unbind"
    <2>1. Effect = [modem EXCEPT !.bound = FALSE]
      BY <1>3 DEF Effect
    <2>2. QED  BY <1>3, <2>1 DEF Modem, TlsCommand
  <1>4. CASE r.cmd = "context"
    <2> DEFINE c == IF r.step + 1 = Steps THEN r.cred ELSE NoConfig
    <2>1. c \in MaybeConfig /\ (r.step + 1 = Steps => c = r.cred)
      BY <1>1
    <2>2. Effect = [modem EXCEPT !.context = c]
      BY <1>4 DEF Effect
    <2> HIDE DEF c
    <2>3. QED  BY <1>4, <2>1, <2>2 DEF Modem, TlsCommand
  <1>5. CASE r.cmd \notin TlsCommand
    BY <1>5 DEF Effect, TlsCommand
  <1>6. QED  BY <1>2, <1>3, <1>4, <1>5 DEF TlsCommand

(* A command leaves the adapter, with or without its effect.               *)
LEMMA CommandEnds ==
    ASSUME Inv(r, modem), modem \in Modem, NEW y, y \in Record, SameRest(r, y),
           y.lease = r.lease, y.lease_waiting = r.lease_waiting, y.step = r.step,
           y.cred = r.cred, y.bind = r.bind, y.bind_on = r.bind_on,
           y.bind_waiting = r.bind_waiting, y.pinned = r.pinned, y.op = r.op,
           y.quarantined = r.quarantined, y.cmd = "none", r.cmd # "none" \/ r.result = "PENDING",
           y.result # "PENDING", NEW mn, mn = modem \/ mn = Effect,
           y.result = "OK" => r.result = "PENDING" /\ mn = Effect
    PROVE  Inv(y, mn) /\ mn \in Modem
  <1>1. /\ mn \in Modem /\ mn.open = modem.open
        /\ r.cmd \notin TlsCommand => mn = modem
        /\ r.cmd # "context" => mn.context = modem.context
        /\ r.cmd # "unbind" /\ modem.bound => mn.bound
    BY EffectIs
  <1>2. y.result = "OK" /\ r.cmd = "context" /\ r.step + 1 = Steps => mn.context = r.cred
    BY EffectIs
  <1>3. y.result = "OK" /\ r.cmd = "bind" => mn.bound
    BY EffectIs
  <1>4. Line(r, modem) /\ Phases(r, modem)
    BY DEF Inv, Sound
  <1>5. Line(y, mn)
    BY <1>1, <1>2, <1>3, <1>4 DEF Line, TlsCommand
  <1>6. Phases(y, mn)
    <2>1. r.cmd \in TlsCommand => ~r.gate /\ ~modem.open
      BY <1>4 DEF Phases, Busy, Connecting
    <2>2. (y.gate \/ mn.open) /\ y.applied \in Tls => mn.bound /\ mn.context = y.applied
      BY <1>1, <1>4, <2>1 DEF Phases, SameRest
    <2>3. QED  BY <1>1, <1>4, <2>2 DEF Phases, SameRest, TlsCommand
  <1>7. QED  BY <1>1, <1>5, <1>6 DEF Inv, Sound

LEMMA AnswerKeeps ==
    ASSUME Inv(r, modem), modem \in Modem, Answer
    PROVE  Inv(r', modem') /\ modem' \in Modem
  <1>1. PICK res \in {"OK", "FAILED"} :
          /\ r.result = "PENDING" /\ r' = [r EXCEPT !.result = res, !.cmd = "none"]
          /\ modem' = modem \/ modem' = Effect
          /\ res = "OK" => modem' = Effect
    BY DEF Answer
  <1> DEFINE y == [r EXCEPT !.result = res, !.cmd = "none"]
  <1>2. r \in Record /\ res \in Async
    BY DEF Inv, Sound, Async
  <1>3. y \in Record
    BY <1>2 DEF Record
  <1>4. /\ SameRest(r, y) /\ y.lease = r.lease /\ y.lease_waiting = r.lease_waiting
        /\ y.step = r.step /\ y.cred = r.cred /\ y.bind = r.bind /\ y.bind_on = r.bind_on
        /\ y.bind_waiting = r.bind_waiting /\ y.pinned = r.pinned /\ y.op = r.op
        /\ y.quarantined = r.quarantined /\ y.cmd = "none" /\ y.result = res
    BY <1>2 DEF Record, SameRest
  <1> HIDE DEF y
  <1>5. Inv(y, modem') /\ modem' \in Modem
    BY <1>1, <1>3, <1>4, CommandEnds
  <1>6. QED  BY <1>1, <1>5 DEF y

LEMMA LateEffectKeeps ==
    ASSUME Inv(r, modem), modem \in Modem, LateEffect
    PROVE  Inv(r', modem') /\ modem' \in Modem
  <1> DEFINE y == [r EXCEPT !.cmd = "none"]
  <1>1. r.result # "PENDING" /\ r.cmd # "none" /\ r' = y /\ modem' = Effect
    BY DEF LateEffect
  <1>2. r \in Record /\ r.result # "OK"
    BY <1>1 DEF Inv, Sound, Line
  <1>3. y \in Record
    BY <1>2 DEF Record
  <1>4. /\ SameRest(r, y) /\ y.lease = r.lease /\ y.lease_waiting = r.lease_waiting
        /\ y.step = r.step /\ y.cred = r.cred /\ y.bind = r.bind /\ y.bind_on = r.bind_on
        /\ y.bind_waiting = r.bind_waiting /\ y.pinned = r.pinned /\ y.op = r.op
        /\ y.quarantined = r.quarantined /\ y.cmd = "none" /\ y.result = r.result
    BY <1>2 DEF Record, SameRest
  <1> HIDE DEF y
  <1>5. QED  BY <1>1, <1>2, <1>3, <1>4, CommandEnds

LEMMA QuarantineKeeps ==
    ASSUME Inv(r, modem), Quarantine
    PROVE  Inv(r', modem)
  <1>1. PICK sent \in BOOLEAN :
          r' = [r EXCEPT !.quarantined = TRUE, !.cmd = IF sent THEN @ ELSE "none",
                         !.result = IF @ = "PENDING" THEN "FAILED" ELSE @]
    BY DEF Quarantine
  <1> DEFINE k == IF sent THEN r.cmd ELSE "none"
             s == IF r.result = "PENDING" THEN "FAILED" ELSE r.result
             y == [r EXCEPT !.quarantined = TRUE, !.cmd = k, !.result = s]
  <1>2. r \in Record /\ Line(r, modem) /\ Phases(r, modem) /\ r' = y
    BY <1>1 DEF Inv, Sound
  <1>3. /\ k \in Command \cup {"none"} /\ k \in {r.cmd, "none"}
        /\ s \in Async /\ s # "PENDING" /\ (s = "OK" => r.result = "OK")
    BY <1>2 DEF Record, Async
  <1> HIDE DEF k, s
  <1>4. y \in Record
    BY <1>2, <1>3 DEF Record
  <1>5. /\ SameRest(r, y) /\ y.lease = r.lease /\ y.lease_waiting = r.lease_waiting
        /\ y.step = r.step /\ y.cred = r.cred /\ y.bind = r.bind /\ y.bind_on = r.bind_on
        /\ y.bind_waiting = r.bind_waiting /\ y.pinned = r.pinned /\ y.op = r.op
        /\ y.quarantined /\ y.cmd = k /\ y.result = s
    BY <1>2 DEF Record, SameRest
  <1> HIDE DEF y
  <1>6. Line(y, modem)
    BY <1>2, <1>3, <1>5 DEF Line, TlsCommand
  <1>7. Phases(y, modem)
    BY <1>2, <1>3, <1>5 DEF Phases, SameRest, TlsCommand
  <1>8. QED  BY <1>2, <1>4, <1>6, <1>7 DEF Inv, Sound

LEMMA LinkKeeps ==
    ASSUME Inv(r, modem), modem \in Modem, Link
    PROVE  Inv(r', modem') /\ modem' \in Modem
  <1>1. r' = r /\ modem' \in Modem /\ modem'.bound = modem.bound
        /\ modem'.context = modem.context /\ (modem'.open => r.gate)
    BY DEF Link, Modem
  <1>2. Line(r, modem')
    BY <1>1, LineElsewhere DEF Inv, Sound
  <1>3. Phases(r, modem')
    BY <1>1 DEF Inv, Phases, Connecting, Busy, Securing
  <1>4. QED  BY <1>1, <1>2, <1>3 DEF Inv, Sound

-----------------------------------------------------------------------------
(* The invariant of the specification.                                     *)
LEMMA InitHolds == Init => IInv
  <1> SUFFICES ASSUME Init PROVE IInv
    OBVIOUS
  <1> USE RuntimeAssumption
  <1>1. /\ NoConfig \in MaybeConfig /\ 0 \in 0..2 /\ 0 \in 0..Steps /\ "IDLE" \in Async
        /\ "FAILED" \in State
    BY DEF MaybeConfig, Async, State, Resting
  <1>2. modem \in Modem /\ ~modem.open
    BY <1>1 DEF Init, NewModem, Modem
  <1>3. ASSUME NEW x, x = Blank \/ \E c \in MaybeConfig : x = [Blank EXCEPT !.requested = c]
        PROVE  /\ Sound(x, modem) /\ Idle(x) /\ x.cmd = "none" /\ ~x.gate
               /\ ~x.locked /\ ~x.blocked /\ Inv(x, modem)
    <2>1. x \in Record
      <3>1. Blank \in Record
        <4>1. "none" \in Command \cup {"none"} /\ "none" \in Async \cup {"none"}
          OBVIOUS
        <4>2. QED  BY <1>1, <4>1 DEF Blank, Record
      <3>2. ASSUME NEW c \in MaybeConfig PROVE [Blank EXCEPT !.requested = c] \in Record
        BY <3>1 DEF Record
      <3>3. QED  BY <1>3, <3>1, <3>2
    <2>2. /\ x.lease = "none" /\ ~x.lease_waiting /\ x.bind = "IDLE" /\ ~x.bind_waiting
          /\ x.op = "none" /\ x.result = "IDLE" /\ x.cmd = "none" /\ ~x.gate
          /\ ~x.pinned /\ ~x.locked /\ ~x.blocked /\ x.state = "FAILED"
      BY <1>3 DEF Blank
    <2>3. Line(x, modem)
      BY <2>2 DEF Line, TlsCommand
    <2>4. Inv(x, modem)
      BY <1>1, <1>2, <2>1, <2>2, <2>3, Calm DEF Sound, Idle, Session, Busy, Securing, TlsCommand
    <2>5. QED  BY <2>1, <2>2, <2>3, <2>4 DEF Idle, Sound
  <1>4. /\ option \in Option /\ allowed \in BOOLEAN /\ ca \in BOOLEAN /\ time \in BOOLEAN
        /\ faults \in 0..MaxFaults
    <2>1. 0 \in 0..MaxFaults
      OBVIOUS
    <2>2. /\ option \in Option /\ allowed \in BOOLEAN /\ ca \in BOOLEAN /\ time = FALSE
          /\ faults = 0
      BY DEF Init
    <2>3. QED  BY <2>1, <2>2
  <1>5. ASSUME r = Blank PROVE Inv(r, modem)
    <2>1. Inv(Blank, modem)
      BY <1>3
    <2>2. QED  BY <1>5, <2>1
  <1>6. ASSUME NEW c \in Config, NEW w \in Turn,
               r = Start([Blank EXCEPT !.requested = c], w, TRUE)
        PROVE  Inv(r, modem)
    <2> DEFINE x == [Blank EXCEPT !.requested = c]
    <2>1. c \in MaybeConfig /\ w.wire \in BOOLEAN
      BY DEF MaybeConfig, Turn
    <2>2. /\ Sound(x, modem) /\ Idle(x) /\ x.cmd = "none" /\ ~x.gate
          /\ ~x.locked /\ ~x.blocked /\ Inv(x, modem)
      BY <1>3, <2>1
    <2>3. r = Start(x, w, TRUE)
      BY <1>6
    <2> HIDE DEF x
    <2>4. CASE allowed
      BY <1>2, <2>2, <2>3, <2>4, StartKeeps DEF TlsCommand
    <2>5. CASE ~allowed
      BY <2>1, <2>2, <2>3, <2>5, BlockKeeps DEF Start
    <2>6. QED  BY <2>4, <2>5
  <1>7. Inv(r, modem)
    <2>1. r = Blank \/ \E c \in Config, w \in Turn : r = Start([Blank EXCEPT !.requested = c], w, TRUE)
      BY DEF Init
    <2>2. QED  BY <1>5, <1>6, <2>1
  <1>8. QED  BY <1>2, <1>4, <1>7 DEF IInv

LEMMA StepKeeps == IInv /\ [Next]_vars => IInv'
  <1> SUFFICES ASSUME IInv, [Next]_vars PROVE IInv'
    OBVIOUS
  <1> USE RuntimeAssumption
  <1>1. /\ Inv(r, modem) /\ modem \in Modem /\ option \in Option /\ allowed \in BOOLEAN
        /\ ca \in BOOLEAN /\ time \in BOOLEAN /\ faults \in 0..MaxFaults
    BY DEF IInv
  <1>2. CASE Product
    <2>1. Inv(r', modem)
      <3>1. BlockNow => Inv(r', modem)
        BY <1>1, BlockKeeps DEF BlockNow
      <3>2. QED  BY <1>1, <1>2, <3>1, StageKeeps, RestoreKeeps, ActivateKeeps, StopFirstKeeps,
                    RecoveryCompleteKeeps DEF Product
    <2>2. faults' \in 0..MaxFaults
      <3>1. faults' = faults \/ Disturbs
        BY <1>2 DEF Product, Stage, Restore, Activate, StopFirst, BlockNow, RecoveryComplete
      <3>2. QED  BY <1>1, <3>1 DEF Disturbs
    <2>3. QED  BY <1>1, <1>2, <2>1, <2>2 DEF Product, IInv
  <1>3. ASSUME NEW w \in Turn, Poll(w)
        PROVE  IInv'
    <2>1. Inv(r', modem') /\ modem' \in Modem
      BY <1>1, <1>3, PollKeeps
    <2>2. UNCHANGED env
      BY <1>3 DEF Poll, Stay, PollReady, PollDisconnect, PollStop, PollUnbind, PollConnect,
                  PollConnected, PollPrepared, PollWaitCa, PollClockMode, PollProbe, PollClock,
                  PollPrepare, PollBind
    <2>3. QED  BY <1>1, <2>1, <2>2 DEF IInv, env
  <1>4. CASE OnModemReset
    <2>1. Inv(r', modem') /\ modem' \in Modem
      BY <1>1, <1>4, ResetKeeps
    <2>2. faults' \in 0..MaxFaults
      BY <1>1, <1>4 DEF OnModemReset, Disturbs
    <2>3. QED  BY <1>1, <1>4, <2>1, <2>2 DEF OnModemReset, IInv
  <1>5. CASE Answer
    <2>1. Inv(r', modem') /\ modem' \in Modem
      BY <1>1, <1>5, AnswerKeeps
    <2>2. time' \in BOOLEAN
      BY <1>1, <1>5 DEF Answer
    <2>3. QED  BY <1>1, <1>5, <2>1, <2>2 DEF Answer, IInv
  <1>6. CASE Quarantine
    <2>1. Inv(r', modem)
      BY <1>1, <1>6, QuarantineKeeps
    <2>2. faults' \in 0..MaxFaults
      BY <1>1, <1>6 DEF Quarantine
    <2>3. QED  BY <1>1, <1>6, <2>1, <2>2 DEF Quarantine, IInv
  <1>7. CASE LateEffect
    BY <1>1, <1>7, LateEffectKeeps DEF LateEffect, IInv, env
  <1>8. CASE Link
    BY <1>1, <1>8, LinkKeeps DEF Link, IInv, env
  <1>9. CASE World
    BY <1>1, <1>9 DEF World, IInv
  <1>10. CASE UNCHANGED vars
    BY <1>1, <1>10 DEF vars, env, IInv
  <1>11. QED
    BY <1>2, <1>3, <1>4, <1>5, <1>6, <1>7, <1>8, <1>9, <1>10 DEF Next

(* The invariant, for any configurations, length of the set-up and number  *)
(* of disturbances.                                                        *)
THEOREM RuntimeInvariant == Spec => []IInv
  BY InitHolds, StepKeeps, PTL DEF Spec

(* Every variable of the runtime has its type, always.                     *)
THEOREM TypeCorrect == Spec => []TypeOK
  <1>1. IInv => TypeOK
    BY DEF IInv, Inv, Sound, Record, MaybeConfig, Modem, TypeOK
  <1>2. QED  BY <1>1, RuntimeInvariant, PTL

(* No silent downgrade: a session of a TLS configuration, whatever was     *)
(* cancelled, reset or staged, is bound to the context with its own        *)
(* credentials (abox_mqtt_runtime.c, prepare_tls and the BIND phase).      *)
THEOREM AlwaysSecured == Spec => []Secured
  <1>1. IInv => Secured
    BY DEF IInv, Inv, Phases, Secured
  <1>2. QED  BY <1>1, RuntimeInvariant, PTL

(* Under the safety latch nothing connects (safety_locked).                *)
THEOREM LatchHolds == Spec => []LockedIsShut
  <1>1. IInv => LockedIsShut
    BY DEF IInv, Inv, Phases, LockedIsShut, Connecting
  <1>2. QED  BY <1>1, RuntimeInvariant, PTL
(* What is left of a record when it stops.                                 *)
LEMMA StoppedIs ==
    ASSUME NEW x, x \in Record
    PROVE  LET y == StopComplete(x) IN
           y.gate = x.gate /\ y.lease = x.lease /\ y.pinned = x.pinned
  BY DEF StopComplete, Record

LEMMA FailState ==
    ASSUME NEW x, x \in Record
    PROVE  Fail(x).state \in {"BLOCKED", "FAILED"}
  BY DEF Fail, Shut, Record

LEMMA StartState ==
    ASSUME NEW x, x \in Record, NEW w \in Turn, NEW closed \in BOOLEAN, allowed
    PROVE  Start(x, w, closed).state # "UNENROLLED"
  <1> DEFINE y == [x EXCEPT !.active_tls = FALSE]
  <1>1. y \in Record
    BY DEF Record
  <1>2. Prepared(y).state = "PREPARED"
    BY <1>1 DEF Prepared, Record
  <1>3. [x EXCEPT !.state = "WAIT_CA"].state = "WAIT_CA"
    BY DEF Record
  <1>4. QED  BY <1>2, <1>3, FailState DEF Start

LEMMA UnbindState ==
    ASSUME NEW x, x \in Record, NEW s \in {"UNBIND", "STOP_UNBIND"}
    PROVE  Unbind(x, s).state # "UNENROLLED"
  <1> DEFINE z == [x EXCEPT !.bind = "PENDING", !.bind_on = FALSE, !.bind_waiting = FALSE]
  <1>1. "PENDING" \in Async
    BY DEF Async
  <1>2. z \in Record
    BY <1>1 DEF Record
  <1>3. [z EXCEPT !.state = s].state = s
    BY <1>2 DEF Record
  <1>4. QED  BY <1>3, FailState DEF Unbind, Begin

LEMMA BlockState ==
    ASSUME NEW x, Inv(x, modem), NEW wire \in BOOLEAN, x.state \in Stopping
    PROVE  Block(x, wire).state = "BLOCKED"
  <1> DEFINE c == Cancelled(x, wire)
  <1>1. c \in Record
    BY CancelledIdle DEF Inv, Sound
  <1>2. ~x.locked
    BY DEF Inv, Phases, Stopping
  <1> HIDE DEF c
  <1>3. [Shut(c) EXCEPT !.blocked = TRUE, !.locked = TRUE, !.waiting = 0, !.state = "BLOCKED"].state
        = "BLOCKED"
    BY <1>1 DEF Shut, Record
  <1>4. QED  BY <1>2, <1>3 DEF Block, c

LEMMA PollStopClean ==
    ASSUME IInv, NEW w \in Turn, Poll(w), r.state \in Stopping, r'.state = "UNENROLLED"
    PROVE  Clean'
  <1>1. /\ Inv(r, modem) /\ modem \in Modem /\ w.wire \in BOOLEAN /\ r \in Record
        /\ Line(r, modem) /\ ~r.gate /\ r.lease # "PENDING" /\ ~r.locked /\ ~r.blocked
    BY DEF IInv, Inv, Sound, Phases, Turn, Stopping, Connecting
  <1>2. allowed
    <2>1. SUFFICES ASSUME ~allowed PROVE FALSE
      OBVIOUS
    <2>2. r' = Block(r, w.wire)
      BY <2>1 DEF Poll
    <2>3. QED  BY <1>1, <2>2, BlockState
  <1>3. PollStop(w) \/ PollUnbind(w)
    BY <1>2 DEF Poll, Stopping, PollReady, PollDisconnect, PollConnect, PollConnected,
                PollPrepared, PollWaitCa, PollClockMode, PollProbe, PollClock, PollPrepare, PollBind
  <1>4. CASE PollStop(w)
    <2>1. /\ w.closed /\ ~r.active_tls /\ r' = StopComplete(r)
          /\ r.state = "STOP_WAIT_DRAIN" /\ TransportStops(w)
      BY <1>1, <1>4, FailState, UnbindState DEF PollStop
    <2>2. ~modem'.open
      BY <1>1, <2>1, Closing
    <2>3. r.lease = "none" /\ ~r.pinned
      BY <1>1, <2>1 DEF Inv, Phases, Line
    <2>4. QED  BY <1>1, <2>1, <2>2, <2>3, StoppedIs DEF Clean
  <1>5. CASE PollUnbind(w)
    <2> DEFINE x == BindPoll(r, w)
               y == Released(x)
    <2>1. /\ r.state \in {"UNBIND", "STOP_UNBIND"} /\ UNCHANGED modem
          /\ \/ r' = x
             \/ r' = Fail(x)
             \/ Releasable(x) /\ r' = StopComplete(y)
             \/ r' = Start([y EXCEPT !.active_tls = FALSE], w, ~modem.open)
      BY <1>5 DEF PollUnbind, Stay
    <2>2. r.bind = "PENDING" /\ ~r.lease_waiting /\ ~modem.open
      BY <1>1, <2>1 DEF Inv, Phases, Busy, Line
    <2>3. Sound(x, modem) /\ SameRest(r, x) /\ x.lease = r.lease
      BY <1>1, <2>2, BindPolls DEF BindMoves, Inv
    <2> HIDE DEF x
    <2>4. /\ x \in Record /\ x.state = r.state /\ ~x.gate
      BY <1>1, <2>3 DEF Sound, SameRest
    <2>5. y \in Record
      <3>1. NoConfig \in MaybeConfig /\ 0 \in 0..Steps
        BY RuntimeAssumption DEF MaybeConfig
      <3>2. QED  BY <2>4, <3>1 DEF Released, Record
    <2>6. y.lease = "none" /\ y.pinned = x.pinned /\ y.gate = x.gate
      BY <2>4 DEF Released, Record
    <2> HIDE DEF y
    <2>7. [y EXCEPT !.active_tls = FALSE] \in Record
      BY <2>5 DEF Record
    <2>8. Releasable(x) /\ r' = StopComplete(y)
      <3>1. r' # x
        BY <2>1, <2>4
      <3>2. r' # Fail(x)
        BY <2>4, FailState
      <3> DEFINE z == [y EXCEPT !.active_tls = FALSE]
      <3>3. z \in Record /\ (~modem.open) \in BOOLEAN
        BY <2>7
      <3> HIDE DEF z
      <3>4. r' # Start(z, w, ~modem.open)
        BY <1>2, <3>3, StartState
      <3>5. QED  BY <2>1, <3>1, <3>2, <3>4 DEF z
    <2>9. QED  BY <2>1, <2>2, <2>4, <2>5, <2>6, <2>8, StoppedIs DEF Clean, Releasable
  <1>6. QED  BY <1>3, <1>4, <1>5

LEMMA ResetStopClean ==
    ASSUME IInv, OnModemReset, r.state \in Stopping, r'.state = "UNENROLLED"
    PROVE  Clean'
  <1> DEFINE x == Reborn
             y == [x EXCEPT !.blocked = FALSE]
  <1>1. r \in Record /\ ~r.locked
    BY DEF IInv, Inv, Sound, Phases, Stopping
  <1>2. modem' = NewModem /\ \E w \in Turn : r' = Resumed(x, w)
    BY DEF OnModemReset
  <1>3. /\ x.lease = "none" /\ ~x.pinned /\ ~x.gate /\ x.state = r.state
        /\ x.locked = r.locked
        /\ x.bind = "IDLE" /\ x.op = "none" /\ x.result = "IDLE"
    BY <1>1 DEF Reborn, Record
  <1>4. x \in Record
    BY <1>1, RebornTyped
  <1> HIDE DEF x
  <1>5. y \in Record /\ y.lease = "none" /\ ~y.pinned /\ ~y.gate
    BY <1>3, <1>4 DEF Record
  <1>6. r' = Block(x, FALSE) \/ r' = StopComplete(y)
    BY <1>1, <1>2, <1>3 DEF Resumed
  <1>7. r' # Block(x, FALSE)
    <2>1. Block(x, FALSE) = [Shut(x) EXCEPT !.blocked = TRUE, !.locked = TRUE, !.waiting = 0,
                                            !.state = "BLOCKED"]
      BY <1>1, <1>3 DEF Block, Cancelled, Cancel
    <2>2. Block(x, FALSE).state = "BLOCKED"
      BY <1>4, <2>1 DEF Shut, Record
    <2>3. QED  BY <2>2
  <1>8. ~modem'.open
    BY <1>2 DEF NewModem
  <1> HIDE DEF y
  <1>9. QED  BY <1>5, <1>6, <1>7, <1>8, StoppedIs DEF Clean

(* A stop ends only with the session closed and the TLS context unbound    *)
(* and given back (abox_mqtt_runtime.c, stop_poll and OnModemReset).       *)
THEOREM StopsClean == Spec => StopIsClean
  <1>1. ASSUME IInv, Next, r.state \in Stopping, r'.state = "UNENROLLED"
        PROVE  Clean'
    <2>1. /\ Inv(r, modem) /\ r \in Record /\ ~r.blocked /\ r.state # "UNENROLLED"
          /\ r.state \notin Stageable /\ r.state \notin Connecting
      BY <1>1 DEF IInv, Inv, Sound, Phases, Stopping, Stageable, Connecting
    <2>2. ASSUME NEW wire \in BOOLEAN PROVE r' # Block(r, wire)
      BY <1>1, <2>1, BlockState
    <2>3. CASE Product
      <3>1. ASSUME NEW c \in Config PROVE ~Stage(c)
        BY <2>1, <2>2 DEF Stage
      <3>2. ASSUME NEW c \in Config PROVE ~Restore(c)
        BY <1>1, <2>1, <2>2 DEF Restore
      <3>3. ~Activate /\ ~StopFirst /\ ~BlockNow /\ ~RecoveryComplete
        BY <1>1, <2>1, <2>2 DEF Activate, StopFirst, BlockNow, RecoveryComplete, Stopping
      <3>4. QED  BY <2>3, <3>1, <3>2, <3>3 DEF Product
    <2>4. CASE \E w \in Turn : Poll(w)
      BY <1>1, <2>4, PollStopClean
    <2>5. CASE OnModemReset
      BY <1>1, <2>5, ResetStopClean
    <2>6. r'.state = r.state => FALSE
      BY <1>1, <2>1
    <2>7. CASE Answer \/ Quarantine \/ LateEffect
      <3>1. CASE Answer
        BY <2>1, <2>6, <3>1 DEF Answer, Record
      <3>2. CASE Quarantine
        BY <2>1, <2>6, <3>2 DEF Quarantine, Record
      <3>3. CASE LateEffect
        BY <2>1, <2>6, <3>3 DEF LateEffect, Record
      <3>4. QED  BY <2>7, <3>1, <3>2, <3>3
    <2>8. CASE Link \/ World
      BY <2>6, <2>8 DEF Link, World
    <2>9. QED  BY <1>1, <2>3, <2>4, <2>5, <2>7, <2>8 DEF Next
  <1>2. IInv /\ [Next]_vars => [r.state \in Stopping
        /\ r'.state = "UNENROLLED" => Clean']_vars
    BY <1>1
  <1>3. QED  BY <1>2, RuntimeInvariant, PTL DEF Spec, StopIsClean
=============================================================================
