-------------------------- MODULE CloudServiceProofs --------------------------
(***************************************************************************)
(* What CloudService keeps for any number of states, requests, connections *)
(* and wake-ups.  The handlers are functions of the service's record, and  *)
(* one turn of Poll composes two of them, so the invariant is stated of a  *)
(* record and of what is known outside, and each handler is shown to keep  *)
(* it; the actions then only put handlers together.                        *)
(***************************************************************************)
EXTENDS CloudService, TLAPS

Service ==
    [generation : 1..MaxGeneration, ready : BOOLEAN, stage : 0..3, ever_ready : BOOLEAN,
     in_flight : Kind \cup {"none"}, operation : Operation \cup {NoOperation},
     count : 0..States, in_flight_event : 0..MaxWake, in_flight_correlated : Nat,
     index : Part, product_state : BOOLEAN, response : Asked, response_sync : BOOLEAN,
     sync : Asked, about : {"none", "result", "sync_state"}, correlated : Nat,
     parked : Asked, event : BOOLEAN, serial : 0..MaxWake, heartbeat : BOOLEAN,
     status : BOOLEAN]

Due(n) == CASE n = 1 -> "manifest" [] n = 2 -> "heartbeat" [] n = 3 -> "state"
            [] OTHER -> "none"

(* The service's own bookkeeping: a job under way has a publish and was    *)
(* begun on a connection; during the bootstrap it is the stage's job or    *)
(* one the bootstrap lets through; only a whole report of all states can   *)
(* answer a wake-up or a request.                                          *)
Sound(v) ==
    /\ v \in Service
    /\ v.in_flight = "none" <=> v.operation = NoOperation
    /\ ~v.ready => v.in_flight = "none" /\ v.stage = 0
    /\ ~v.ready \/ v.stage \in {1, 2} => v.index = 0
    /\ v.stage # 0 => v.in_flight \in {"none", "response", "external", Due(v.stage)}
    /\ v.in_flight = "response" => v.response # NoRequest
    /\ v.in_flight = "state" /\ v.stage # 0 => v.count = States
    /\ v.in_flight_event # 0 \/ v.in_flight_correlated # 0
         => v.in_flight = "state" /\ v.count = States
    /\ v.event => v.serial # 0
    /\ v.sync # NoRequest => v.correlated # 0

(* Where the publish of the job under way is shown.                        *)
Place(v) == <<v.in_flight, IF v.in_flight = "state" THEN v.index ELSE 0>>

(* What a publish of the job under way tells.                              *)
TellsOf(v, t) ==
    /\ t.generation = v.generation
    /\ v.in_flight_event # 0 => t.serial = v.in_flight_event
    /\ v.in_flight_correlated # 0 => t.correlated = v.in_flight_correlated

Entry(x) ==
    \/ x = Unknown
    \/ x \in [status : {"confirmed", "failed", "lost"}, generation : 1..MaxGeneration]
    \/ /\ x.status = "active" /\ x.generation \in 1..MaxGeneration
       /\ x.id \in Asked /\ x.topic \in Kind \X Part /\ x.tells \in Tells


(* One publish at most is under way, and while a job is, it is the job's   *)
(* own; one of an earlier connection holds the bootstrap back.             *)
Publishing(v, snt) ==
    /\ snt = [op \in Operation |-> snt[op]]
    /\ \A op \in Operation : Entry(snt[op])
    /\ \A op, other \in Operation :
          snt[op].status = "active" /\ snt[other].status = "active" => op = other
    /\ \A op \in Operation : snt[op].status = "active" =>
          /\ v.in_flight # "none" =>
                /\ op = v.operation /\ snt[op].topic = Place(v) /\ TellsOf(v, snt[op].tells)
                /\ v.in_flight = "response" => snt[op].id = v.response
          /\ v.in_flight = "none" =>
                snt[op].topic[1] = "response" \/ ~v.ready \/ v.stage = 1
    /\ v.in_flight # "none" =>
          snt[v.operation].status # "unknown" /\ snt[v.operation].generation = v.generation

(* A confirmed publish has been shown, a confirmed response is had.        *)
Confirmed(v, snt, ack, shw) ==
    v.in_flight # "none" /\ snt[v.operation].status = "confirmed" =>
       /\ Place(v) \in Topic => TellsOf(v, shw[Place(v)])
       /\ v.in_flight = "response" => v.response \in ack

(* What the bootstrap has passed was told on this connection.              *)
Told(v, shw) ==
    /\ shw \in [Topic -> Tells]
    /\ v.stage \in {2, 3} => shw[<<"manifest", 0>>].generation = v.generation
    /\ v.stage = 3 => shw[<<"heartbeat", 0>>].generation = v.generation
    /\ v.stage = 3 => \A n \in Part : n < v.index => shw[<<"state", n>>].generation = v.generation
    /\ v.ready /\ v.stage = 0 => \A k \in Topic : shw[k].generation = v.generation

(* Requests that wait were asked; one answered by a report has a response. *)
Answers(v, ask, ack) ==
    /\ ask \subseteq Request /\ ack \subseteq ask
    /\ {v.response, v.sync, v.parked} \subseteq ask \cup {NoRequest}
    /\ v.sync # NoRequest /\ v.about = "sync_state" => v.sync \in ack

KnownIds(snt, ask) ==
    \A op \in Operation : snt[op].status = "active" /\ snt[op].topic[1] = "response"
                             => snt[op].id \in ask

Inv(v, snt, ask, ack, shw) ==
    /\ Sound(v) /\ Publishing(v, snt) /\ Confirmed(v, snt, ack, shw)
    /\ Told(v, shw) /\ Answers(v, ask, ack) /\ KnownIds(snt, ask)

IInv == Inv(s, sent, asked, acked, shown) /\ linked \in BOOLEAN

-----------------------------------------------------------------------------
(* A handler that leaves the job under way, and the cursor, alone.         *)
SameJob(v, w) ==
    /\ w.generation = v.generation /\ w.ready = v.ready /\ w.stage = v.stage
    /\ w.in_flight = v.in_flight /\ w.operation = v.operation /\ w.index = v.index
    /\ w.in_flight_event = v.in_flight_event
    /\ w.in_flight_correlated = v.in_flight_correlated
    /\ w.ever_ready = v.ever_ready
    /\ v.in_flight = "response" => w.response = v.response

LEMMA SameJobKeeps ==
    ASSUME NEW v, NEW w, NEW snt, NEW ask, NEW ack, NEW shw, NEW ask2,
           Inv(v, snt, ask, ack, shw), Sound(w), SameJob(v, w), Answers(w, ask2, ack),
           ask \subseteq ask2
    PROVE  Inv(w, snt, ask2, ack, shw)
  <1>1. Place(w) = Place(v) /\ \A t : TellsOf(w, t) <=> TellsOf(v, t)
    BY DEF SameJob, Place, TellsOf
  <1>2. Publishing(w, snt)
    BY <1>1 DEF Inv, Publishing, SameJob
  <1>3. Confirmed(w, snt, ack, shw)
    BY <1>1 DEF Inv, Confirmed, SameJob
  <1>4. Told(w, shw)
    BY DEF Inv, Told, SameJob
  <1>5. KnownIds(snt, ask2)
    BY DEF Inv, KnownIds
  <1>6. QED  BY <1>2, <1>3, <1>4, <1>5 DEF Inv

LEMMA QueueResponseKeeps ==
    ASSUME NEW v, Sound(v), NEW id \in Request, NEW sync \in BOOLEAN
    PROVE  LET w == QueueResponse(v, id, sync) IN
           /\ Sound(w) /\ SameJob(v, w)
           /\ w.response \in {v.response, id} /\ w.sync = v.sync /\ w.about = v.about
           /\ w.parked \in {v.parked, NoRequest}
  <1> USE CloudAssumption
  <1> DEFINE p == IF sync /\ v.parked = id THEN NoRequest ELSE v.parked
             w == [v EXCEPT !.response = id, !.response_sync = sync, !.parked = p]
  <1>1. CASE QueueResponse(v, id, sync) = v
    BY <1>1 DEF SameJob
  <1>2. CASE QueueResponse(v, id, sync) = w /\ v.response = NoRequest
    <2>1. p \in Asked /\ p \in {v.parked, NoRequest} /\ id \in Asked
      BY DEF Sound, Service, Asked
    <2> HIDE DEF p
    <2>2. w \in Service
      BY <2>1 DEF Sound, Service
    <2>3. /\ w.response = id /\ w.sync = v.sync /\ w.about = v.about /\ w.parked = p
          /\ w.generation = v.generation /\ w.ready = v.ready /\ w.stage = v.stage
          /\ w.in_flight = v.in_flight /\ w.operation = v.operation /\ w.index = v.index
          /\ w.in_flight_event = v.in_flight_event /\ w.count = v.count
          /\ w.in_flight_correlated = v.in_flight_correlated /\ w.ever_ready = v.ever_ready
          /\ w.event = v.event /\ w.serial = v.serial /\ w.correlated = v.correlated
      BY DEF Sound, Service
    <2> HIDE DEF w
    <2>4. QED  BY <1>2, <2>1, <2>2, <2>3 DEF Sound, SameJob
  <1>3. QED  BY <1>1, <1>2 DEF QueueResponse

LEMMA QueueSyncRequestKeeps ==
    ASSUME NEW v, Sound(v), NEW id \in Request
    PROVE  LET w == QueueSyncRequest(v, id) IN
           /\ Sound(w) /\ SameJob(v, w)
           /\ w.response = v.response /\ w.sync = v.sync /\ w.about = v.about
           /\ w.parked \in {v.parked, id}
  <1> USE CloudAssumption
  <1> DEFINE w == [v EXCEPT !.parked = id]
  <1>1. CASE QueueSyncRequest(v, id) = v
    BY <1>1 DEF SameJob
  <1>2. CASE QueueSyncRequest(v, id) = w
    <2>1. w \in Service
      BY DEF Sound, Service, Asked
    <2>2. QED  BY <1>2, <2>1 DEF Sound, SameJob, Service
  <1>3. QED  BY <1>1, <1>2 DEF QueueSyncRequest

LEMMA CorrelateKeeps ==
    ASSUME NEW v, Sound(v), NEW id \in Request, NEW about \in {"result", "sync_state"}
    PROVE  LET w == Correlate(v, id, about) IN
           /\ Sound(w) /\ SameJob(v, w)
           /\ w.response = v.response /\ w.sync = id /\ w.about = about
           /\ w.parked = v.parked
  <1> USE CloudAssumption
  <1> DEFINE c == v.correlated + 1
             w == [v EXCEPT !.sync = id, !.about = about, !.correlated = c]
  <1>1. c \in Nat /\ c # 0 /\ id \in Asked
    BY DEF Sound, Service, Asked
  <1>2. Correlate(v, id, about) = w
    BY DEF Correlate
  <1> HIDE DEF c
  <1>3. w \in Service
    BY <1>1 DEF Sound, Service
  <1>4. QED  BY <1>1, <1>2, <1>3 DEF Sound, SameJob, Service

LEMMA WakeStateKeeps ==
    ASSUME NEW v, Sound(v), v.serial < MaxWake
    PROVE  LET w == WakeState(v) IN
           /\ Sound(w) /\ SameJob(v, w)
           /\ w.response = v.response /\ w.sync = v.sync /\ w.about = v.about
           /\ w.parked = v.parked
  <1> USE CloudAssumption
  <1> DEFINE n == v.serial + 1
             w == [v EXCEPT !.event = TRUE, !.serial = n]
  <1>1. n \in 0..MaxWake /\ n # 0
    BY DEF Sound, Service
  <1>2. WakeState(v) = w
    BY DEF WakeState
  <1> HIDE DEF n
  <1>3. w \in Service
    BY <1>1 DEF Sound, Service
  <1>4. QED  BY <1>1, <1>2, <1>3 DEF Sound, SameJob, Service

(* No job under way, the rest as it was: what an idle service promises is  *)
(* less than what a busy one does, unless a publish is still heard of.     *)
LEMMA IdleSound ==
    ASSUME NEW v \in Service,
           ~v.ready => v.stage = 0,
           ~v.ready \/ v.stage \in {1, 2} => v.index = 0,
           v.event => v.serial # 0,
           v.sync # NoRequest => v.correlated # 0
    PROVE  LET w == Idle(v) IN
           /\ Sound(w) /\ w.in_flight = "none" /\ w.operation = NoOperation
           /\ w.generation = v.generation /\ w.ready = v.ready /\ w.stage = v.stage
           /\ w.index = v.index /\ w.response = v.response /\ w.sync = v.sync
           /\ w.about = v.about /\ w.parked = v.parked /\ w.ever_ready = v.ever_ready
           /\ w.event = v.event
  <1> USE CloudAssumption
  <1> DEFINE w == [v EXCEPT !.in_flight = "none", !.operation = NoOperation,
                     !.count = 0, !.in_flight_event = 0, !.in_flight_correlated = 0]
  <1> HIDE DEF w
  <1>1. w \in Service
    <2>1. 0 \in 0..States /\ 0 \in 0..MaxWake /\ 0 \in Nat
      OBVIOUS
    <2>2. "none" \in Kind \cup {"none"} /\ NoOperation \in Operation \cup {NoOperation}
      OBVIOUS
    <2> QED  BY <2>1, <2>2, Zenon DEF Service, w
  <1>2. /\ w.in_flight = "none" /\ w.operation = NoOperation /\ w.in_flight_event = 0
        /\ w.in_flight_correlated = 0
        /\ w.generation = v.generation /\ w.ready = v.ready /\ w.stage = v.stage
        /\ w.index = v.index /\ w.response = v.response /\ w.sync = v.sync
        /\ w.about = v.about /\ w.parked = v.parked /\ w.ever_ready = v.ever_ready
        /\ w.event = v.event /\ w.serial = v.serial /\ w.correlated = v.correlated
    BY DEF Service, w
  <1>3. QED  BY <1>1, <1>2 DEF Sound, Idle, w

LEMMA NetworkChangedSound ==
    ASSUME NEW v, Sound(v), v.generation < MaxGeneration
    PROVE  LET w == NetworkChanged(v) IN
           /\ Sound(w) /\ w.in_flight = "none" /\ w.operation = NoOperation
           /\ w.generation = v.generation + 1 /\ ~w.ready /\ w.stage = 0 /\ w.index = 0
           /\ w.response = v.response /\ w.sync = v.sync /\ w.about = v.about
           /\ w.parked = v.parked /\ w.ever_ready = v.ever_ready /\ w.event = v.event
  <1> USE CloudAssumption
  <1> DEFINE i == Idle(v)
             w == [i EXCEPT !.generation = @ + 1, !.ready = FALSE, !.stage = 0, !.index = 0,
                            !.product_state = FALSE]
  <1>1. /\ Sound(i) /\ i.in_flight = "none" /\ i.operation = NoOperation
        /\ i.generation = v.generation /\ i.response = v.response /\ i.sync = v.sync
        /\ i.about = v.about /\ i.parked = v.parked /\ i.ever_ready = v.ever_ready
        /\ i.event = v.event
    BY IdleSound DEF Sound
  <1> HIDE DEF i
  <1>2. w \in Service
    <2>1. i.generation + 1 \in 1..MaxGeneration /\ 0 \in Part /\ 0 \in 0..3
      BY <1>1 DEF Sound, Service, Part
    <2>2. i \in Service
      BY <1>1 DEF Sound
    <2> DEFINE g == i.generation + 1
    <2> HIDE DEF g
    <2>3. [i EXCEPT !.generation = g, !.ready = FALSE, !.stage = 0, !.index = 0,
                            !.product_state = FALSE] \in Service
      BY <2>1, <2>2 DEF Service, g
    <2> QED  BY <2>3 DEF g
  <1>3. /\ w.in_flight = "none" /\ w.operation = NoOperation
        /\ w.in_flight_event = i.in_flight_event
        /\ w.in_flight_correlated = i.in_flight_correlated
        /\ w.generation = v.generation + 1 /\ ~w.ready /\ w.stage = 0 /\ w.index = 0
        /\ w.response = v.response /\ w.sync = v.sync /\ w.about = v.about
        /\ w.parked = v.parked /\ w.ever_ready = v.ever_ready /\ w.event = v.event
        /\ w.serial = i.serial /\ w.correlated = i.correlated
    BY <1>1 DEF Sound, Service
  <1>4. NetworkChanged(v) = w
    BY DEF NetworkChanged, i
  <1> HIDE DEF w
  <1>5. QED  BY <1>1, <1>2, <1>3, <1>4 DEF Sound

LEMMA NetworkChangedStep ==
    ASSUME NEW v, NEW snt, NEW ask, NEW ack, NEW shw, Inv(v, snt, ask, ack, shw),
           v.generation < MaxGeneration
    PROVE  Inv(NetworkChanged(v), snt, ask, ack, shw)
  <1> DEFINE w == NetworkChanged(v)
  <1>1. /\ Sound(w) /\ w.in_flight = "none" /\ ~w.ready /\ w.stage = 0
        /\ w.response = v.response /\ w.sync = v.sync /\ w.about = v.about
        /\ w.parked = v.parked
    BY NetworkChangedSound DEF Inv
  <1> HIDE DEF w
  <1>2. Publishing(w, snt)
    BY <1>1 DEF Inv, Publishing
  <1>3. Told(w, shw)
    BY <1>1 DEF Inv, Told
  <1>4. QED  BY <1>1, <1>2, <1>3 DEF Inv, Confirmed, Answers, w

LEMMA SetReadyStep ==
    ASSUME NEW v, NEW snt, NEW ask, NEW ack, NEW shw, Inv(v, snt, ask, ack, shw), ~v.ready
    PROVE  LET w == SetReady(v, TRUE) IN
           /\ Inv(w, snt, ask, ack, shw)
           /\ w.ready /\ w.stage = 1 /\ w.in_flight = "none" /\ w.operation = NoOperation
           /\ w.generation = v.generation /\ w.ever_ready = v.ever_ready
           /\ w.event = v.event /\ w.sync = v.sync
  <1> USE CloudAssumption
  <1> DEFINE w == [v EXCEPT !.ready = TRUE, !.stage = 1, !.heartbeat = TRUE, !.status = TRUE]
  <1>1. SetReady(v, TRUE) = w
    BY DEF SetReady, Inv, Sound, Service
  <1>2. w \in Service
    <2>1. v \in Service /\ 1 \in 0..3
      BY DEF Inv, Sound
    <2>2. QED  BY <2>1 DEF Service
  <1>3. /\ w.ready /\ w.stage = 1 /\ w.in_flight = "none" /\ w.operation = NoOperation
        /\ w.generation = v.generation /\ w.ever_ready = v.ever_ready
        /\ w.event = v.event /\ w.sync = v.sync /\ w.index = 0
        /\ w.in_flight_event = v.in_flight_event
        /\ w.in_flight_correlated = v.in_flight_correlated
        /\ w.response = v.response /\ w.about = v.about /\ w.parked = v.parked
        /\ w.serial = v.serial /\ w.correlated = v.correlated
        /\ v.in_flight = "none"
    BY DEF Inv, Sound, Service
  <1> HIDE DEF w
  <1>4. Sound(w)
    BY <1>2, <1>3 DEF Inv, Sound
  <1>5. Publishing(w, snt)
    BY <1>3 DEF Inv, Publishing
  <1>6. Told(w, shw)
    BY <1>3 DEF Inv, Told
  <1>7. Confirmed(w, snt, ack, shw)
    BY <1>3 DEF Inv, Confirmed
  <1>8. Answers(w, ask, ack)
    BY <1>3 DEF Inv, Answers
  <1>9. Inv(w, snt, ask, ack, shw)
    BY <1>4, <1>5, <1>6, <1>7, <1>8 DEF Inv
  <1>10. QED  BY <1>1, <1>3, <1>9

LEMMA CancelResponseStep ==
    ASSUME NEW v, NEW snt, NEW ask, NEW ack, NEW shw, Inv(v, snt, ask, ack, shw)
    PROVE  LET w == CancelResponse(v) IN
           /\ Inv(w, snt, ask, ack, shw)
           /\ w.generation = v.generation /\ w.ready = v.ready /\ w.stage = v.stage
           /\ w.ever_ready = v.ever_ready /\ w.event = v.event /\ w.sync = v.sync
           /\ \/ w.in_flight = v.in_flight /\ w.operation = v.operation
              \/ v.in_flight = "response" /\ w.in_flight = "none"
  <1> USE CloudAssumption
  <1> DEFINE u == [v EXCEPT !.response = NoRequest, !.response_sync = FALSE]
  <1>1. u \in Service
    BY DEF Inv, Sound, Service, Asked
  <1>2. /\ u.generation = v.generation /\ u.ready = v.ready /\ u.stage = v.stage
        /\ u.in_flight = v.in_flight /\ u.operation = v.operation /\ u.index = v.index
        /\ u.in_flight_event = v.in_flight_event /\ u.count = v.count
        /\ u.in_flight_correlated = v.in_flight_correlated /\ u.ever_ready = v.ever_ready
        /\ u.event = v.event /\ u.serial = v.serial /\ u.correlated = v.correlated
        /\ u.sync = v.sync /\ u.about = v.about /\ u.parked = v.parked
        /\ u.response = NoRequest
    BY DEF Inv, Sound, Service
  <1> HIDE DEF u
  <1>3. Answers(u, ask, ack)
    BY <1>2 DEF Inv, Answers
  <1>4. CASE v.in_flight # "response"
    <2>1. CancelResponse(v) = u
      BY <1>2, <1>4 DEF CancelResponse, u
    <2>2. Sound(u)
      BY <1>1, <1>2, <1>4 DEF Inv, Sound
    <2>3. SameJob(v, u)
      BY <1>2, <1>4 DEF SameJob
    <2>4. QED  BY <1>2, <1>3, <2>1, <2>2, <2>3, SameJobKeeps
  <1>5. CASE v.in_flight = "response"
    <2> DEFINE w == Idle(u)
    <2>1. CancelResponse(v) = w
      BY <1>2, <1>5 DEF CancelResponse, u
    <2>2. /\ Sound(w) /\ w.in_flight = "none" /\ w.operation = NoOperation
          /\ w.generation = u.generation /\ w.ready = u.ready /\ w.stage = u.stage
          /\ w.index = u.index /\ w.response = u.response /\ w.sync = u.sync
          /\ w.about = u.about /\ w.parked = u.parked /\ w.ever_ready = u.ever_ready
          /\ w.event = u.event
      BY <1>1, <1>2, IdleSound DEF Inv, Sound
    <2> HIDE DEF w
    <2>3. \A op \in Operation : snt[op].status = "active" => snt[op].topic[1] = "response"
      BY <1>5 DEF Inv, Publishing, Place
    <2>4. Publishing(w, snt)
      BY <2>2, <2>3 DEF Inv, Publishing
    <2>5. Told(w, shw)
      BY <1>2, <2>2 DEF Inv, Told
    <2>6. Answers(w, ask, ack)
      BY <1>3, <2>2 DEF Answers
    <2>7. QED  BY <1>2, <1>5, <2>1, <2>2, <2>4, <2>5, <2>6 DEF Inv, Confirmed
  <1>6. QED  BY <1>4, <1>5

-----------------------------------------------------------------------------
(* The ladder of Next: what the first rung that is due says of the record. *)
LEMMA MinIsFirst ==
    ASSUME NEW S \in SUBSET (1..11), S # {}
    PROVE  Min(S) \in S /\ \A n \in S : Min(S) <= n
  <1>1. \E m \in S : \A n \in S : m <= n
    <2> SUFFICES ASSUME \A m \in S : \E n \in S : n < m PROVE FALSE
      OBVIOUS
    <2>1. \A m \in S : m > 1
      OBVIOUS
    <2>2. \A m \in S : m > 2
      BY <2>1
    <2>3. \A m \in S : m > 3
      BY <2>2
    <2>4. \A m \in S : m > 4
      BY <2>3
    <2>5. \A m \in S : m > 5
      BY <2>4
    <2>6. \A m \in S : m > 6
      BY <2>5
    <2>7. \A m \in S : m > 7
      BY <2>6
    <2>8. \A m \in S : m > 8
      BY <2>7
    <2>9. \A m \in S : m > 9
      BY <2>8
    <2>10. \A m \in S : m > 10
      BY <2>9
    <2>11. PICK m \in S : TRUE
      OBVIOUS
    <2>12. PICK n \in S : n < m
      OBVIOUS
    <2>13. m > 10 /\ n > 10 /\ m \in 1..11 /\ n \in 1..11
      BY <2>10
    <2>14. QED  BY <2>12, <2>13
  <1>2. QED  BY <1>1 DEF Min

NextFacts(v, job) ==
    /\ v.ready /\ v.in_flight = "none"
    /\ job.kind \in Kind /\ job.id \in {v.response, v.sync, v.parked, NoRequest}
    /\ job.kind \in {"manifest", "heartbeat", "state"} =>
          v.stage = 0 \/ job.kind = Due(v.stage)
    /\ job.kind \in {"product_state", "external"} => v.stage = 0
    /\ job.kind = "response" =>
          /\ job.id # NoRequest
          /\ job.id = v.response \/ v.response = NoRequest
    /\ job.kind = "state" /\ v.stage = 0 => job.id = v.sync
    /\ job.kind = "state" /\ v.stage = 0 /\ job.about = "periodic" => v.sync = NoRequest /\ ~v.event

LEMMA NextIsDue ==
    ASSUME NEW v, Sound(v), NEW job, job = NextJob(v), job # NoJob
    PROVE  NextFacts(v, job)
  <1> DEFINE due == {n \in 1..11 : Ladder(v)[n][1]}
             k == Min(due)
  <1>1. v.ready /\ v.in_flight = "none" /\ due # {} /\ job = Ladder(v)[k][2]
    BY DEF NextJob
  <1>2. k \in due /\ \A n \in due : k <= n
    BY <1>1, MinIsFirst
  <1> HIDE DEF k
  <1>3. \A n \in 1..11 : n < k => ~Ladder(v)[n][1]
    BY <1>2
  <1>4. Ladder(v)[k][1] /\ k \in 1..11
    BY <1>2
  <1> HIDE DEF due
  <1> DEFINE Rungs(n) == v.stage \in 0..3 /\ (n > 4 => v.stage = 0) /\ (n > 7 => v.sync = NoRequest)
                         /\ (n > 9 => ~v.event) /\ (n > 6 => v.response = NoRequest)
  <1>5. Rungs(k)
    <2>1. v.stage \in 0..3
      BY DEF Sound, Service
    <2>2. ASSUME k > 4 PROVE v.stage = 0
      <3>1. ~Ladder(v)[2][1] /\ ~Ladder(v)[3][1] /\ ~Ladder(v)[4][1]
        BY <1>3, <1>4, <2>2
      <3>2. v.stage # 1
        BY <3>1 DEF Ladder
      <3>3. v.stage # 2
        BY <3>1 DEF Ladder
      <3>4. v.stage # 3
        BY <3>1 DEF Ladder
      <3>5. QED  BY <2>1, <3>2, <3>3, <3>4
    <2>3. ASSUME k > 7 PROVE v.sync = NoRequest
      <3>1. ~Ladder(v)[7][1]
        BY <1>3, <1>4, <2>3
      <3>2. QED  BY <3>1 DEF Ladder
    <2>4. ASSUME k > 9 PROVE ~v.event
      <3>1. ~Ladder(v)[9][1]
        BY <1>3, <1>4, <2>4
      <3>2. QED  BY <3>1 DEF Ladder
    <2>5. ASSUME k > 6 PROVE v.response = NoRequest
      <3>1. ~Ladder(v)[6][1]
        BY <1>3, <1>4, <2>5
      <3>2. QED  BY <3>1 DEF Ladder
    <2>6. QED  BY <2>1, <2>2, <2>3, <2>4, <2>5
  <1>a. Due(1) = "manifest" /\ Due(2) = "heartbeat" /\ Due(3) = "state"
    BY DEF Due
  <1>6. CASE k = 1
    <2>1. job = Job("response", "none", v.response) /\ v.response # NoRequest
      BY <1>1, <1>4, <1>6 DEF Ladder
    <2>2. job.kind = "response" /\ job.about = "none" /\ job.id = v.response
      BY <2>1 DEF Job
    <2>3. QED  BY <1>1, <1>5, <1>6, <1>a, <2>1, <2>2 DEF NextFacts, Kind
  <1>7. CASE k = 2
    <2>1. job = Job("manifest", "none", NoRequest) /\ v.stage = 1
      BY <1>1, <1>4, <1>7 DEF Ladder
    <2>2. job.kind = "manifest" /\ job.about = "none" /\ job.id = NoRequest
      BY <2>1 DEF Job
    <2>3. QED  BY <1>1, <1>5, <1>7, <1>a, <2>1, <2>2 DEF NextFacts, Kind
  <1>8. CASE k = 3
    <2>1. job = Job("heartbeat", "none", NoRequest) /\ v.stage = 2
      BY <1>1, <1>4, <1>8 DEF Ladder
    <2>2. job.kind = "heartbeat" /\ job.about = "none" /\ job.id = NoRequest
      BY <2>1 DEF Job
    <2>3. QED  BY <1>1, <1>5, <1>8, <1>a, <2>1, <2>2 DEF NextFacts, Kind
  <1>9. CASE k = 4
    <2>1. job = Job("state", "bootstrap", NoRequest) /\ v.stage = 3
      BY <1>1, <1>4, <1>9 DEF Ladder
    <2>2. job.kind = "state" /\ job.about = "bootstrap" /\ job.id = NoRequest
      BY <2>1 DEF Job
    <2>3. QED  BY <1>1, <1>5, <1>9, <1>a, <2>1, <2>2 DEF NextFacts, Kind
  <1>10. CASE k = 5
    <2>1. job = Job("product_state", "none", NoRequest) /\ v.product_state
      BY <1>1, <1>4, <1>10 DEF Ladder
    <2>2. job.kind = "product_state" /\ job.about = "none" /\ job.id = NoRequest
      BY <2>1 DEF Job
    <2>3. QED  BY <1>1, <1>5, <1>10, <1>a, <2>1, <2>2 DEF NextFacts, Kind
  <1>11. CASE k = 6
    <2>1. job = Job("response", "none", v.response) /\ v.response # NoRequest
      BY <1>1, <1>4, <1>11 DEF Ladder
    <2>2. job.kind = "response" /\ job.about = "none" /\ job.id = v.response
      BY <2>1 DEF Job
    <2>3. QED  BY <1>1, <1>5, <1>11, <1>a, <2>1, <2>2 DEF NextFacts, Kind
  <1>12. CASE k = 7
    <2>1. job = Job("state", v.about, v.sync) /\ v.sync # NoRequest
      BY <1>1, <1>4, <1>12 DEF Ladder
    <2>2. v.about # "periodic"
      BY DEF Sound, Service
    <2>3. job.kind = "state" /\ job.about = v.about /\ job.id = v.sync
      BY <2>1 DEF Job
    <2>4. QED  BY <1>1, <1>5, <1>12, <1>a, <2>1, <2>2, <2>3 DEF NextFacts, Kind
  <1>13. CASE k = 8
    <2>1. job = Job("response", "none", v.parked) /\ v.parked # NoRequest
      BY <1>1, <1>4, <1>13 DEF Ladder
    <2>2. job.kind = "response" /\ job.about = "none" /\ job.id = v.parked
      BY <2>1 DEF Job
    <2>3. QED  BY <1>1, <1>5, <1>13, <1>a, <2>1, <2>2 DEF NextFacts, Kind
  <1>14. CASE k = 9
    <2>1. job = Job("state", "event", NoRequest) /\ v.event
      BY <1>1, <1>4, <1>14 DEF Ladder
    <2>2. job.kind = "state" /\ job.about = "event" /\ job.id = NoRequest
      BY <2>1 DEF Job
    <2>3. QED  BY <1>1, <1>5, <1>14, <1>a, <2>1, <2>2 DEF NextFacts, Kind
  <1>15. CASE k = 10
    <2>1. job = Job("heartbeat", "none", NoRequest) /\ v.heartbeat
      BY <1>1, <1>4, <1>15 DEF Ladder
    <2>2. job.kind = "heartbeat" /\ job.about = "none" /\ job.id = NoRequest
      BY <2>1 DEF Job
    <2>3. QED  BY <1>1, <1>5, <1>15, <1>a, <2>1, <2>2 DEF NextFacts, Kind
  <1>16. CASE k = 11
    <2>1. job = Job("state", "periodic", NoRequest) /\ v.status
      BY <1>1, <1>4, <1>16 DEF Ladder
    <2>2. job.kind = "state" /\ job.about = "periodic" /\ job.id = NoRequest
      BY <2>1 DEF Job
    <2>3. QED  BY <1>1, <1>5, <1>16, <1>a, <2>1, <2>2 DEF NextFacts, Kind
  <1>17. QED  BY <1>4, <1>6, <1>7, <1>8, <1>9, <1>10, <1>11, <1>12, <1>13, <1>14, <1>15, <1>16

-----------------------------------------------------------------------------
(* A job is handed to the transport.                                       *)
LEMMA ContentFacts ==
    ASSUME NEW v, Sound(v), NEW job, job.kind \in Kind, job.id \in Asked
    PROVE  LET c == Content(v, job) IN
           /\ Entry(c) /\ c.status = "active" /\ c.generation = v.generation /\ c.id = job.id
           /\ c.topic = <<job.kind, IF job.kind = "state" THEN v.index ELSE 0>>
           /\ c.tells.generation = v.generation
           /\ job.kind = "state" => c.tells.serial = v.serial
           /\ job.kind = "state" /\ job.id # NoRequest => c.tells.correlated = v.correlated
  <1> USE CloudAssumption
  <1> DEFINE i == IF job.kind = "state" THEN v.index ELSE 0
             n == IF job.kind = "state" THEN v.serial ELSE 0
             r == IF job.kind = "state" /\ job.id # NoRequest THEN v.correlated ELSE 0
             t == [generation |-> v.generation, serial |-> n, correlated |-> r]
             c == [status |-> "active", generation |-> v.generation, id |-> job.id,
                   topic |-> <<job.kind, i>>, tells |-> t]
  <1>1. Content(v, job) = c
    BY DEF Content
  <1>2. v.generation \in 1..MaxGeneration /\ i \in Part /\ n \in 0..MaxWake /\ r \in Nat
    BY DEF Sound, Service, Part
  <1>3. t \in Tells
    <2> HIDE DEF n, r
    <2>1. v.generation \in 0..MaxGeneration
      BY <1>2
    <2>2. QED  BY <1>2, <2>1 DEF Tells
  <1>4. /\ c.status = "active" /\ c.generation = v.generation /\ c.id = job.id
        /\ c.topic = <<job.kind, i>> /\ c.tells = t
    OBVIOUS
  <1>5. Entry(c)
    <2> HIDE DEF c, i, t
    <2>1. <<job.kind, i>> \in Kind \X Part
      BY <1>2
    <2>2. QED  BY <1>2, <1>3, <1>4, <2>1 DEF Entry
  <1>6. /\ t.generation = v.generation /\ t.serial = n /\ t.correlated = r
    OBVIOUS
  <1> HIDE DEF c, t
  <1>7. QED  BY <1>1, <1>4, <1>5, <1>6

LEMMA PublishesOne ==
    ASSUME NEW v, NEW w, NEW snt, NEW ask, NEW ack, NEW shw, Inv(v, snt, ask, ack, shw),
           NEW op \in Operation, \A o \in Operation : snt[o].status # "active",
           NEW c, Entry(c), c.status = "active",
           c.topic[1] = "response" => c.id \in ask,
           v.in_flight = "none", Sound(w), Answers(w, ask, ack),
           w.generation = v.generation, w.ready = v.ready, w.stage = v.stage, w.index = v.index,
           c.generation = v.generation,
           \/ w.in_flight = "none" /\ c.topic[1] = "response"
           \/ /\ w.in_flight # "none" /\ w.operation = op
              /\ c.topic = Place(w) /\ TellsOf(w, c.tells)
              /\ w.in_flight = "response" => c.id = w.response
    PROVE  Inv(w, [snt EXCEPT ![op] = c], ask, ack, shw)
  <1> DEFINE snt2 == [snt EXCEPT ![op] = c]
  <1>1. snt = [o \in Operation |-> snt[o]]
    BY DEF Inv, Publishing
  <1>2. /\ snt2 = [o \in Operation |-> snt2[o]] /\ snt2[op] = c
        /\ \A o \in Operation : o # op => snt2[o] = snt[o]
    BY <1>1
  <1> HIDE DEF snt2
  <1>3. \A o \in Operation : snt2[o].status = "active" => o = op
    BY <1>2
  <1>4. w.in_flight # "none" => w.operation = op
    BY DEF Sound
  <1>5. Publishing(w, snt2)
    <2>1. \A o \in Operation : Entry(snt2[o])
      BY <1>2 DEF Inv, Publishing
    <2>2. QED  BY <1>2, <1>3, <1>4, <2>1 DEF Publishing
  <1>6. Confirmed(w, snt2, ack, shw)
    BY <1>2, <1>4 DEF Confirmed
  <1>7. Told(w, shw)
    BY DEF Inv, Told
  <1>8. KnownIds(snt2, ask)
    BY <1>2, <1>3 DEF KnownIds
  <1>9. QED  BY <1>5, <1>6, <1>7, <1>8 DEF Inv, snt2

(* Nothing that waits is taken off by the beginning of a job.              *)
Begun(v, w) ==
    /\ w.generation = v.generation /\ w.ready = v.ready /\ w.stage = v.stage
    /\ w.index = v.index /\ w.ever_ready = v.ever_ready /\ w.event = v.event /\ w.sync = v.sync

LEMMA BeginExternalFacts ==
    ASSUME NEW v, Sound(v), v.ready, v.in_flight = "none", NEW op \in Operation
    PROVE  LET w == [v EXCEPT !.in_flight = "external", !.operation = op] IN
           /\ Sound(w) /\ Begun(v, w) /\ w.in_flight = "external" /\ w.operation = op
           /\ w.in_flight_event = 0 /\ w.in_flight_correlated = 0
           /\ w.response = v.response /\ w.about = v.about /\ w.parked = v.parked
  <1> USE CloudAssumption
  <1> DEFINE w == [v EXCEPT !.in_flight = "external", !.operation = op]
  <1>1. w \in Service
    <2>1. v \in Service /\ "external" \in Kind \cup {"none"} /\ op \in Operation \cup {NoOperation}
      BY DEF Sound, Kind
    <2>2. QED  BY <2>1 DEF Service
  <1>2. /\ w.generation = v.generation /\ w.ready = v.ready /\ w.stage = v.stage
        /\ w.index = v.index /\ w.ever_ready = v.ever_ready /\ w.event = v.event
        /\ w.sync = v.sync /\ w.in_flight = "external" /\ w.operation = op
        /\ w.in_flight_event = v.in_flight_event
        /\ w.in_flight_correlated = v.in_flight_correlated
        /\ w.response = v.response /\ w.about = v.about /\ w.parked = v.parked
        /\ w.serial = v.serial /\ w.correlated = v.correlated
    BY DEF Sound, Service
  <1> HIDE DEF w
  <1>3. QED  BY <1>1, <1>2 DEF Sound, Begun, w

LEMMA BeginFacts ==
    ASSUME NEW v, Sound(v), NEW op \in Operation, NEW job, job # NoJob,
           job = NextJob(v), job.kind = "response" => v.response # NoRequest
    PROVE  LET w == Begin(v, job, op) IN
           /\ Sound(w) /\ Begun(v, w) /\ w.in_flight = job.kind /\ w.operation = op
           /\ w.in_flight_event # 0 => w.in_flight_event = v.serial /\ job.kind = "state"
           /\ w.in_flight_correlated # 0 =>
                 /\ w.in_flight_correlated = v.correlated
                 /\ job.kind = "state" /\ job.id # NoRequest
           /\ w.response = v.response /\ w.about = v.about /\ w.parked = v.parked
  <1> USE CloudAssumption
  <1> DEFINE settled == job.kind = "state" /\ v.stage = 0
             c == IF settled /\ job.about = "periodic" /\ Periodic # 0 THEN Periodic ELSE States
             e == IF settled /\ v.sync = NoRequest /\ v.event THEN v.serial ELSE 0
             r == IF settled /\ v.sync # NoRequest THEN v.correlated ELSE 0
             w == [v EXCEPT !.in_flight = job.kind, !.operation = op, !.count = c,
                            !.in_flight_event = e, !.in_flight_correlated = r]
  <1>1. NextFacts(v, job)
    BY NextIsDue
  <1>2. job.kind \in Kind /\ job.kind # "none"
    BY <1>1 DEF NextFacts, Kind
  <1>3. Begin(v, job, op) = w
    BY <1>2 DEF Begin
  <1>4. /\ c \in 0..States /\ e \in 0..MaxWake /\ r \in Nat
        /\ e # 0 => settled /\ v.sync = NoRequest /\ v.event /\ e = v.serial
        /\ r # 0 => settled /\ v.sync # NoRequest /\ r = v.correlated
        /\ ~(settled /\ job.about = "periodic") => c = States
    BY DEF Sound, Service
  <1>5. e # 0 \/ r # 0 => c = States /\ job.kind = "state"
    BY <1>1, <1>4 DEF NextFacts
  <1>6. r # 0 => job.id # NoRequest
    BY <1>1, <1>4 DEF NextFacts
  <1>7. job.kind = "state" /\ v.stage # 0 => c = States
    BY <1>4
  <1> HIDE DEF c, e, r
  <1>8. w \in Service
    <2>1. v \in Service /\ job.kind \in Kind \cup {"none"} /\ op \in Operation \cup {NoOperation}
      BY <1>2 DEF Sound
    <2>2. QED  BY <1>4, <2>1 DEF Service
  <1>9. /\ w.generation = v.generation /\ w.ready = v.ready /\ w.stage = v.stage
        /\ w.index = v.index /\ w.ever_ready = v.ever_ready /\ w.event = v.event
        /\ w.sync = v.sync /\ w.in_flight = job.kind /\ w.operation = op
        /\ w.count = c /\ w.in_flight_event = e /\ w.in_flight_correlated = r
        /\ w.response = v.response /\ w.about = v.about /\ w.parked = v.parked
        /\ w.serial = v.serial /\ w.correlated = v.correlated
    BY DEF Sound, Service
  <1> HIDE DEF w
  <1>10. job.kind # "none" /\ (v.stage # 0 => job.kind \in {"response", Due(v.stage)})
    <2>1. v.stage # 0 => job.kind \notin {"product_state", "external"}
      BY <1>1 DEF NextFacts
    <2>2. QED  BY <1>1, <1>2, <2>1 DEF NextFacts, Kind
  <1>11. Sound(w)
    <2>1. v.ready
      BY <1>1 DEF NextFacts
    <2>2. QED  BY <1>5, <1>7, <1>8, <1>9, <1>10, <2>1 DEF Sound
  <1>12. QED  BY <1>3, <1>4, <1>5, <1>6, <1>9, <1>11 DEF Begun

(* What follows when Poll hands over a job: the job is under way, or a     *)
(* response was refused although the product may have published it.        *)
Issued(v, w) ==
    /\ Begun(v, w)
    /\ v.stage # 0 => w.in_flight \in {"none", "response", "external", Due(v.stage)}

LEMMA ExternalIssued ==
    ASSUME NEW v, NEW snt, NEW ask, NEW ack, NEW shw, Inv(v, snt, ask, ack, shw),
           v.ready, v.in_flight = "none", MayYield(v, NextJob(v)),
           NEW op \in Operation, \A o \in Operation : snt[o].status # "active"
    PROVE  LET w == BeginExternal(v, op)
               job == Job("external", "none", NoRequest) IN
           /\ Inv(w, [snt EXCEPT ![op] = Content(v, job)], ask, ack, shw)
           /\ Issued(v, w)
  <1> DEFINE w == [v EXCEPT !.in_flight = "external", !.operation = op]
             job == Job("external", "none", NoRequest)
             c == Content(v, job)
  <1>1. BeginExternal(v, op) = w
    BY DEF BeginExternal
  <1>2. /\ Sound(w) /\ Begun(v, w) /\ w.in_flight = "external" /\ w.operation = op
        /\ w.in_flight_event = 0 /\ w.in_flight_correlated = 0
        /\ w.response = v.response /\ w.about = v.about /\ w.parked = v.parked
    BY BeginExternalFacts DEF Inv
  <1>3. job.kind = "external" /\ job.id = NoRequest /\ job.kind \in Kind /\ job.id \in Asked
    BY DEF Job, Kind, Asked
  <1>4. /\ Entry(c) /\ c.status = "active" /\ c.generation = v.generation
        /\ c.topic = <<"external", 0>> /\ c.tells.generation = v.generation
    BY <1>3, ContentFacts DEF Inv
  <1> HIDE DEF w, c
  <1>5. Place(w) = c.topic /\ c.topic[1] = "external"
    BY <1>2, <1>4 DEF Place
  <1>6. TellsOf(w, c.tells)
    BY <1>2, <1>4 DEF TellsOf, Begun
  <1>7. Answers(w, ask, ack)
    BY <1>2 DEF Inv, Answers, Begun
  <1>8. Inv(w, [snt EXCEPT ![op] = c], ask, ack, shw)
    BY <1>2, <1>4, <1>5, <1>6, <1>7, PublishesOne DEF Begun
  <1>9. QED  BY <1>1, <1>2, <1>8 DEF Issued, c

LEMMA JobContent ==
    ASSUME NEW v, NEW snt, NEW ask, NEW ack, NEW shw, Inv(v, snt, ask, ack, shw),
           NEW job, job # NoJob, job = NextJob(v)
    PROVE  LET c == Content(v, job) IN
           /\ NextFacts(v, job) /\ v.in_flight = "none" /\ job.kind \in Kind /\ job.kind # "none"
           /\ job.id \in ask \cup {NoRequest}
           /\ Entry(c) /\ c.status = "active" /\ c.generation = v.generation /\ c.id = job.id
           /\ c.topic = <<job.kind, IF job.kind = "state" THEN v.index ELSE 0>>
           /\ job.kind = "state" => c.tells.serial = v.serial
           /\ job.kind = "state" /\ job.id # NoRequest => c.tells.correlated = v.correlated
           /\ c.tells.generation = v.generation
           /\ c.topic[1] = job.kind /\ (c.topic[1] = "response" => c.id \in ask)
  <1> DEFINE c == Content(v, job)
  <1>1. Sound(v) /\ NextFacts(v, job)
    BY NextIsDue DEF Inv
  <1>2. /\ job.kind \in Kind /\ job.id \in ask \cup {NoRequest} /\ job.id \in Asked
        /\ v.in_flight = "none"
    BY <1>1 DEF NextFacts, Inv, Answers, Asked
  <1>3. /\ Entry(c) /\ c.status = "active" /\ c.generation = v.generation /\ c.id = job.id
        /\ c.topic = <<job.kind, IF job.kind = "state" THEN v.index ELSE 0>>
        /\ c.tells.generation = v.generation
        /\ job.kind = "state" => c.tells.serial = v.serial
        /\ job.kind = "state" /\ job.id # NoRequest => c.tells.correlated = v.correlated
    BY <1>1, <1>2, ContentFacts
  <1> HIDE DEF c
  <1>4. c.topic[1] = job.kind /\ (c.topic[1] = "response" => c.id \in ask)
    BY <1>1, <1>2, <1>3 DEF NextFacts
  <1>5. job.kind # "none"
    BY <1>2 DEF Kind
  <1>6. QED  BY <1>1, <1>2, <1>3, <1>4, <1>5 DEF c

LEMMA JobIssued ==
    ASSUME NEW v, NEW snt, NEW ask, NEW ack, NEW shw, Inv(v, snt, ask, ack, shw),
           NEW job, job # NoJob, job = NextJob(v),
           NEW op \in Operation, \A o \in Operation : snt[o].status # "active"
    PROVE  LET w == Begin(v, job, op) IN
           /\ Inv(w, [snt EXCEPT ![op] = Content(v, job)], ask, ack, shw)
           /\ Issued(v, w)
  <1> DEFINE c == Content(v, job)
             w == Begin(v, job, op)
  <1>1. /\ NextFacts(v, job) /\ v.in_flight = "none" /\ job.kind \in Kind /\ job.kind # "none"
        /\ Entry(c) /\ c.status = "active" /\ c.generation = v.generation /\ c.id = job.id
        /\ c.topic = <<job.kind, IF job.kind = "state" THEN v.index ELSE 0>>
        /\ job.kind = "state" => c.tells.serial = v.serial
        /\ job.kind = "state" /\ job.id # NoRequest => c.tells.correlated = v.correlated
        /\ c.tells.generation = v.generation
        /\ c.topic[1] = job.kind /\ (c.topic[1] = "response" => c.id \in ask)
    BY JobContent
  <1>2. Sound(v) /\ Answers(v, ask, ack)
    BY DEF Inv
  <1>3. CASE job.kind = "response" => v.response # NoRequest
    <2>1. /\ Sound(w) /\ Begun(v, w) /\ w.in_flight = job.kind /\ w.operation = op
          /\ w.in_flight_event # 0 => w.in_flight_event = v.serial /\ job.kind = "state"
          /\ w.in_flight_correlated # 0 =>
                /\ w.in_flight_correlated = v.correlated
                /\ job.kind = "state" /\ job.id # NoRequest
          /\ w.response = v.response /\ w.about = v.about /\ w.parked = v.parked
      BY <1>2, <1>3, BeginFacts
    <2> HIDE DEF c, w
    <2>2. c.topic = Place(w) /\ TellsOf(w, c.tells)
      BY <1>1, <2>1 DEF Place, TellsOf, Begun
    <2>3. w.in_flight = "response" => c.id = w.response
      BY <1>1, <1>3, <2>1 DEF NextFacts
    <2>4. Answers(w, ask, ack)
      BY <1>2, <2>1 DEF Answers, Begun
    <2>5. Inv(w, [snt EXCEPT ![op] = c], ask, ack, shw)
      BY <1>1, <2>1, <2>2, <2>3, <2>4, PublishesOne DEF Begun
    <2>6. v.stage # 0 => job.kind \in {"response", Due(v.stage)}
      BY <1>1 DEF NextFacts, Kind
    <2>7. QED  BY <2>1, <2>5, <2>6 DEF Issued, c, w
  <1>4. CASE job.kind = "response" /\ v.response = NoRequest
    <2>1. w = v
      BY <1>4 DEF Begin
    <2> HIDE DEF c, w
    <2>2. Begun(v, v)
      BY DEF Begun
    <2>3. Inv(v, [snt EXCEPT ![op] = c], ask, ack, shw)
      BY <1>1, <1>2, <1>4, PublishesOne
    <2>4. QED  BY <1>1, <2>1, <2>2, <2>3 DEF Issued, c, w
  <1>5. QED  BY <1>3, <1>4

(* A parked request that the product adopts.                               *)
LEMMA ParkedAdopted ==
    ASSUME NEW v, NEW snt, NEW ask, NEW ack, NEW shw, Inv(v, snt, ask, ack, shw),
           NEW job, job # NoJob, job = NextJob(v), Parked(v, job)
    PROVE  LET u == Adopted(v, job) IN
           /\ Inv(u, snt, ask, ack, shw) /\ Begun(v, u) /\ u.in_flight = "none"
  <1> DEFINE u == Adopted(v, job)
  <1>1. /\ Sound(v) /\ Answers(v, ask, ack) /\ NextFacts(v, job) /\ v.in_flight = "none"
        /\ job.id \in ask \cup {NoRequest}
    BY JobContent DEF Inv
  <1>2. job.id \in ask /\ job.id \in Request
    BY <1>1 DEF NextFacts, Answers, Parked
  <1>3. /\ Sound(u) /\ SameJob(v, u)
        /\ u.response \in {v.response, job.id} /\ u.sync = v.sync /\ u.about = v.about
        /\ u.parked \in {v.parked, NoRequest}
    BY <1>1, <1>2, QueueResponseKeeps DEF Adopted
  <1>4. u.event = v.event
    <2>1. v \in Service
      BY <1>1 DEF Sound
    <2> DEFINE parked == IF v.parked = job.id THEN NoRequest ELSE v.parked
               r == [v EXCEPT !.response = job.id, !.response_sync = TRUE, !.parked = parked]
    <2>2. u = v \/ u = r
      BY DEF Adopted, QueueResponse
    <2>3. r.event = v.event
      BY <2>1 DEF Service
    <2>4. QED  BY <2>2, <2>3
  <1> HIDE DEF u
  <1>5. Answers(u, ask, ack)
    BY <1>1, <1>2, <1>3 DEF Answers
  <1>6. Inv(u, snt, ask, ack, shw)
    BY <1>3, <1>5, SameJobKeeps
  <1>7. QED  BY <1>1, <1>3, <1>4, <1>6 DEF SameJob, Begun, u

(* Begin compares the job with the response it has become, and finds its   *)
(* id gone.                                                                *)
LEMMA ParkedIssued ==
    ASSUME NEW v, NEW snt, NEW ask, NEW ack, NEW shw, Inv(v, snt, ask, ack, shw),
           NEW job, job # NoJob, job = NextJob(v), Parked(v, job),
           NEW op \in Operation, \A o \in Operation : snt[o].status # "active"
    PROVE  LET w == Begin(Adopted(v, job), Emptied(job), op) IN
           /\ Inv(w, [snt EXCEPT ![op] = Content(v, job)], ask, ack, shw)
           /\ Issued(v, w)
  <1> DEFINE c == Content(v, job)
             u == Adopted(v, job)
             w == Begin(u, Emptied(job), op)
  <1>1. Inv(u, snt, ask, ack, shw) /\ Begun(v, u) /\ u.in_flight = "none"
    BY ParkedAdopted
  <1>2. /\ v.in_flight = "none" /\ Entry(c) /\ c.status = "active" /\ c.generation = v.generation
        /\ c.topic[1] = job.kind /\ (c.topic[1] = "response" => c.id \in ask)
    BY JobContent
  <1>3. w = u
    <2> DEFINE j == Emptied(job)
    <2>1. j.id = NoRequest /\ j.kind = "response"
      <3>1. \E n \in 1..11 : job = Ladder(v)[n][2]
        <4> DEFINE due == {n \in 1..11 : Ladder(v)[n][1]}
        <4>1. due # {} /\ job = Ladder(v)[Min(due)][2]
          BY DEF NextJob
        <4>2. Min(due) \in due
          BY <4>1, MinIsFirst
        <4>3. QED  BY <4>1, <4>2
      <3>2. \E k, about, id : job = Job(k, about, id)
        BY <3>1 DEF Ladder
      <3>3. QED  BY <3>2 DEF Job, Emptied, Parked
    <2>2. j # NextJob(u)
      <3> SUFFICES ASSUME j = NextJob(u) PROVE FALSE
        OBVIOUS
      <3>1. j # NoJob
        BY <2>1 DEF NoJob, Job
      <3> HIDE DEF j, u
      <3>2. NextFacts(u, j)
        BY <1>1, <3>1, NextIsDue DEF Inv
      <3>3. QED  BY <2>1, <3>2 DEF NextFacts
    <2>3. QED  BY <2>2 DEF Begin
  <1> HIDE DEF c, u, w
  <1>4. Sound(u) /\ Answers(u, ask, ack) /\ c.topic[1] = "response"
    BY <1>1, <1>2 DEF Inv, Parked
  <1>5. Inv(u, [snt EXCEPT ![op] = c], ask, ack, shw)
    BY <1>1, <1>2, <1>4, PublishesOne DEF Begun
  <1>6. QED  BY <1>1, <1>3, <1>5 DEF Issued, c, u, w

-----------------------------------------------------------------------------
(* A confirmed job: how far the cursor comes, and what no longer waits.    *)
Kept(v, u) ==
    /\ u \in Service
    /\ u.generation = v.generation /\ u.ready = v.ready
    /\ u.event => u.serial # 0
    /\ u.sync # NoRequest => u.correlated # 0
    /\ u.parked = v.parked /\ u.response \in {v.response, NoRequest}
    /\ \/ u.sync = v.sync /\ u.about = v.about
       \/ u.sync = NoRequest
       \/ v.in_flight = "response" /\ u.sync = v.response /\ u.about = "sync_state"

Moved(v, u) ==
    IF v.stage # 0 /\ v.in_flight = Due(v.stage)
    THEN \/ /\ v.in_flight # "state" /\ u.stage = v.stage + 1 /\ u.index = v.index
            /\ u.ever_ready = v.ever_ready
         \/ /\ v.in_flight = "state" /\ v.index + 1 < States
            /\ u.stage = v.stage /\ u.index = v.index + 1 /\ u.ever_ready = v.ever_ready
         \/ /\ v.in_flight = "state" /\ v.index + 1 = States
            /\ u.stage = 0 /\ u.index = 0 /\ u.ever_ready
    ELSE /\ u.stage = v.stage /\ u.ever_ready = v.ever_ready
         /\ v.stage # 0 => u.index = v.index

(* Whatever waits is taken off only by a whole report that knew of it.     *)
Taken(v, u) ==
    /\ v.event /\ ~u.event =>
          /\ v.in_flight = "state" /\ v.stage = 0 /\ v.index + 1 >= v.count
          /\ v.serial = v.in_flight_event
    /\ v.sync # NoRequest /\ u.sync = NoRequest =>
          /\ v.in_flight = "state" /\ v.stage = 0 /\ v.index + 1 >= v.count
          /\ v.correlated = v.in_flight_correlated

LEMMA RespondedFacts ==
    ASSUME NEW v, Sound(v), v.in_flight = "response"
    PROVE  LET u == Completed(v, "response") IN Kept(v, u) /\ Moved(v, u) /\ Taken(v, u)
  <1> USE CloudAssumption
  <1> DEFINE u == [v EXCEPT !.response = NoRequest, !.response_sync = FALSE]
             c == v.correlated + 1
             w == [u EXCEPT !.sync = v.response, !.about = "sync_state", !.correlated = c]
  <1>1. v.response # NoRequest /\ v.response \in Asked /\ v.stage \in 0..3 /\ Due(v.stage) # "response"
    BY DEF Sound, Service, Due
  <1>2. /\ u \in Service
        /\ u.generation = v.generation /\ u.ready = v.ready /\ u.stage = v.stage
        /\ u.index = v.index /\ u.ever_ready = v.ever_ready /\ u.event = v.event
        /\ u.serial = v.serial /\ u.correlated = v.correlated /\ u.sync = v.sync
        /\ u.about = v.about /\ u.parked = v.parked /\ u.response = NoRequest
    BY DEF Sound, Service, Asked
  <1>3. c \in Nat /\ c # 0
    BY DEF Sound, Service
  <1>4. Completed(v, "response") = u \/ Completed(v, "response") = w
    <2>1. Completed(v, "response") = Responded(v)
      BY <1>1 DEF Completed
    <2>2. Correlate(u, v.response, "sync_state") = w
      BY <1>2 DEF Correlate
    <2>3. QED  BY <2>1, <2>2 DEF Responded
  <1> HIDE DEF u, c
  <1>5. CASE Completed(v, "response") = u
    BY <1>1, <1>2, <1>5 DEF Kept, Moved, Taken, Sound
  <1>6. CASE Completed(v, "response") = w
    <2>1. w \in Service
      BY <1>1, <1>2, <1>3 DEF Service
    <2>2. /\ w.generation = v.generation /\ w.ready = v.ready /\ w.stage = v.stage
          /\ w.index = v.index /\ w.ever_ready = v.ever_ready /\ w.event = v.event
          /\ w.serial = v.serial /\ w.correlated = c /\ w.sync = v.response
          /\ w.about = "sync_state" /\ w.parked = v.parked /\ w.response = NoRequest
      BY <1>2 DEF Service
    <2> HIDE DEF w
    <2>3. QED  BY <1>1, <1>3, <1>6, <2>1, <2>2 DEF Kept, Moved, Taken, Sound
  <1>7. QED  BY <1>4, <1>5, <1>6

LEMMA ReportedFacts ==
    ASSUME NEW v, Sound(v), v.in_flight = "state"
    PROVE  LET u == Completed(v, "state") IN Kept(v, u) /\ Moved(v, u) /\ Taken(v, u)
  <1> USE CloudAssumption
  <1>1. /\ v \in Service /\ v.stage \in {0, 3} /\ v.index \in Part /\ v.count \in 0..States
        /\ v.stage = 3 => v.count = States
        /\ (v.event => v.serial # 0) /\ (v.sync # NoRequest => v.correlated # 0)
    BY DEF Sound, Service, Due
  <1>2. CASE v.index + 1 < v.count
    <2> DEFINE i == v.index + 1
               u == [v EXCEPT !.index = i]
    <2>1. i \in Part
      BY <1>1, <1>2 DEF Part
    <2>2. Completed(v, "state") = u
      BY <1>2 DEF Completed
    <2>3. i = v.index + 1
      OBVIOUS
    <2> HIDE DEF i
    <2>4. u \in Service
      BY <1>1, <2>1 DEF Service
    <2>5. /\ u.generation = v.generation /\ u.ready = v.ready /\ u.stage = v.stage
          /\ u.index = i /\ u.ever_ready = v.ever_ready /\ u.event = v.event
          /\ u.serial = v.serial /\ u.correlated = v.correlated /\ u.sync = v.sync
          /\ u.about = v.about /\ u.parked = v.parked /\ u.response = v.response
      BY <1>1 DEF Service
    <2> HIDE DEF u
    <2>6. Kept(v, u) /\ Taken(v, u)
      BY <1>1, <2>4, <2>5 DEF Kept, Taken
    <2>7. Moved(v, u)
      BY <1>1, <1>2, <2>3, <2>5 DEF Moved, Due
    <2>8. QED  BY <2>2, <2>6, <2>7
  <1>3. CASE ~(v.index + 1 < v.count) /\ v.stage = 3
    <2> DEFINE z == [v EXCEPT !.index = 0]
               u == [z EXCEPT !.stage = 0, !.ever_ready = TRUE, !.heartbeat = FALSE,
                              !.status = FALSE]
    <2>1. z \in Service /\ z.stage = 3
      BY <1>1, <1>3 DEF Service, Part
    <2>2. Completed(v, "state") = u
      BY <1>3, <2>1 DEF Completed, Reported
    <2>3. u \in Service
      <3>1. 0 \in 0..3
        OBVIOUS
      <3> HIDE DEF z
      <3>2. QED  BY <2>1, <3>1 DEF Service
    <2>4. /\ u.generation = v.generation /\ u.ready = v.ready /\ u.stage = 0
          /\ u.index = 0 /\ u.ever_ready /\ u.event = v.event
          /\ u.serial = v.serial /\ u.correlated = v.correlated /\ u.sync = v.sync
          /\ u.about = v.about /\ u.parked = v.parked /\ u.response = v.response
      BY <1>1 DEF Service
    <2> HIDE DEF u
    <2>5. Kept(v, u) /\ Taken(v, u)
      BY <1>1, <2>3, <2>4 DEF Kept, Taken
    <2>6. v.index + 1 = States
      BY <1>1, <1>3 DEF Part
    <2>7. Moved(v, u)
      BY <1>1, <1>3, <2>4, <2>6 DEF Moved, Due
    <2>8. QED  BY <2>2, <2>5, <2>7
  <1>4. CASE ~(v.index + 1 < v.count) /\ v.stage = 0
    <2> DEFINE z == [v EXCEPT !.index = 0]
               y == IF z.correlated = z.in_flight_correlated THEN NoRequest ELSE z.sync
               b == IF z.sync = NoRequest /\ z.serial = z.in_flight_event THEN FALSE ELSE z.event
               u == [z EXCEPT !.status = FALSE, !.sync = y, !.event = b]
    <2>1. /\ z \in Service /\ z.stage = 0 /\ z.index = 0
          /\ z.correlated = v.correlated /\ z.in_flight_correlated = v.in_flight_correlated
          /\ z.sync = v.sync /\ z.serial = v.serial /\ z.event = v.event
          /\ z.in_flight_event = v.in_flight_event
          /\ z.generation = v.generation /\ z.ready = v.ready /\ z.ever_ready = v.ever_ready
          /\ z.about = v.about /\ z.parked = v.parked /\ z.response = v.response
      BY <1>1, <1>4 DEF Service, Part
    <2>2. Completed(v, "state") = u
      BY <1>4, <2>1 DEF Completed, Reported
    <2> HIDE DEF z
    <2>3. y \in Asked /\ b \in BOOLEAN /\ (y \in {z.sync, NoRequest}) /\ (b => z.event)
      BY <2>1 DEF Service, Asked
    <2>4. /\ z.sync # NoRequest /\ y = NoRequest => z.correlated = z.in_flight_correlated
          /\ z.event /\ ~b => z.serial = z.in_flight_event
      OBVIOUS
    <2> HIDE DEF y, b
    <2>5. u \in Service
      BY <2>1, <2>3 DEF Service
    <2>6. /\ u.generation = v.generation /\ u.ready = v.ready /\ u.stage = 0
          /\ u.ever_ready = v.ever_ready /\ u.event = b
          /\ u.serial = v.serial /\ u.correlated = v.correlated /\ u.sync = y
          /\ u.about = v.about /\ u.parked = v.parked /\ u.response = v.response
      BY <2>1, <2>3 DEF Service
    <2> HIDE DEF u
    <2>7. Kept(v, u)
      BY <1>1, <2>1, <2>3, <2>5, <2>6 DEF Kept
    <2>8. v.index + 1 >= v.count
      BY <1>1, <1>4 DEF Part
    <2>9. Taken(v, u)
      BY <1>1, <1>4, <2>1, <2>4, <2>6, <2>8 DEF Taken
    <2>10. Moved(v, u)
      BY <1>4, <2>6 DEF Moved
    <2>11. QED  BY <2>2, <2>7, <2>9, <2>10
  <1>5. QED  BY <1>1, <1>2, <1>3, <1>4

LEMMA CompletedFacts ==
    ASSUME NEW v, Sound(v), v.in_flight # "none"
    PROVE  LET u == Completed(v, v.in_flight) IN Kept(v, u) /\ Moved(v, u) /\ Taken(v, u)
  <1> USE CloudAssumption
  <1> DEFINE u == Completed(v, v.in_flight)
             Good(x) == Kept(v, x) /\ Moved(v, x) /\ Taken(v, x)
  <1>1. /\ v \in Service /\ v.in_flight \in Kind /\ v.stage \in 0..3
        /\ (v.event => v.serial # 0) /\ (v.sync # NoRequest => v.correlated # 0)
        /\ v.stage # 0 => v.in_flight \in {"response", "external", Due(v.stage)}
    BY DEF Sound, Service
  <1>2. CASE v.in_flight = "response"
    BY <1>2, RespondedFacts
  <1>3. CASE v.in_flight = "state"
    BY <1>3, ReportedFacts
  <1>4. CASE v.in_flight = "external"
    <2>1. u = v
      BY <1>4 DEF Completed
    <2>2. QED  BY <1>1, <1>4, <2>1 DEF Kept, Moved, Taken, Due
  <1>5. CASE v.in_flight = "product_state"
    <2> DEFINE w == [v EXCEPT !.product_state = FALSE]
    <2>1. u = w
      BY <1>5 DEF Completed
    <2>2. w \in Service
      BY <1>1 DEF Service
    <2>3. /\ w.generation = v.generation /\ w.ready = v.ready /\ w.stage = v.stage
          /\ w.index = v.index /\ w.ever_ready = v.ever_ready /\ w.event = v.event
          /\ w.serial = v.serial /\ w.correlated = v.correlated /\ w.sync = v.sync
          /\ w.about = v.about /\ w.parked = v.parked /\ w.response = v.response
      BY <1>1 DEF Service
    <2>4. v.stage = 0
      BY <1>1, <1>5 DEF Due
    <2> HIDE DEF w
    <2>5. QED  BY <1>1, <1>5, <2>1, <2>2, <2>3, <2>4 DEF Kept, Moved, Taken
  <1>6. CASE v.in_flight = "manifest"
    <2> DEFINE w == [v EXCEPT !.stage = 2]
    <2>1. v.stage \in {0, 1}
      BY <1>1, <1>6 DEF Due
    <2>2. CASE v.stage = 1
      <3>1. u = w
        BY <1>6, <2>2 DEF Completed
      <3>2. w \in Service
        <4>1. 2 \in 0..3
          OBVIOUS
        <4>2. QED  BY <1>1, <4>1 DEF Service
      <3>3. /\ w.generation = v.generation /\ w.ready = v.ready /\ w.stage = 2
            /\ w.index = v.index /\ w.ever_ready = v.ever_ready /\ w.event = v.event
            /\ w.serial = v.serial /\ w.correlated = v.correlated /\ w.sync = v.sync
            /\ w.about = v.about /\ w.parked = v.parked /\ w.response = v.response
        BY <1>1 DEF Service
      <3> HIDE DEF w
      <3>4. QED  BY <1>1, <1>6, <2>2, <3>1, <3>2, <3>3 DEF Kept, Moved, Taken, Due
    <2>3. CASE v.stage = 0
      <3>1. u = v
        BY <1>6, <2>3 DEF Completed
      <3>2. QED  BY <1>1, <1>6, <2>3, <3>1 DEF Kept, Moved, Taken
    <2>4. QED  BY <2>1, <2>2, <2>3
  <1>7. CASE v.in_flight = "heartbeat"
    <2> DEFINE w == [v EXCEPT !.stage = 3]
               z == [v EXCEPT !.heartbeat = FALSE]
    <2>1. v.stage \in {0, 2}
      BY <1>1, <1>7 DEF Due
    <2>2. CASE v.stage = 2
      <3>1. u = w
        BY <1>7, <2>2 DEF Completed
      <3>2. w \in Service
        <4>1. 3 \in 0..3
          OBVIOUS
        <4>2. QED  BY <1>1, <4>1 DEF Service
      <3>3. /\ w.generation = v.generation /\ w.ready = v.ready /\ w.stage = 3
            /\ w.index = v.index /\ w.ever_ready = v.ever_ready /\ w.event = v.event
            /\ w.serial = v.serial /\ w.correlated = v.correlated /\ w.sync = v.sync
            /\ w.about = v.about /\ w.parked = v.parked /\ w.response = v.response
        BY <1>1 DEF Service
      <3> HIDE DEF w
      <3>4. QED  BY <1>1, <1>7, <2>2, <3>1, <3>2, <3>3 DEF Kept, Moved, Taken, Due
    <2>3. CASE v.stage = 0
      <3>1. u = z
        BY <1>7, <2>3 DEF Completed
      <3>2. z \in Service
        BY <1>1 DEF Service
      <3>3. /\ z.generation = v.generation /\ z.ready = v.ready /\ z.stage = v.stage
            /\ z.index = v.index /\ z.ever_ready = v.ever_ready /\ z.event = v.event
            /\ z.serial = v.serial /\ z.correlated = v.correlated /\ z.sync = v.sync
            /\ z.about = v.about /\ z.parked = v.parked /\ z.response = v.response
        BY <1>1 DEF Service
      <3> HIDE DEF z
      <3>4. QED  BY <1>1, <1>7, <2>3, <3>1, <3>2, <3>3 DEF Kept, Moved, Taken
    <2>4. QED  BY <2>1, <2>2, <2>3
  <1>8. QED  BY <1>1, <1>2, <1>3, <1>4, <1>5, <1>6, <1>7 DEF Kind

(* A receipt ends the job under way, if it is the job's own.               *)
Ended(v, w, confirmed) ==
    /\ w.in_flight = "none" /\ w.operation = NoOperation
    /\ w.generation = v.generation /\ w.ready = v.ready
    /\ IF confirmed THEN Moved(v, w) /\ Taken(v, w)
       ELSE /\ w.stage = v.stage /\ w.ever_ready = v.ever_ready
            /\ w.event = v.event /\ w.sync = v.sync

LEMMA ReceiptStep ==
    ASSUME NEW v, NEW snt, NEW ask, NEW ack, NEW shw, Inv(v, snt, ask, ack, shw),
           v.in_flight # "none", snt[v.operation].status # "active",
           NEW confirmed \in BOOLEAN, confirmed => snt[v.operation].status = "confirmed"
    PROVE  LET w == Receipt(v, v.generation, v.operation, confirmed) IN
           Inv(w, snt, ask, ack, shw) /\ Ended(v, w, confirmed)
  <1> USE CloudAssumption
  <1> DEFINE u == IF confirmed THEN Completed(v, v.in_flight) ELSE v
             w == Idle(u)
  <1>1. Receipt(v, v.generation, v.operation, confirmed) = w
    BY DEF Receipt, Own
  <1>2. Sound(v) /\ v \in Service /\ v.stage \in 0..3 /\ v.ready /\ v.index \in Part
    BY DEF Inv, Sound, Service
  <1>3. /\ Kept(v, u)
        /\ IF confirmed THEN Moved(v, u) /\ Taken(v, u) ELSE u = v
    <2>1. CASE confirmed
      BY <1>2, <2>1, CompletedFacts
    <2>2. CASE ~confirmed
      BY <1>2, <2>2 DEF Kept, Sound
    <2>3. QED  BY <2>1, <2>2
  <1> HIDE DEF u
  <1>4. u.stage \in {1, 2} => u.index = 0
    BY <1>2, <1>3 DEF Kept, Moved, Sound, Due
  <1>5. /\ Sound(w) /\ w.in_flight = "none" /\ w.operation = NoOperation
        /\ w.generation = u.generation /\ w.ready = u.ready /\ w.stage = u.stage
        /\ w.index = u.index /\ w.response = u.response /\ w.sync = u.sync
        /\ w.about = u.about /\ w.parked = u.parked /\ w.ever_ready = u.ever_ready
        /\ w.event = u.event
    BY <1>2, <1>3, <1>4, IdleSound DEF Kept
  <1> HIDE DEF w
  <1>6. \A op \in Operation : snt[op].status # "active"
    BY DEF Inv, Publishing
  <1>7. Publishing(w, snt)
    BY <1>5, <1>6 DEF Inv, Publishing
  <1>8. Answers(w, ask, ack)
    BY <1>3, <1>5 DEF Inv, Answers, Confirmed, Kept, Taken
  <1>9. Ended(v, w, confirmed)
    BY <1>3, <1>5 DEF Ended, Kept, Moved, Taken
  <1>10. Told(w, shw)
    <2>1. CASE confirmed /\ v.stage # 0 /\ v.in_flight = Due(v.stage)
      <3>1. Place(v) \in Topic /\ shw[Place(v)].generation = v.generation
        <4>1. Place(v) \in Topic
          BY <1>2, <2>1 DEF Place, Topic, Due
        <4>2. QED  BY <2>1, <4>1 DEF Inv, Confirmed, TellsOf
      <3>2. Moved(v, w) /\ w.ready /\ w.generation = v.generation
        BY <1>2, <1>9, <2>1 DEF Ended
      <3>3. CASE v.stage = 1
        <4>1. Place(v) = <<"manifest", 0>>
          BY <2>1, <3>3 DEF Place, Due
        <4>2. w.stage = 2
          BY <2>1, <3>2, <3>3 DEF Moved, Due
        <4>3. QED  BY <3>1, <3>2, <4>1, <4>2 DEF Inv, Told
      <3>4. CASE v.stage = 2
        <4>1. Place(v) = <<"heartbeat", 0>>
          BY <2>1, <3>4 DEF Place, Due
        <4>2. w.stage = 3 /\ w.index = 0
          BY <1>2, <2>1, <3>2, <3>4 DEF Moved, Due, Sound
        <4>3. QED  BY <3>1, <3>2, <3>4, <4>1, <4>2 DEF Inv, Told, Part
      <3>5. CASE v.stage = 3
        <4>1. Place(v) = <<"state", v.index>> /\ v.in_flight = "state"
          BY <2>1, <3>5 DEF Place, Due
        <4>2. \A n \in Part : n < v.index + 1 => shw[<<"state", n>>].generation = v.generation
          <5>1. \A n \in Part : n < v.index + 1 => n = v.index \/ n < v.index
            BY <1>2 DEF Part
          <5>2. QED  BY <3>1, <3>5, <4>1, <5>1 DEF Inv, Told
        <4>3. CASE v.index + 1 < States
          <5>1. w.stage = 3 /\ w.index = v.index + 1
            BY <1>2, <2>1, <3>2, <3>5, <4>1, <4>3 DEF Moved, Part
          <5>2. QED  BY <3>2, <3>5, <4>2, <5>1 DEF Inv, Told
        <4>4. CASE ~(v.index + 1 < States)
          <5>1. w.stage = 0 /\ v.index + 1 = States
            BY <1>2, <2>1, <3>2, <3>5, <4>1, <4>4 DEF Moved, Part
          <5>2. \A n \in Part : shw[<<"state", n>>].generation = v.generation
            <6>1. \A n \in Part : n < v.index + 1
              BY <5>1 DEF Part
            <6>2. QED  BY <4>2, <6>1
          <5>3. \A k \in Topic : shw[k].generation = v.generation
            BY <3>5, <5>2 DEF Inv, Told, Topic
          <5>4. QED  BY <3>2, <5>1, <5>3 DEF Inv, Told
        <4>5. QED  BY <4>3, <4>4
      <3>6. QED  BY <1>2, <2>1, <3>3, <3>4, <3>5
    <2>2. CASE ~(confirmed /\ v.stage # 0 /\ v.in_flight = Due(v.stage))
      <3>1. w.stage = v.stage /\ (v.stage # 0 => w.index = v.index)
        BY <1>3, <1>5, <2>2 DEF Moved
      <3>2. w.ready = v.ready /\ w.generation = v.generation
        BY <1>9 DEF Ended
      <3>3. QED  BY <1>2, <3>1, <3>2 DEF Inv, Told
    <2>3. QED  BY <2>1, <2>2
  <1>11. QED  BY <1>1, <1>5, <1>7, <1>8, <1>9, <1>10 DEF Inv, Confirmed

-----------------------------------------------------------------------------
(* A turn of Poll: a receipt, or none, and then a job, or none.            *)
Middle(v, w) == w = v \/ \E confirmed \in BOOLEAN :
                          /\ v.in_flight # "none" /\ Ended(v, w, confirmed)
                          /\ confirmed => sent[v.operation].status = "confirmed"

PollOf(v, w) == \E m : /\ Middle(v, m) /\ Sound(m)
                       /\ \/ w = m
                          \/ m.in_flight = "none" /\ Issued(m, w)

LEMMA PollKeeps ==
    ASSUME IInv, Poll
    PROVE  IInv' /\ PollOf(s, s')
  <1> DEFINE Of(v) == Inv(v, sent, asked, acked, shown)
             Rec(b) == Receipt(s, s.generation, s.operation, b)
  <1>1. Of(s) /\ Sound(s)
    BY DEF IInv, Inv
  <1>2. UNCHANGED <<linked, asked, acked, shown>>
    BY DEF Poll
  <1>3. ASSUME NEW m, Of(m), Middle(s, m), UNCHANGED sent, s' = m
        PROVE  IInv' /\ PollOf(s, s')
    <2>1. Inv(s, sent, asked, acked, shown)'
      BY <1>2, <1>3
    <2>2. Sound(m)
      BY <1>3 DEF Inv
    <2>3. PollOf(s, s')
      BY <1>3, <2>2 DEF PollOf
    <2>4. QED  BY <1>2, <2>1, <2>3 DEF IInv
  <1>4. CASE Status \in {"none", "confirmed"}
    <2> DEFINE m == IF Status = "none" THEN s ELSE Rec(TRUE)
    <2>1. Of(m) /\ Middle(s, m) /\ m.in_flight = "none"
      <3>1. CASE s.in_flight = "none"
        <4>1. Status = "none"
          BY <3>1 DEF Status
        <4>2. QED  BY <1>1, <3>1, <4>1 DEF Middle
      <3>2. CASE s.in_flight # "none"
        <4>1. Status = sent[s.operation].status /\ s.operation \in Operation
          BY <1>1, <3>2 DEF Status, Sound, Service
        <4>2. Entry(sent[s.operation])
          BY <1>1, <4>1 DEF Inv, Publishing
        <4>3. Status # "none"
          BY <4>1, <4>2 DEF Entry, Unknown
        <4>4. Of(Rec(TRUE)) /\ Ended(s, Rec(TRUE), TRUE)
          BY <1>1, <1>4, <3>2, <4>1, <4>3, ReceiptStep
        <4>5. QED  BY <1>4, <3>2, <4>1, <4>3, <4>4 DEF Middle, Ended
      <3>3. QED  BY <3>1, <3>2
    <2>2. IF m.ready /\ linked /\ ~Active
          THEN Issue(m, NextJob(m))
          ELSE s' = m /\ UNCHANGED sent
      BY <1>4 DEF Poll
    <2> HIDE DEF m
    <2>3. CASE ~(m.ready /\ linked /\ ~Active)
      BY <1>3, <2>1, <2>2, <2>3
    <2>4. CASE m.ready /\ linked /\ ~Active
      <3>1. \A o \in Operation : sent[o].status # "active"
        BY <2>4 DEF Active
      <3>2. Sound(m)
        BY <2>1 DEF Inv
      <3>3. ASSUME Inv(s', sent', asked, acked, shown), Issued(m, s')
            PROVE  IInv' /\ PollOf(s, s')
        BY <1>2, <2>1, <3>2, <3>3 DEF IInv, PollOf
      <3>4. CASE s' = m /\ UNCHANGED sent
        BY <1>3, <2>1, <3>4
      <3>5. CASE /\ MayYield(m, NextJob(m)) /\ m.ready
                 /\ Publishes(m, Job("external", "none", NoRequest),
                              [op \in Operation |-> BeginExternal(m, op)])
        <4>1. PICK op \in Operation :
                 /\ sent' = [sent EXCEPT ![op] = Content(m, Job("external", "none", NoRequest))]
                 /\ s' = BeginExternal(m, op)
          BY <3>5 DEF Publishes
        <4>2. Inv(s', sent', asked, acked, shown) /\ Issued(m, s')
          BY <2>1, <3>1, <3>5, <4>1, ExternalIssued
        <4>3. QED  BY <3>3, <4>2
      <3>6. CASE /\ NextJob(m) # NoJob
                 /\ Publishes(m, NextJob(m),
                        [op \in Operation |-> Begin(m, NextJob(m), op)])
        <4>1. PICK op \in Operation :
                 /\ sent' = [sent EXCEPT ![op] = Content(m, NextJob(m))]
                 /\ s' = Begin(m, NextJob(m), op)
          BY <3>6 DEF Publishes
        <4>2. Inv(s', sent', asked, acked, shown) /\ Issued(m, s')
          BY <2>1, <3>1, <3>6, <4>1, JobIssued
        <4>3. QED  BY <3>3, <4>2
      <3>7. Parked(m, NextJob(m)) => NextJob(m) # NoJob
        BY DEF Parked, NoJob, Job
      <3>8. CASE Parked(m, NextJob(m)) /\ s' = Adopted(m, NextJob(m)) /\ UNCHANGED sent
        <4>1. Inv(s', sent, asked, acked, shown) /\ Begun(m, s') /\ s'.in_flight = "none"
          BY <2>1, <3>7, <3>8, ParkedAdopted
        <4>2. QED  BY <3>3, <3>8, <4>1 DEF Issued
      <3>9. CASE /\ Parked(m, NextJob(m))
                 /\ Publishes(m, NextJob(m),
                        [op \in Operation |->
                           Begin(Adopted(m, NextJob(m)), Emptied(NextJob(m)), op)])
        <4>1. PICK op \in Operation :
                 /\ sent' = [sent EXCEPT ![op] = Content(m, NextJob(m))]
                 /\ s' = Begin(Adopted(m, NextJob(m)), Emptied(NextJob(m)), op)
          BY <3>9 DEF Publishes
        <4>2. Inv(s', sent', asked, acked, shown) /\ Issued(m, s')
          BY <2>1, <3>1, <3>7, <3>9, <4>1, ParkedIssued
        <4>3. QED  BY <3>3, <4>2
      <3>10. QED  BY <2>2, <2>4, <3>4, <3>5, <3>6, <3>8, <3>9 DEF Issue
    <2>5. QED  BY <2>3, <2>4
  <1>5. CASE Status = "active"
    <2>1. s' = s /\ UNCHANGED sent
      BY <1>5 DEF Poll
    <2>2. QED  BY <1>1, <1>3, <2>1 DEF Middle
  <1>6. CASE Status \notin {"none", "confirmed", "active"}
    <2>1. s' = Rec(FALSE) /\ UNCHANGED sent
      BY <1>6 DEF Poll
    <2>2. s.in_flight # "none" /\ Status = sent[s.operation].status
      BY <1>6 DEF Status
    <2>3. Of(Rec(FALSE)) /\ Ended(s, Rec(FALSE), FALSE)
      BY <1>1, <1>6, <2>2, ReceiptStep
    <2>4. QED  BY <1>3, <2>1, <2>2, <2>3 DEF Middle
  <1>7. QED  BY <1>4, <1>5, <1>6

-----------------------------------------------------------------------------
(* What a step does to the cursor and to what waits.                       *)
Steady(v, w) ==
    /\ w.generation = v.generation /\ w.ready = v.ready /\ w.stage = v.stage
    /\ w.ever_ready = v.ever_ready
    /\ \/ w.in_flight = v.in_flight /\ w.operation = v.operation
       \/ v.in_flight = "response" /\ w.in_flight = "none"
    /\ v.event => w.event
    /\ v.sync # NoRequest => w.sync # NoRequest

Renewed(v, w) ==
    /\ v.generation < MaxGeneration
    /\ w.generation = v.generation + 1 /\ ~w.ready /\ w.stage = 0
    /\ w.in_flight = "none" /\ w.operation = NoOperation /\ w.ever_ready = v.ever_ready
    /\ w.event = v.event /\ w.sync = v.sync

Connected(v, w) ==
    /\ ~v.ready /\ w.ready /\ w.stage = 1 /\ w.in_flight = "none" /\ w.operation = NoOperation
    /\ w.generation = v.generation /\ w.ever_ready = v.ever_ready
    /\ w.event = v.event /\ w.sync = v.sync

Progress == \/ Steady(s, s') \/ Renewed(s, s') \/ Connected(s, s')
            \/ PollOf(s, s') /\ UNCHANGED shown

LEMMA CallKeeps ==
    ASSUME IInv, NEW w, Call(w), asked \subseteq asked', Sound(w), SameJob(s, w),
           Answers(w, asked', acked),
           s.event => w.event, s.sync # NoRequest => w.sync # NoRequest
    PROVE  IInv' /\ Progress
  <1>1. s' = w /\ UNCHANGED <<sent, linked, acked, shown>>
    BY DEF Call
  <1>2. Inv(w, sent, asked', acked, shown)
    BY SameJobKeeps DEF IInv
  <1>3. Steady(s, w)
    BY DEF Steady, SameJob
  <1>4. QED  BY <1>1, <1>2, <1>3 DEF IInv, Progress

LEMMA AskKeeps ==
    ASSUME IInv, NEW id \in Request, Ask(id)
    PROVE  IInv' /\ Progress
  <1> USE CloudAssumption
  <1>1. Sound(s) /\ s \in Service /\ Answers(s, asked, acked) /\ id \notin asked
    BY DEF IInv, Inv, Sound, Ask
  <1>2. asked' = asked \cup {id}
    BY DEF Ask
  <1>3. id # NoRequest
    OBVIOUS
  <1>4. CASE \E sync \in BOOLEAN : Call(QueueResponse(s, id, sync))
    <2>1. PICK sync \in BOOLEAN : Call(QueueResponse(s, id, sync))
      BY <1>4
    <2> DEFINE w == QueueResponse(s, id, sync)
    <2>2. /\ Sound(w) /\ SameJob(s, w)
          /\ w.response \in {s.response, id} /\ w.sync = s.sync /\ w.about = s.about
          /\ w.parked \in {s.parked, NoRequest}
      BY <1>1, QueueResponseKeeps
    <2>3. w.event = s.event
      BY <1>1 DEF QueueResponse, Service
    <2> HIDE DEF w
    <2>4. Answers(w, asked', acked)
      BY <1>1, <1>2, <2>2 DEF Answers
    <2>5. Call(w)
      BY <2>1 DEF w
    <2>6. QED  BY <1>2, <2>2, <2>3, <2>4, <2>5, CallKeeps
  <1>5. CASE Call(QueueSyncRequest(s, id))
    <2> DEFINE w == QueueSyncRequest(s, id)
    <2>1. /\ Sound(w) /\ SameJob(s, w)
          /\ w.response = s.response /\ w.sync = s.sync /\ w.about = s.about
          /\ w.parked \in {s.parked, id}
      BY <1>1, QueueSyncRequestKeeps
    <2>2. w.event = s.event
      BY <1>1 DEF QueueSyncRequest, Service
    <2> HIDE DEF w
    <2>3. Answers(w, asked', acked)
      BY <1>1, <1>2, <2>1 DEF Answers
    <2>4. Call(w)
      BY <1>5 DEF w
    <2>5. QED  BY <1>2, <2>1, <2>2, <2>3, <2>4, CallKeeps
  <1>6. CASE Call(QueueStateReport(s, id))
    <2> DEFINE w == Correlate(s, id, "result")
    <2>1. /\ Sound(w) /\ SameJob(s, w)
          /\ w.response = s.response /\ w.sync = id /\ w.about = "result"
          /\ w.parked = s.parked
      BY <1>1, CorrelateKeeps
    <2>2. w.event = s.event
      BY <1>1 DEF Correlate, Service
    <2> HIDE DEF w
    <2>3. Answers(w, asked', acked)
      BY <1>1, <1>2, <2>1 DEF Answers
    <2>4. Call(w)
      BY <1>6 DEF w, QueueStateReport
    <2>5. QED  BY <1>2, <1>3, <2>1, <2>2, <2>3, <2>4, CallKeeps
  <1>7. QED  BY <1>4, <1>5, <1>6 DEF Ask

LEMMA WakeKeeps ==
    ASSUME IInv, Wake
    PROVE  IInv' /\ Progress
  <1> DEFINE w == WakeState(s)
  <1>1. s \in Service /\ Sound(s) /\ Answers(s, asked, acked) /\ asked' = asked /\ Call(w)
    BY DEF IInv, Inv, Sound, Wake
  <1>2. /\ Sound(w) /\ SameJob(s, w)
        /\ w.response = s.response /\ w.sync = s.sync /\ w.about = s.about
        /\ w.parked = s.parked
    BY <1>1, WakeStateKeeps DEF Wake
  <1>3. w.event
    BY <1>1 DEF WakeState, Service
  <1> HIDE DEF w
  <1>4. Answers(w, asked', acked)
    BY <1>1, <1>2 DEF Answers
  <1>5. QED  BY <1>1, <1>2, <1>3, <1>4, CallKeeps

LEMMA DropResponseKeeps ==
    ASSUME IInv, DropResponse
    PROVE  IInv' /\ Progress
  <1> DEFINE w == CancelResponse(s)
  <1>1. s' = w /\ UNCHANGED <<sent, linked, asked, acked, shown>>
    BY DEF DropResponse, Call
  <1>2. /\ Inv(w, sent, asked, acked, shown)
        /\ w.generation = s.generation /\ w.ready = s.ready /\ w.stage = s.stage
        /\ w.ever_ready = s.ever_ready /\ w.event = s.event /\ w.sync = s.sync
        /\ \/ w.in_flight = s.in_flight /\ w.operation = s.operation
           \/ s.in_flight = "response" /\ w.in_flight = "none"
    BY CancelResponseStep DEF IInv
  <1> HIDE DEF w
  <1>3. Steady(s, w)
    BY <1>2 DEF Steady
  <1>4. QED  BY <1>1, <1>2, <1>3 DEF IInv, Progress

LEMMA FlagKeeps ==
    ASSUME IInv, NEW w, Call(w), UNCHANGED asked, NEW b \in BOOLEAN,
           w \in {[s EXCEPT !.heartbeat = b], [s EXCEPT !.status = b], [s EXCEPT !.product_state = b]}
    PROVE  IInv' /\ Progress
  <1>1. s \in Service /\ Sound(s) /\ Answers(s, asked, acked)
    BY DEF IInv, Inv, Sound
  <1>2. w \in Service
    BY <1>1 DEF Service
  <1>3. /\ w.generation = s.generation /\ w.ready = s.ready /\ w.stage = s.stage
        /\ w.in_flight = s.in_flight /\ w.operation = s.operation /\ w.index = s.index
        /\ w.in_flight_event = s.in_flight_event /\ w.count = s.count
        /\ w.in_flight_correlated = s.in_flight_correlated /\ w.ever_ready = s.ever_ready
        /\ w.event = s.event /\ w.serial = s.serial /\ w.correlated = s.correlated
        /\ w.response = s.response /\ w.sync = s.sync /\ w.about = s.about
        /\ w.parked = s.parked
    BY <1>1 DEF Service
  <1>4. Sound(w)
    BY <1>1, <1>2, <1>3 DEF Sound
  <1>5. SameJob(s, w) /\ Answers(w, asked', acked)
    BY <1>1, <1>3 DEF SameJob, Answers
  <1>6. QED  BY <1>3, <1>4, <1>5, CallKeeps

LEMMA TellKeeps ==
    ASSUME IInv, TellReady \/ TellChanged
    PROVE  IInv' /\ Progress
  <1>1. Sound(s) /\ s.ready \in BOOLEAN /\ UNCHANGED <<sent, linked, asked, acked, shown>>
    BY DEF IInv, Inv, Sound, Service, TellReady, TellChanged, Call
  <1>2. CASE s' = NetworkChanged(s) /\ s.generation < MaxGeneration
    <2>1. Inv(s', sent, asked, acked, shown)
      BY <1>2, NetworkChangedStep DEF IInv
    <2>2. Renewed(s, s')
      BY <1>1, <1>2, NetworkChangedSound DEF Renewed
    <2>3. QED  BY <1>1, <2>1, <2>2 DEF IInv, Progress
  <1>3. CASE s' = SetReady(s, TRUE) /\ ~s.ready
    <2>1. Inv(s', sent, asked, acked, shown) /\ Connected(s, s')
      BY <1>3, SetReadyStep DEF IInv, Connected
    <2>2. QED  BY <1>1, <2>1 DEF IInv, Progress
  <1>4. CASE TellChanged
    BY <1>2, <1>4 DEF TellChanged, Call
  <1>5. CASE TellReady
    <2>1. CASE linked
      BY <1>1, <1>3, <1>5, <2>1 DEF TellReady, Call, IInv
    <2>2. CASE ~linked
      <3>1. s.ready /\ s.generation < MaxGeneration /\ s' = SetReady(s, linked)
        BY <1>1, <1>5, <2>2 DEF TellReady, Call, IInv
      <3>2. s' = NetworkChanged(s)
        BY <2>2, <3>1 DEF SetReady, IInv
      <3>3. QED  BY <1>2, <3>1, <3>2
    <2>3. QED  BY <2>1, <2>2
  <1>6. QED  BY <1>4, <1>5

LEMMA LateReceiptKeeps ==
    ASSUME IInv, NEW op \in Operation, LateReceipt(op)
    PROVE  IInv' /\ Progress
  <1> DEFINE confirmed == sent[op].status = "confirmed"
             w == Receipt(s, sent[op].generation, op, confirmed)
  <1>1. s' = w /\ UNCHANGED <<sent, linked, asked, acked, shown>> /\ Sound(s)
    BY DEF LateReceipt, Call, IInv, Inv
  <1>2. CASE ~Own(s, sent[op].generation, op)
    <2>1. s' = s
      BY <1>1, <1>2 DEF Receipt
    <2>2. QED  BY <1>1, <2>1 DEF IInv, Progress, Steady
  <1>3. CASE Own(s, sent[op].generation, op)
    <2>1. s.in_flight # "none" /\ op = s.operation /\ sent[op].generation = s.generation
      BY <1>3 DEF Own
    <2>2. sent[s.operation].status # "active" /\ confirmed \in BOOLEAN
      BY <2>1 DEF LateReceipt
    <2>3. Inv(w, sent, asked, acked, shown) /\ Ended(s, w, confirmed)
      BY <2>1, <2>2, ReceiptStep DEF IInv
    <2>4. Middle(s, w)
      BY <2>1, <2>2, <2>3 DEF Middle
    <2>5. PollOf(s, w)
      BY <2>3, <2>4 DEF PollOf, Inv
    <2>6. QED  BY <1>1, <2>3, <2>5 DEF IInv, Progress
  <1>4. QED  BY <1>2, <1>3

(* The transport learns how a publish ended, or forgets it.                *)
LEMMA KnownEntry ==
    ASSUME NEW x, Entry(x), x.status # "unknown", NEW status \in {"confirmed", "failed", "lost"}
    PROVE  /\ Entry(Known(x, status)) /\ Known(x, status).status = status
           /\ Known(x, status).generation = x.generation
  BY DEF Entry, Known, Unknown

LEMMA SentKeeps ==
    ASSUME IInv, UNCHANGED <<s, asked, acked, shown>>, linked' \in BOOLEAN,
           sent' = [op \in Operation |-> sent'[op]],
           \A op \in Operation :
              \/ sent'[op] = sent[op]
              \/ sent'[op] = Unknown /\ sent[op].status # "active" /\ op # s.operation
              \/ \E status \in {"failed", "lost"} :
                    sent[op].status = "active" /\ sent'[op] = Known(sent[op], status)
    PROVE  IInv' /\ Progress
  <1>1. Sound(s) /\ Publishing(s, sent) /\ Confirmed(s, sent, acked, shown) /\ KnownIds(sent, asked)
    BY DEF IInv, Inv
  <1>2. \A op \in Operation :
           /\ Entry(sent'[op])
           /\ sent'[op].status = "active" => sent'[op] = sent[op]
           /\ op = s.operation /\ sent[op].status # "unknown" =>
                /\ sent'[op].status # "unknown" /\ sent'[op].generation = sent[op].generation
                /\ sent'[op].status = "confirmed" => sent'[op] = sent[op]
    <2> SUFFICES ASSUME NEW op \in Operation
                 PROVE /\ Entry(sent'[op])
                       /\ sent'[op].status = "active" => sent'[op] = sent[op]
                       /\ op = s.operation /\ sent[op].status # "unknown" =>
                            /\ sent'[op].status # "unknown"
                            /\ sent'[op].generation = sent[op].generation
                            /\ sent'[op].status = "confirmed" => sent'[op] = sent[op]
      OBVIOUS
    <2>1. Entry(sent[op])
      BY <1>1 DEF Publishing
    <2>2. CASE sent'[op] = sent[op]
      BY <2>1, <2>2
    <2>3. CASE sent'[op] = Unknown /\ op # s.operation
      BY <2>3 DEF Entry, Unknown
    <2>4. CASE \E status \in {"failed", "lost"} :
                  sent[op].status = "active" /\ sent'[op] = Known(sent[op], status)
      <3>1. PICK status \in {"failed", "lost"} :
                  sent[op].status = "active" /\ sent'[op] = Known(sent[op], status)
        BY <2>4
      <3>2. QED  BY <2>1, <3>1, KnownEntry
    <2>5. QED  BY <2>2, <2>3, <2>4
  <1>3. s.in_flight # "none" => s.operation \in Operation
    BY <1>1 DEF Sound, Service
  <1>4. Publishing(s, sent')
    BY <1>1, <1>2, <1>3 DEF Publishing
  <1>5. Confirmed(s, sent', acked, shown)
    BY <1>1, <1>2, <1>3 DEF Confirmed, Publishing
  <1>6. KnownIds(sent', asked)
    BY <1>1, <1>2 DEF KnownIds
  <1>7. Inv(s, sent', asked, acked, shown)
    BY <1>4, <1>5, <1>6 DEF IInv, Inv
  <1>8. QED  BY <1>7 DEF IInv, Progress, Steady

LEMMA LinkKeeps ==
    ASSUME IInv, LinkUp \/ LinkDown
    PROVE  IInv' /\ Progress
  <1>1. sent = [op \in Operation |-> sent[op]]
    BY DEF IInv, Inv, Publishing
  <1>2. CASE LinkUp
    BY <1>1, <1>2, SentKeeps DEF LinkUp
  <1>3. CASE LinkDown
    <2>1. \A op \in Operation :
             sent'[op] = IF sent[op].status = "active" THEN Known(sent[op], "failed") ELSE sent[op]
      BY <1>3 DEF LinkDown
    <2>2. sent' = [op \in Operation |-> sent'[op]] /\ linked' \in BOOLEAN
          /\ UNCHANGED <<s, asked, acked, shown>>
      BY <1>3 DEF LinkDown
    <2>3. QED  BY <2>1, <2>2, SentKeeps
  <1>4. QED  BY <1>2, <1>3

LEMMA FailsKeeps ==
    ASSUME IInv, NEW op \in Operation, Fails(op) \/ Forgets(op)
    PROVE  IInv' /\ Progress
  <1>1. sent = [o \in Operation |-> sent[o]] /\ linked \in BOOLEAN
    BY DEF IInv, Inv, Publishing
  <1>2. UNCHANGED <<s, linked, asked, acked, shown>>
    BY DEF Fails, Forgets
  <1>3. CASE Fails(op)
    <2>1. PICK status \in {"failed", "lost"} :
             sent[op].status = "active" /\ sent' = [sent EXCEPT ![op] = Known(@, status)]
      BY <1>3 DEF Fails
    <2>2. /\ sent' = [o \in Operation |-> sent'[o]]
          /\ \A o \in Operation : sent'[o] = IF o = op THEN Known(sent[op], status) ELSE sent[o]
      BY <1>1, <2>1
    <2>3. QED  BY <1>1, <1>2, <2>1, <2>2, SentKeeps
  <1>4. CASE Forgets(op)
    <2>1. /\ sent' = [o \in Operation |-> sent'[o]]
          /\ \A o \in Operation : sent'[o] = IF o = op THEN Unknown ELSE sent[o]
      BY <1>1, <1>4 DEF Forgets
    <2>2. QED  BY <1>1, <1>2, <1>4, <2>1, SentKeeps DEF Forgets
  <1>5. QED  BY <1>3, <1>4

LEMMA ConfirmsKeeps ==
    ASSUME IInv, NEW op \in Operation, Confirms(op)
    PROVE  IInv' /\ Progress
  <1> DEFINE e == sent[op]
  <1>1. /\ Sound(s) /\ Publishing(s, sent) /\ Told(s, shown) /\ Answers(s, asked, acked)
        /\ KnownIds(sent, asked) /\ linked \in BOOLEAN
    BY DEF IInv, Inv
  <1>2. e.status = "active" /\ Entry(e) /\ UNCHANGED <<s, linked, asked>>
    BY <1>1 DEF Confirms, Publishing
  <1>3. /\ e.generation \in 1..MaxGeneration /\ e.topic \in Kind \X Part /\ e.tells \in Tells
    BY <1>2 DEF Entry, Unknown
  <1>4. /\ Entry(Known(e, "confirmed")) /\ Known(e, "confirmed").status = "confirmed"
        /\ Known(e, "confirmed").generation = e.generation
    BY <1>2, KnownEntry
  <1>5. /\ sent' = [o \in Operation |-> sent'[o]] /\ sent'[op] = Known(e, "confirmed")
        /\ \A o \in Operation : o # op => sent'[o] = sent[o]
    BY <1>1 DEF Confirms, Publishing
  <1>6. \A o \in Operation : sent'[o].status # "active"
    BY <1>1, <1>2, <1>4, <1>5 DEF Publishing
  <1>7. shown' = [k \in Topic |-> IF k = e.topic THEN e.tells ELSE shown[k]]
    BY <1>1 DEF Confirms, Told
  <1>8. acked' = IF e.topic[1] = "response" THEN acked \cup {e.id} ELSE acked
    BY DEF Confirms
  <1>9. s.in_flight # "none" =>
           /\ op = s.operation /\ e.topic = Place(s) /\ TellsOf(s, e.tells)
           /\ s.in_flight = "response" => e.id = s.response
    BY <1>1, <1>2 DEF Publishing
  <1>10. s.in_flight = "none" => e.topic[1] = "response" \/ ~s.ready \/ s.stage = 1
    BY <1>1, <1>2 DEF Publishing
  <1>11. e.topic[1] = "response" => e.topic \notin Topic
    BY DEF Topic
  <1> HIDE DEF e
  <1>12. Publishing(s, sent')
    <2>1. \A o \in Operation : Entry(sent'[o])
      BY <1>1, <1>4, <1>5 DEF Publishing
    <2>2. s.in_flight # "none" =>
             sent'[s.operation].status # "unknown" /\ sent'[s.operation].generation = s.generation
      BY <1>1, <1>4, <1>5, <1>9 DEF Publishing, e
    <2>3. QED  BY <1>5, <1>6, <2>1, <2>2 DEF Publishing
  <1>13. Confirmed(s, sent', acked', shown')
    <2> SUFFICES ASSUME s.in_flight # "none"
                 PROVE  /\ Place(s) \in Topic => TellsOf(s, shown'[Place(s)])
                        /\ s.in_flight = "response" => s.response \in acked'
      BY DEF Confirmed
    <2>1. Place(s) \in Topic => TellsOf(s, shown'[Place(s)])
      BY <1>7, <1>9
    <2>2. s.in_flight = "response" => e.topic[1] = "response"
      BY <1>9 DEF Place
    <2>3. QED  BY <1>8, <1>9, <2>1, <2>2
  <1>14. Told(s, shown')
    <2>1. shown' \in [Topic -> Tells]
      BY <1>1, <1>3, <1>7 DEF Told
    <2>2. CASE e.topic \notin Topic
      <3>1. shown' = shown
        BY <1>1, <1>7, <2>2 DEF Told
      <3>2. QED  BY <1>1, <3>1
    <2>3. CASE s.in_flight # "none"
      <3>1. \A k \in Topic : shown'[k].generation = s.generation
                                \/ shown'[k].generation = shown[k].generation
        BY <1>7, <1>9, <2>3 DEF TellsOf
      <3>2. \A k \in Topic : shown[k].generation = s.generation => shown'[k].generation = s.generation
        BY <3>1
      <3>3. /\ <<"manifest", 0>> \in Topic /\ <<"heartbeat", 0>> \in Topic
            /\ \A n \in Part : <<"state", n>> \in Topic
        BY DEF Topic
      <3>4. QED  BY <1>1, <2>1, <3>2, <3>3 DEF Told
    <2>4. CASE ~s.ready \/ s.stage = 1
      <3>1. s.stage \in {0, 1} /\ (s.stage = 0 => ~s.ready)
        BY <1>1, <2>4 DEF Sound
      <3>2. QED  BY <2>1, <3>1 DEF Told
    <2>5. QED  BY <1>10, <1>11, <2>2, <2>3, <2>4
  <1>15. Answers(s, asked, acked')
    BY <1>1, <1>2, <1>8 DEF Answers, KnownIds, e
  <1>16. KnownIds(sent', asked)
    BY <1>6 DEF KnownIds
  <1>17. QED  BY <1>1, <1>2, <1>12, <1>13, <1>14, <1>15, <1>16 DEF IInv, Inv, Progress, Steady

-----------------------------------------------------------------------------
LEMMA InitIInv == Init => IInv
  <1> SUFFICES ASSUME Init PROVE IInv
    OBVIOUS
  <1> USE CloudAssumption
  <1>1. s \in Service
    <2>1. /\ 1 \in 1..MaxGeneration /\ 0 \in 0..3 /\ 0 \in 0..States /\ 0 \in 0..MaxWake
          /\ 0 \in Part /\ 0 \in Nat
      BY DEF Part
    <2>2. NoRequest \in Asked
      BY DEF Asked
    <2>3. QED  BY <2>1, <2>2 DEF Init, Service
  <1>2. Sound(s)
    BY <1>1 DEF Init, Sound
  <1>3. Publishing(s, sent)
    BY DEF Init, Publishing, Entry, Unknown
  <1>4. Told(s, shown)
    <2>1. Nothing \in Tells
      BY DEF Nothing, Tells
    <2>2. QED  BY <2>1 DEF Init, Told
  <1>5. QED  BY <1>2, <1>3, <1>4 DEF Init, IInv, Inv, Confirmed, Answers, KnownIds, Unknown

LEMMA StepIInv == IInv /\ [Next]_vars => IInv' /\ Progress
  <1> SUFFICES ASSUME IInv, [Next]_vars PROVE IInv' /\ Progress
    OBVIOUS
  <1>1. CASE UNCHANGED vars
    BY <1>1 DEF vars, IInv, Progress, Steady
  <1>2. CASE \E id \in Request : Ask(id)
    BY <1>2, AskKeeps
  <1>3. CASE Wake \/ DropResponse \/ TellReady \/ TellChanged
    BY <1>3, WakeKeeps, DropResponseKeeps, TellKeeps
  <1>4. CASE SetProductStatePending
    <2> DEFINE b == ~s.product_state
               w == [s EXCEPT !.product_state = b]
    <2>1. Call(w) /\ UNCHANGED asked /\ b \in BOOLEAN
      BY <1>4 DEF SetProductStatePending
    <2>2. w \in {[s EXCEPT !.heartbeat = b], [s EXCEPT !.status = b], [s EXCEPT !.product_state = b]}
      OBVIOUS
    <2> HIDE DEF w, b
    <2>3. QED  BY <2>1, <2>2, FlagKeeps
  <1>5. CASE PeriodPasses
    <2>1. PICK w \in {[s EXCEPT !.heartbeat = TRUE], [s EXCEPT !.status = TRUE]} : Call(w)
      BY <1>5 DEF PeriodPasses
    <2>2. UNCHANGED asked
      BY <1>5 DEF PeriodPasses
    <2>3. w \in {[s EXCEPT !.heartbeat = TRUE], [s EXCEPT !.status = TRUE], [s EXCEPT !.product_state = TRUE]}
      OBVIOUS
    <2>4. QED  BY <2>1, <2>2, <2>3, FlagKeeps
  <1>6. CASE Poll
    <2>1. UNCHANGED shown
      BY <1>6 DEF Poll
    <2>2. QED  BY <1>6, <2>1, PollKeeps DEF Progress
  <1>7. CASE \E op \in Operation : LateReceipt(op)
    BY <1>7, LateReceiptKeeps
  <1>8. CASE World
    BY <1>8, LinkKeeps, ConfirmsKeeps, FailsKeeps DEF World
  <1>9. QED  BY <1>1, <1>2, <1>3, <1>4, <1>5, <1>6, <1>7, <1>8 DEF Next, Product

-----------------------------------------------------------------------------
(* The inductive invariant: a job under way agrees with its publish, what  *)
(* the bootstrap has passed was told, what waits was asked.                *)
THEOREM CloudInvariant == Spec => []IInv
  <1>1. QED  BY InitIInv, StepIInv, PTL DEF Spec

(* Every variable keeps its type (ABoxCloudService).                       *)
THEOREM TypeCorrect == Spec => []TypeOK
  <1>1. IInv => TypeOK
    <2> SUFFICES ASSUME IInv PROVE TypeOK
      OBVIOUS
    <2>1. s \in Service /\ Publishing(s, sent) /\ Told(s, shown) /\ Answers(s, asked, acked)
      BY DEF IInv, Inv, Sound
    <2>2. \A op \in Operation : Entry(sent[op])
      BY <2>1 DEF Publishing
    <2>3. linked \in BOOLEAN /\ asked \subseteq Request /\ acked \subseteq asked
          /\ shown \in [Topic -> Tells]
      BY <2>1 DEF IInv, Told, Answers
    <2>4. /\ s.generation \in 1..MaxGeneration /\ s.stage \in 0..3 /\ s.index \in Part
          /\ {s.ready, s.ever_ready, s.product_state, s.response_sync, s.event, s.heartbeat,
              s.status} \subseteq BOOLEAN
          /\ s.in_flight \in Kind \cup {"none"} /\ s.operation \in Operation \cup {NoOperation}
          /\ {s.response, s.sync, s.parked} \subseteq Asked
          /\ s.about \in {"none", "result", "sync_state"}
          /\ s.count \in 0..States /\ s.serial \in 0..MaxWake /\ s.in_flight_event \in 0..MaxWake
          /\ s.correlated \in Nat /\ s.in_flight_correlated \in Nat
      BY <2>1 DEF Service
    <2>5. QED  BY <2>2, <2>3, <2>4, Zenon DEF TypeOK, Entry
  <1>2. QED  BY <1>1, CloudInvariant, PTL

(* A connection counts as reported only when the broker was told all of it *)
(* on this connection (ABoxCloudService_Receipt, _NetworkChanged).         *)
THEOREM BootstrapAlwaysWhole == Spec => []BootstrapIsWhole
  <1>1. IInv => BootstrapIsWhole
    BY DEF IInv, Inv, Told, BootstrapIsWhole
  <1>2. QED  BY <1>1, CloudInvariant, PTL

(* A report is correlated to a synchronisation only when the broker has    *)
(* the response to it (ABoxCloudService_Receipt).                          *)
THEOREM ResponseAlwaysFirst == Spec => []ResponseFirst
  <1>1. IInv => ResponseFirst
    BY DEF IInv, Inv, Answers, ResponseFirst
  <1>2. QED  BY <1>1, CloudInvariant, PTL

(* What waits is taken off only by a publish that told it                  *)
(* (ABoxCloudService_Begin, _Receipt, _WakeState, _QueueStateReport).      *)
THEOREM QueuedAlwaysReported == Spec => QueuedIsReported
  <1> DEFINE Shows == /\ s.event /\ ~s'.event => LastShown.serial = s.serial
                      /\ s.sync # NoRequest /\ s'.sync = NoRequest
                            => LastShown.correlated = s.correlated
  <1>1. IInv /\ [Next]_vars => [Shows]_vars
    <2> SUFFICES ASSUME IInv, [Next]_vars PROVE Shows
      OBVIOUS
    <2>1. Progress
      BY StepIInv
    <2>2. CASE Steady(s, s') \/ Renewed(s, s') \/ Connected(s, s')
      BY <2>2 DEF Steady, Renewed, Connected
    <2>3. CASE PollOf(s, s') /\ UNCHANGED shown
      <3>1. PICK m : /\ Middle(s, m)
                     /\ s'.event = m.event /\ s'.sync = m.sync
        BY <2>3 DEF PollOf, Issued, Begun
      <3>2. CASE m = s
        BY <3>1, <3>2
      <3>3. CASE \E confirmed \in BOOLEAN :
                    /\ s.in_flight # "none" /\ Ended(s, m, confirmed)
                    /\ confirmed => sent[s.operation].status = "confirmed"
        <4>1. CASE m.event = s.event /\ m.sync = s.sync
          BY <3>1, <4>1
        <4>2. CASE /\ s.in_flight # "none" /\ Taken(s, m)
                   /\ sent[s.operation].status = "confirmed"
          <5> SUFFICES ASSUME \/ s.event /\ ~m.event
                              \/ s.sync # NoRequest /\ m.sync = NoRequest
                       PROVE  Shows
            BY <3>1
          <5>1. /\ s.in_flight = "state" /\ s.index + 1 >= s.count
                /\ s.event /\ ~m.event => s.serial = s.in_flight_event
                /\ s.sync # NoRequest /\ m.sync = NoRequest
                      => s.correlated = s.in_flight_correlated
            BY <4>2 DEF Taken
          <5>2. Sound(s) /\ Confirmed(s, sent, acked, shown)
            BY DEF IInv, Inv
          <5>3. s.in_flight_event # 0 \/ s.in_flight_correlated # 0
            BY <5>1, <5>2 DEF Sound
          <5>4. s.index = States - 1
            <6>1. s.count = States /\ s.index \in Part
              BY <5>2, <5>3 DEF Sound, Service
            <6>2. QED  BY <5>1, <6>1, CloudAssumption DEF Part
          <5>5. Place(s) = <<"state", States - 1>> /\ Place(s) \in Topic
            BY <5>1, <5>2, <5>4 DEF Place, Topic, Sound, Service
          <5>6. TellsOf(s, LastShown)
            BY <2>3, <4>2, <5>2, <5>5 DEF Confirmed, LastShown
          <5>7. s.event => s.serial # 0
            BY <5>2 DEF Sound
          <5>8. s.sync # NoRequest => s.correlated # 0
            BY <5>2 DEF Sound
          <5>9. QED  BY <3>1, <5>1, <5>6, <5>7, <5>8 DEF TellsOf
        <4>3. QED  BY <3>3, <4>1, <4>2 DEF Ended
      <3>4. QED  BY <3>1, <3>2, <3>3 DEF Middle
    <2>4. QED  BY <2>1, <2>2, <2>3 DEF Progress
  <1>2. QED  BY <1>1, CloudInvariant, PTL DEF Spec, QueuedIsReported

(* What the cursor sees of a job.                                         *)
Flight(v) == IF v.stage = 0 \/ v.in_flight \in {"response", "external"} THEN "none" ELSE v.in_flight
Publish(v) == IF v.stage = 0 \/ v.in_flight \in {"response", "external"} THEN NoOperation
              ELSE v.operation

LEMMA CursorTurns ==
    ASSUME IInv, IInv', PollOf(s, s')
    PROVE  [Cursor!Next]_Cursor!vars
  <1> USE CloudAssumption DEF Cursor!vars, Cursor!Next
  <1>1. PICK m : /\ Middle(s, m) /\ Sound(m)
                 /\ \/ s' = m
                    \/ m.in_flight = "none" /\ Issued(m, s')
    BY DEF PollOf
  <1>2. Sound(s) /\ Sound(s')
    BY DEF IInv, Inv
  <1>3. s.stage \in 0..3 /\ m.stage \in 0..3 /\ (s.stage # 0 => s.ready) /\ (m.stage # 0 => m.ready)
    BY <1>1, <1>2 DEF Sound, Service
  <1>4. \A n \in 1..3 : Due(n) \in {"manifest", "heartbeat", "state"} /\ Cursor!Due(n) = Due(n)
    BY DEF Due, Cursor!Due
  <1>5. CASE Flight(m) = Flight(s) /\ Publish(m) = Publish(s)
             /\ m.generation = s.generation /\ m.ready = s.ready /\ m.stage = s.stage
             /\ m.ever_ready = s.ever_ready
    <2>1. CASE s' = m
      BY <1>5, <2>1 DEF Flight, Publish
    <2>2. CASE m.in_flight = "none" /\ Issued(m, s')
      <3>1. Issued(m, s')
        BY <2>2
      <3>2. Flight(m) = "none" /\ Publish(m) = NoOperation
        BY <1>1, <2>2 DEF Flight, Publish, Sound
      <3>3. /\ s'.generation = s.generation /\ s'.ready = s.ready /\ s'.stage = s.stage
            /\ s'.ever_ready = s.ever_ready
        BY <1>5, <3>1 DEF Issued, Begun
      <3>4. CASE s'.in_flight \in {"none", "response", "external"} \/ s.stage = 0
        <4>1. Flight(s') = "none" /\ Publish(s') = NoOperation
          BY <1>2, <3>3, <3>4 DEF Flight, Publish, Sound
        <4>2. QED  BY <1>5, <3>2, <3>3, <4>1 DEF Flight, Publish
      <3>5. CASE ~(s'.in_flight \in {"none", "response", "external"} \/ s.stage = 0)
        <4>1. s'.in_flight = Due(s.stage) /\ s'.operation \in Operation
          BY <1>2, <1>5, <3>1, <3>5 DEF Issued, Sound, Service
        <4>2. Cursor!Begin(s'.operation)
          BY <1>3, <1>4, <1>5, <3>2, <3>3, <3>5, <4>1 DEF Cursor!Begin, Flight, Publish
        <4>3. QED  BY <4>1, <4>2
      <3>6. QED  BY <3>4, <3>5
    <2>3. QED  BY <1>1, <2>1, <2>2
  <1>6. CASE \E confirmed \in BOOLEAN : s.in_flight # "none" /\ Ended(s, m, confirmed)
    <2>1. PICK confirmed \in BOOLEAN : s.in_flight # "none" /\ Ended(s, m, confirmed)
      BY <1>6
    <2>2. m.in_flight = "none" /\ m.operation = NoOperation
      BY <2>1 DEF Ended
    <2>3. CASE s.stage = 0 \/ s.in_flight \in {"response", "external"}
      <3>1. m.stage = s.stage /\ m.ever_ready = s.ever_ready
        BY <1>3, <1>4, <2>1, <2>3 DEF Ended, Moved
      <3>2. QED  BY <1>5, <2>1, <2>2, <2>3, <3>1 DEF Ended, Flight, Publish
    <2>4. CASE ~(s.stage = 0 \/ s.in_flight \in {"response", "external"})
      <3>1. s.in_flight = Due(s.stage)
        BY <1>2, <2>1, <2>4 DEF Sound
      <3>2. \E c \in BOOLEAN :
               IF c THEN m.stage = (s.stage + 1) % 4
                         /\ m.ever_ready = (s.ever_ready \/ s.in_flight = "state")
               ELSE m.stage = s.stage /\ m.ever_ready = s.ever_ready
        <4>1. CASE ~confirmed
          BY <2>1, <4>1 DEF Ended
        <4>2. CASE confirmed
          <5>1. Moved(s, m)
            BY <2>1, <4>2 DEF Ended
          <5>2. m.ever_ready \in BOOLEAN /\ s.ever_ready \in BOOLEAN
            BY <1>1, <1>2 DEF Sound, Service
          <5>3. CASE s.stage = 1
            <6>1. s.in_flight = "manifest" /\ m.stage = 2 /\ m.ever_ready = s.ever_ready
              BY <3>1, <5>1, <5>3 DEF Moved, Due
            <6>2. (s.stage + 1) % 4 = 2
              BY <5>3
            <6>3. m.ever_ready = (s.ever_ready \/ s.in_flight = "state")
              BY <5>2, <6>1
            <6>4. QED  BY <6>1, <6>2, <6>3
          <5>4. CASE s.stage = 2
            <6>1. s.in_flight = "heartbeat" /\ m.stage = 3 /\ m.ever_ready = s.ever_ready
              BY <3>1, <5>1, <5>4 DEF Moved, Due
            <6>2. (s.stage + 1) % 4 = 3
              BY <5>4
            <6>3. m.ever_ready = (s.ever_ready \/ s.in_flight = "state")
              BY <5>2, <6>1
            <6>4. QED  BY <6>1, <6>2, <6>3
          <5>5. CASE s.stage = 3
            <6>1. s.in_flight = "state"
              BY <3>1, <5>5 DEF Due
            <6>2. \/ m.stage = s.stage /\ m.ever_ready = s.ever_ready
                  \/ m.stage = 0 /\ m.ever_ready
              BY <3>1, <5>1, <5>5, <6>1 DEF Moved
            <6>3. (s.stage + 1) % 4 = 0
              BY <5>5
            <6>4. CASE m.stage = s.stage /\ m.ever_ready = s.ever_ready
              BY <6>4
            <6>5. CASE m.stage = 0 /\ m.ever_ready
              <7>1. m.ever_ready = (s.ever_ready \/ s.in_flight = "state")
                BY <5>2, <6>1, <6>5
              <7>2. QED  BY <6>3, <6>5, <7>1
            <6>6. QED  BY <6>2, <6>4, <6>5
          <5>6. QED  BY <1>3, <2>4, <5>3, <5>4, <5>5
        <4>3. QED  BY <4>1, <4>2
      <3>3. PICK c \in BOOLEAN :
               IF c THEN m.stage = (s.stage + 1) % 4
                         /\ m.ever_ready = (s.ever_ready \/ s.in_flight = "state")
               ELSE m.stage = s.stage /\ m.ever_ready = s.ever_ready
        BY <3>2
      <3>4. Flight(s) = s.in_flight /\ Publish(s) = s.operation
        BY <2>4 DEF Flight, Publish
      <3>5. s' = m \/ Issued(m, s')
        BY <1>1
      <3>6. /\ s'.generation = s.generation /\ s'.ready = s.ready /\ s'.stage = m.stage
            /\ s'.ever_ready = m.ever_ready
        BY <2>1, <3>5 DEF Ended, Issued, Begun
      <3>7. Cursor!Counts(c)
        BY <1>3, <1>4, <2>4, <3>1, <3>3, <3>4, <3>6 DEF Cursor!Counts, Flight
      <3>8. CASE s'.in_flight \in {"none", "response", "external"} \/ m.stage = 0
        <4>1. Flight(s') = "none" /\ Publish(s') = NoOperation
          BY <1>2, <3>6, <3>8 DEF Flight, Publish, Sound
        <4>2. Cursor!Receipt(c)
          BY <2>1, <3>4, <3>6, <3>7, <4>1 DEF Cursor!Receipt, Flight, Publish
        <4>3. QED  BY <4>2
      <3>9. CASE ~(s'.in_flight \in {"none", "response", "external"} \/ m.stage = 0)
        <4> DEFINE op == s'.operation
        <4>1. s'.in_flight = Due(m.stage) /\ op \in Operation
          BY <1>2, <2>2, <3>5, <3>9 DEF Issued, Sound, Service
        <4>2. Flight(s') = Due(m.stage) /\ Publish(s') = op /\ Cursor!Due(m.stage) = Due(m.stage)
              /\ Due(m.stage) # "none" /\ s.ready
          BY <1>3, <1>4, <2>4, <3>6, <3>9, <4>1 DEF Flight, Publish
        <4>3. Cursor!Turn(op, c)
          BY <2>1, <3>4, <3>6, <3>7, <4>2 DEF Cursor!Turn, Flight, Publish, Cursor!Due
        <4>4. QED  BY <4>1, <4>3
      <3>10. QED  BY <3>8, <3>9
    <2>5. QED  BY <2>3, <2>4
  <1>7. CASE m = s
    BY <1>5, <1>7
  <1>8. QED  BY <1>1, <1>6, <1>7 DEF Middle

(* Whatever else is queued or answered late, every connection reports the  *)
(* manifest, a heartbeat and the state, in this order                      *)
(* (ABoxCloudService_Next, _Begin, _Receipt).                              *)
THEOREM CursorIsKept == Spec => ImplementsCloudBootstrap
  <1> USE CloudAssumption
  <1>1. Init => Cursor!Init
    BY DEF Init, Cursor!Init
  <1>2. IInv /\ [Next]_vars => [Cursor!Next]_Cursor!vars
    <2> SUFFICES ASSUME IInv, [Next]_vars PROVE [Cursor!Next]_Cursor!vars
      OBVIOUS
    <2> USE DEF Cursor!Next, Cursor!vars
    <2>1. Progress /\ IInv' /\ Sound(s) /\ Sound(s')
      BY StepIInv DEF IInv, Inv
    <2>2. CASE Steady(s, s')
      BY <2>1, <2>2 DEF Steady, Sound
    <2>3. CASE Renewed(s, s')
      BY <2>3 DEF Renewed, Cursor!NetworkChanged
    <2>4. CASE Connected(s, s')
      BY <2>1, <2>4 DEF Connected, Cursor!SetReady, Sound
    <2>5. CASE PollOf(s, s')
      BY <2>1, <2>5, CursorTurns
    <2>6. QED  BY <2>1, <2>2, <2>3, <2>4, <2>5 DEF Progress
  <1>3. QED  BY <1>1, <1>2, CloudInvariant, PTL DEF Spec, ImplementsCloudBootstrap, Cursor!Spec
=============================================================================
