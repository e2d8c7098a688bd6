----------------------------- MODULE CloudService -----------------------------
(***************************************************************************)
(* The scheduler of everything a device reports to its cloud:              *)
(* components/cloud/src/abox_cloud_service.c (ABoxCloudService), with the  *)
(* receipts of components/mqtt/src/abox_mqtt_receipt.c it asks for.        *)
(*                                                                         *)
(* The handlers work on the record of the service, as the code does on its *)
(* structure. The transport and the broker are outside: a publish is       *)
(* confirmed or fails, or is no longer heard of, and what is known of it   *)
(* may be reported late and more than once. `sent` keeps, of each publish  *)
(* that may still be reported, what it told the cloud; `shown` is what the *)
(* cloud was last told of each state.                                      *)
(* A period that has passed is a flag that may be raised at any time.      *)
(***************************************************************************)
EXTENDS Naturals, FiniteSets, FiniteSetsExt

CONSTANTS Operation,      \* names of publish operations; one is free again once forgotten
          NoOperation,    \* 0
          Request,        \* request ids; each is asked once
          NoRequest,      \* no request
          States,         \* state_count: how many states a full report has
          Periodic,       \* periodic_state_count; 0 for all
          Preempts,       \* options.response_preempts_bootstrap
          ExternalFirst,  \* port.external_preempts_periodic
          ProductStates,  \* the product uses state deadlines of its own
          MaxGeneration,  \* bound on the connections
          MaxWake         \* bound on the wake-ups

ASSUME CloudAssumption ==
    /\ NoOperation \notin Operation /\ NoRequest \notin Request
    /\ States \in Nat \ {0} /\ Periodic \in 0..States
    /\ {Preempts, ExternalFirst, ProductStates} \subseteq BOOLEAN
    /\ MaxGeneration \in Nat \ {0} /\ MaxWake \in Nat

Kind == {"manifest", "heartbeat", "state", "response", "product_state", "external"}
Part == 0..(States - 1)
Topic == {<<"manifest", 0>>, <<"heartbeat", 0>>} \cup ({"state"} \X Part)

VARIABLES s,       \* ABoxCloudService
          sent,    \* external: what is known of each operation
          linked,  \* external: the transport is ready
          asked,   \* history: the requests that were accepted
          acked,   \* history: the requests whose response the broker has
          shown    \* history: what the broker was last told of each state

vars == <<s, sent, linked, asked, acked, shown>>

NoJob == [kind |-> "none", about |-> "none", id |-> NoRequest]
Job(kind, about, id) == [kind |-> kind, about |-> about, id |-> id]
Unknown == [status |-> "unknown"]
Nothing == [generation |-> 0, serial |-> 0, correlated |-> 0]
Known(entry, status) == [status |-> status, generation |-> entry.generation]

-----------------------------------------------------------------------------
(* No job under way: what was kept for its receipt means nothing any more. *)
Idle(v) == [v EXCEPT !.in_flight = "none", !.operation = NoOperation,
                     !.count = 0, !.in_flight_event = 0, !.in_flight_correlated = 0]

(* NetworkChanged, SetReady.                                               *)
(* Faulty variant: the job under way outlives its connection.              *)
NetworkChangedKeeps(v) ==
    [v EXCEPT !.generation = @ + 1, !.ready = FALSE, !.stage = 0, !.index = 0,
              !.product_state = FALSE]
(* Faulty variant: a report goes on where another connection left it.      *)
NetworkChangedResumes(v) ==
    [Idle(v) EXCEPT !.generation = @ + 1, !.ready = FALSE, !.stage = 0, !.product_state = FALSE]
NetworkChanged(v) ==
    [Idle(v) EXCEPT !.generation = @ + 1, !.ready = FALSE, !.stage = 0, !.index = 0,
                    !.product_state = FALSE]
SetReady(v, ready) ==
    IF ready = v.ready THEN v
    ELSE IF ready THEN [v EXCEPT !.ready = TRUE, !.stage = 1, !.heartbeat = TRUE, !.status = TRUE]
    ELSE NetworkChanged(v)

(* Calls of the product that queue work; a refused call changes nothing.   *)
QueueResponse(v, id, sync) ==
    IF v.response # NoRequest \/ (sync /\ v.sync # NoRequest) THEN v
    ELSE [v EXCEPT !.response = id, !.response_sync = sync,
                   !.parked = IF sync /\ v.parked = id THEN NoRequest ELSE @]
QueueSyncRequest(v, id) ==
    IF v.parked # NoRequest THEN v ELSE [v EXCEPT !.parked = id]
Correlate(v, id, about) ==
    [v EXCEPT !.sync = id, !.about = about, !.correlated = @ + 1]
QueueStateReport(v, id) == Correlate(v, id, "result")
WakeState(v) == [v EXCEPT !.event = TRUE, !.serial = @ + 1]
CancelResponse(v) ==
    LET u == [v EXCEPT !.response = NoRequest, !.response_sync = FALSE]
    IN  IF v.in_flight = "response" THEN Idle(u) ELSE u

-----------------------------------------------------------------------------
(* Next: the first of these that is due.                                   *)
Ladder(v) ==
    << <<v.response # NoRequest /\ Preempts, Job("response", "none", v.response)>>,
       <<v.stage = 1,              Job("manifest", "none", NoRequest)>>,
       <<v.stage = 2,              Job("heartbeat", "none", NoRequest)>>,
       <<v.stage = 3,              Job("state", "bootstrap", NoRequest)>>,
       <<v.product_state,          Job("product_state", "none", NoRequest)>>,
       <<v.response # NoRequest,   Job("response", "none", v.response)>>,
       <<v.sync # NoRequest,       Job("state", v.about, v.sync)>>,
       <<v.parked # NoRequest,     Job("response", "none", v.parked)>>,
       <<v.event,                  Job("state", "event", NoRequest)>>,
       <<v.heartbeat,              Job("heartbeat", "none", NoRequest)>>,
       <<v.status,                 Job("state", "periodic", NoRequest)>> >>

NextJob(v) ==
    LET due == {n \in 1..11 : Ladder(v)[n][1]}
    IN  IF ~v.ready \/ v.in_flight # "none" \/ due = {} THEN NoJob
        ELSE Ladder(v)[Min(due)][2]

MayYield(v, job) ==
    job = NoJob \/ (ExternalFirst /\ v.stage = 0 /\ (job.kind = "heartbeat" \/ job.about = "periodic"))

BeginExternal(v, op) ==
    IF v.ready /\ v.in_flight = "none" /\ MayYield(v, NextJob(v))
    THEN [v EXCEPT !.in_flight = "external", !.operation = op] ELSE v

Begin(v, job, op) ==
    IF job.kind = "none" \/ job # NextJob(v) \/ (job.kind = "response" /\ v.response = NoRequest)
    THEN v
    ELSE LET settled == job.kind = "state" /\ v.stage = 0
         IN  [v EXCEPT
                !.in_flight = job.kind, !.operation = op,
                !.count = IF settled /\ job.about = "periodic" /\ Periodic # 0
                          THEN Periodic ELSE States,
                !.in_flight_event = IF settled /\ v.sync = NoRequest /\ v.event THEN v.serial ELSE 0,
                !.in_flight_correlated =
                    IF settled /\ v.sync # NoRequest THEN v.correlated ELSE 0]

-----------------------------------------------------------------------------
(* Receipt of a confirmed job.                                             *)
Responded(v) ==
    LET u == [v EXCEPT !.response = NoRequest, !.response_sync = FALSE]
    IN  IF v.response_sync THEN Correlate(u, v.response, "sync_state") ELSE u

(* Faulty variant: any report answers the request that waits.              *)
ReportedAnyRequest(v) ==
    IF v.stage = 3
    THEN [v EXCEPT !.stage = 0, !.ever_ready = TRUE, !.heartbeat = FALSE, !.status = FALSE]
    ELSE [v EXCEPT !.status = FALSE, !.sync = NoRequest,
                   !.event = IF v.sync = NoRequest THEN FALSE ELSE @]

Reported(v) ==
    IF v.stage = 3
    THEN [v EXCEPT !.stage = 0, !.ever_ready = TRUE, !.heartbeat = FALSE, !.status = FALSE]
    ELSE [v EXCEPT
            !.status = FALSE,
            !.sync = IF v.correlated = v.in_flight_correlated THEN NoRequest ELSE @,
            !.event = IF v.sync = NoRequest /\ v.serial = v.in_flight_event THEN FALSE ELSE @]

Completed(v, kind) ==
    CASE kind = "product_state" -> [v EXCEPT !.product_state = FALSE]
      [] kind = "state" -> IF v.index + 1 < v.count THEN [v EXCEPT !.index = @ + 1]
                           ELSE Reported([v EXCEPT !.index = 0])
      [] kind = "manifest" -> IF v.stage = 1 THEN [v EXCEPT !.stage = 2] ELSE v
      [] kind = "heartbeat" -> IF v.stage = 2 THEN [v EXCEPT !.stage = 3]
                               ELSE [v EXCEPT !.heartbeat = FALSE]
      [] kind = "response" /\ v.response # NoRequest -> Responded(v)
      [] OTHER -> v

Own(v, generation, op) ==
    v.in_flight # "none" /\ generation = v.generation /\ op = v.operation

(* Faulty variant: a failed publish is waited for on and on.               *)
ReceiptWaiting(v, generation, op, confirmed) ==
    IF ~Own(v, generation, op) \/ ~confirmed THEN v
    ELSE Idle(Completed(v, v.in_flight))

Receipt(v, generation, op, confirmed) ==
    IF ~Own(v, generation, op) THEN v
    ELSE Idle(IF confirmed THEN Completed(v, v.in_flight) ELSE v)

-----------------------------------------------------------------------------
(* The product and the application's loop.                                 *)
Call(v) ==
    /\ s' = v
    /\ UNCHANGED <<sent, linked, acked, shown>>

Ask(id) ==
    /\ id \notin asked
    /\ \E v \in {QueueResponse(s, id, FALSE), QueueResponse(s, id, TRUE),
                 QueueSyncRequest(s, id), QueueStateReport(s, id)} :
          v # s /\ Call(v)
    /\ asked' = asked \cup {id}

Wake == s.serial < MaxWake /\ Call(WakeState(s)) /\ UNCHANGED asked
DropResponse == s.response # NoRequest /\ Call(CancelResponse(s)) /\ UNCHANGED asked
SetProductStatePending ==
    ProductStates /\ Call([s EXCEPT !.product_state = ~@]) /\ UNCHANGED asked
PeriodPasses ==
    /\ s.ready /\ s.stage = 0
    /\ \E v \in {[s EXCEPT !.heartbeat = TRUE], [s EXCEPT !.status = TRUE]} : v # s /\ Call(v)
    /\ UNCHANGED asked

(* The connection is lost, or was, and the service is told.                *)
TellReady == /\ linked # s.ready
             /\ linked \/ s.generation < MaxGeneration
             /\ Call(SetReady(s, linked)) /\ UNCHANGED asked
TellChanged == /\ s.generation < MaxGeneration
               /\ Call(NetworkChanged(s)) /\ UNCHANGED asked

(* A receipt that reaches the service by a callback of the product.        *)
LateReceipt(op) ==
    /\ sent[op].status \in {"confirmed", "failed"}
    /\ Call(Receipt(s, sent[op].generation, op, sent[op].status = "confirmed"))
    /\ UNCHANGED asked

-----------------------------------------------------------------------------
(* Poll: the receipt of the job under way, then the next job.              *)
Active == \E op \in Operation : sent[op].status = "active"

(* What the transport is handed, and what the cloud will know by it.       *)
Content(v, job) ==
    LET state == job.kind = "state"
    IN  [status |-> "active", generation |-> v.generation, id |-> job.id,
         topic |-> <<job.kind, IF state THEN v.index ELSE 0>>,
         tells |-> [generation |-> v.generation, serial |-> IF state THEN v.serial ELSE 0,
                    correlated |-> IF state /\ job.id # NoRequest THEN v.correlated ELSE 0]]

(* A request that was parked waits for the product to adopt it, which may  *)
(* happen in its publish; the id of the job is the storage that empties.   *)
Parked(v, job) == job.kind = "response" /\ v.response = NoRequest
Adopted(v, job) == QueueResponse(v, job.id, TRUE)
Emptied(job) == [job EXCEPT !.id = NoRequest]

Publishes(v, job, begun) ==
    \E op \in Operation :
       /\ sent[op].status = "unknown"
       /\ sent' = [sent EXCEPT ![op] = Content(v, job)]
       /\ s' = begun[op]

Issue(v, job) ==
    \/ /\ MayYield(v, job) /\ v.ready
       /\ Publishes(v, Job("external", "none", NoRequest),
                    [op \in Operation |-> BeginExternal(v, op)])
    \/ /\ job # NoJob
       /\ Publishes(v, job, [op \in Operation |-> Begin(v, job, op)])
    \/ /\ Parked(v, job)
       /\ \/ s' = Adopted(v, job) /\ UNCHANGED sent
          \/ Publishes(v, job, [op \in Operation |-> Begin(Adopted(v, job), Emptied(job), op)])
    \/ s' = v /\ UNCHANGED sent   \* nothing to do, or the transport or the product refuses

Status == IF s.in_flight = "none" THEN "none" ELSE sent[s.operation].status

Poll ==
    /\ IF Status \in {"none", "confirmed"}
       THEN \E v \in {IF Status = "none" THEN s ELSE Receipt(s, s.generation, s.operation, TRUE)} :
              IF v.ready /\ linked /\ ~Active
              THEN \E job \in {NextJob(v)} : Issue(v, job)
              ELSE s' = v /\ UNCHANGED sent
       ELSE /\ s' = IF Status = "active" THEN s
                    ELSE Receipt(s, s.generation, s.operation, FALSE)
            /\ UNCHANGED sent
    /\ UNCHANGED <<linked, asked, acked, shown>>

-----------------------------------------------------------------------------
(* The transport and the broker.                                           *)
LinkUp == ~linked /\ linked' = TRUE /\ UNCHANGED <<s, sent, asked, acked, shown>>
LinkDown ==
    /\ linked /\ s.generation < MaxGeneration
    /\ linked' = FALSE
    /\ sent' = [op \in Operation |->
                  IF sent[op].status = "active" THEN Known(sent[op], "failed") ELSE sent[op]]
    /\ UNCHANGED <<s, asked, acked, shown>>

Confirms(op) ==
    /\ sent[op].status = "active"
    /\ sent' = [sent EXCEPT ![op] = Known(@, "confirmed")]
    /\ acked' = IF sent[op].topic[1] = "response" THEN acked \cup {sent[op].id} ELSE acked
    /\ shown' = [k \in DOMAIN shown |->
                   IF k = sent[op].topic THEN sent[op].tells ELSE shown[k]]
    /\ UNCHANGED <<s, linked, asked>>

Fails(op) ==
    /\ sent[op].status = "active"
    /\ \E status \in {"failed", "lost"} : sent' = [sent EXCEPT ![op] = Known(@, status)]
    /\ UNCHANGED <<s, linked, asked, acked, shown>>

Forgets(op) ==
    /\ sent[op].status \notin {"active", "unknown"} /\ op # s.operation
    /\ sent' = [sent EXCEPT ![op] = Unknown]
    /\ UNCHANGED <<s, linked, asked, acked, shown>>

-----------------------------------------------------------------------------
(* Init, with SetStateCount and SetPeriodicStateCount, which come first.   *)
Init ==
    /\ s = [generation |-> 1, ready |-> FALSE, stage |-> 0, ever_ready |-> FALSE,
            in_flight |-> "none", operation |-> NoOperation, count |-> 0,
            in_flight_event |-> 0, in_flight_correlated |-> 0, index |-> 0,
            product_state |-> FALSE, response |-> NoRequest, response_sync |-> FALSE,
            sync |-> NoRequest, about |-> "none", correlated |-> 0, parked |-> NoRequest,
            event |-> FALSE, serial |-> 0, heartbeat |-> TRUE, status |-> TRUE]
    /\ sent = [op \in Operation |-> Unknown]
    /\ linked = FALSE /\ asked = {} /\ acked = {}
    /\ shown = [k \in Topic |-> Nothing]

Product == \/ \E id \in Request : Ask(id)
           \/ Wake \/ DropResponse \/ SetProductStatePending \/ PeriodPasses
           \/ TellReady \/ TellChanged \/ Poll
           \/ \E op \in Operation : LateReceipt(op)

World == \/ LinkUp \/ LinkDown
         \/ \E op \in Operation : Confirms(op) \/ Fails(op) \/ Forgets(op)

Next == Product \/ World

Spec == Init /\ [][Next]_vars

(* The loop polls, the broker answers, what failed is retried, and what    *)
(* was parked is adopted.                                                  *)
Answered == \E op \in Operation : Confirms(op)
Submits == Poll /\ (s'.in_flight \notin {"none", "external"} \/ s'.parked # s.parked)
Settles == Poll /\ s.in_flight # "none"
Forgotten == \E op \in Operation : Forgets(op)
FairSpec == Spec /\ WF_vars(Settles) /\ SF_vars(Submits) /\ SF_vars(Answered) /\ WF_vars(Forgotten)

-----------------------------------------------------------------------------
(* Every variable keeps its type.                                          *)
Asked == Request \cup {NoRequest}
Tells == [generation : 0..MaxGeneration, serial : 0..MaxWake, correlated : Nat]
TypeOK ==
    /\ s.generation \in 1..MaxGeneration /\ s.stage \in 0..3 /\ s.index \in Part
    /\ {s.ready, s.ever_ready, s.product_state, s.response_sync, s.event, s.heartbeat, s.status} \subseteq BOOLEAN
    /\ s.in_flight \in Kind \cup {"none"} /\ s.operation \in Operation \cup {NoOperation}
    /\ {s.response, s.sync, s.parked} \subseteq Asked
    /\ s.about \in {"none", "result", "sync_state"}
    /\ s.count \in 0..States /\ s.serial \in 0..MaxWake /\ s.in_flight_event \in 0..MaxWake
    /\ s.correlated \in Nat /\ s.in_flight_correlated \in Nat
    /\ \A op \in Operation :
          \/ sent[op] = Unknown
          \/ sent[op] \in [status : {"confirmed", "failed", "lost"}, generation : 1..MaxGeneration]
          \/ /\ sent[op].status = "active" /\ sent[op].generation \in 1..MaxGeneration
             /\ sent[op].id \in Asked /\ sent[op].topic \in Kind \X Part /\ sent[op].tells \in Tells
    /\ linked \in BOOLEAN /\ asked \subseteq Request /\ acked \subseteq asked
    /\ shown \in [Topic -> Tells]

(* The service keeps the promise of the bootstrap cursor: whatever else is *)
(* queued, answered late or sent in between, a connection reports the      *)
(* manifest, a heartbeat and the state in this order, and only receipts of *)
(* this connection's own publishes take it on (Next, Begin, Receipt).      *)
Cursor == INSTANCE CloudBootstrap
          WITH generation <- s.generation, ready <- s.ready, stage <- s.stage,
               ever_ready <- s.ever_ready,
               in_flight <- IF s.stage = 0 \/ s.in_flight \in {"response", "external"}
                            THEN "none" ELSE s.in_flight,
               operation <- IF s.stage = 0 \/ s.in_flight \in {"response", "external"}
                            THEN NoOperation ELSE s.operation
ImplementsCloudBootstrap == Cursor!Spec

(* Once a connection counts as reported, the broker has been told the      *)
(* manifest and every one of the states on this very connection (Receipt,  *)
(* NetworkChanged).                                                        *)
BootstrapIsWhole ==
    s.ready /\ s.stage = 0 => \A k \in Topic : shown[k].generation = s.generation

(* "Responses are confirmed first, then the state of the same request id": *)
(* a report is correlated to a request only when the broker has the        *)
(* response to it, whatever was cancelled, replaced or confirmed late.     *)
ResponseFirst == s.sync # NoRequest /\ s.about = "sync_state" => s.sync \in acked

(* What was queued counts as reported only by a publish that told it: a    *)
(* wake-up when the last state of a report was told after it, a correlated *)
(* report when its last state was told under this very request and not the *)
(* one it replaced (WakeState, QueueStateReport, Begin, Receipt).          *)
LastShown == shown'[<<"state", States - 1>>]
QueuedIsReported ==
    [][/\ s.event /\ ~s'.event => LastShown.serial = s.serial
       /\ s.sync # NoRequest /\ s'.sync = NoRequest => LastShown.correlated = s.correlated]_vars

(* Whatever is queued is reported, on any connection that stays, whatever  *)
(* publish of an earlier one is still heard of, once the product no longer *)
(* puts states of its own ahead of it (Next, Receipt, Poll).               *)
Queued == s.event \/ s.response # NoRequest \/ s.sync # NoRequest \/ s.parked # NoRequest
Pending == s.ready /\ linked /\ Queued
AllReported == <>[]~s.product_state => (Pending ~> ~Pending)
=============================================================================
