----------------------------- MODULE Enrollment -----------------------------
(***************************************************************************)
(* Enrolment of a box that has no configuration yet: it applies to the     *)
(* server over HTTPS through the modem, polls until somebody approves it,  *)
(* tries the configuration it is given and reports done.                   *)
(*                                                                         *)
(*   components/enrollment/src/abox_enrollment.c             the request   *)
(*   components/enrollment/src/abox_enrollment_ec800_http.c  HTTPS and the *)
(*                                                           pinned CA     *)
(*   components/enrollment/src/abox_enrollment_service.c     the two tied  *)
(*                                                           together      *)
(*                                                                         *)
(* The product with a pinned CA is modelled (RequirePsk).  The modem works *)
(* its commands off in order and may answer them too late, when the next   *)
(* one already waits for its untagged OK.                                  *)
(***************************************************************************)
EXTENDS Naturals, Sequences

CONSTANTS Chunks,    \* length of the CA file in pieces of 1024 bytes
          Settings,  \* commands from TLS_VERSION to RESP_HEADER
          Backlog    \* bound on the commands the modem has still to answer

ASSUME EnrollmentAssumption ==
    Chunks \in Nat \ {0} /\ Settings \in Nat \ {0} /\ Backlog \in Nat \ {0}

VARIABLES e,         \* ABoxEnrollment
          h,         \* ABoxEnrollmentEc800Http, and its command in the AT client
          gate,      \* the AT client takes commands
          trial,     \* external: the product's configuration trial
          wire,      \* external: commands the modem has not finished with
          session,   \* external: the HTTP session in the modem
          file,      \* external: the chunks of the CA file that are right
          server     \* external: the request at the server

vars == <<e, h, gate, trial, wire, session, file, server>>
modem == <<session, file, server>>

-----------------------------------------------------------------------------
(* Adapter states are named as in the code, without their prefix.          *)
Setup == {"PDP_QUERY", "PDP_ACTIVATE", "SETTING"}
Http == Setup \cup {"URL", "POST", "READ", "STOP"}
Ca == {"CA_LIST", "CA_OPEN", "CA_READ", "CA_CLOSE", "CA_DELETE", "CA_UPLOAD"}
PayloadCommand == {"URL", "POST", "CA_UPLOAD"}
WaitsForUrc == {"POST", "READ"}

(* What the server answers, as the status and as the body that goes with   *)
(* it: 200/201 with a requestId, 202, 200 approved, 401/403/404/410 to a   *)
(* poll, and whatever else only costs a delay.                             *)
Answer == {"created", "pending", "approved", "gone", "trouble"}

OnWire == h.link \notin {"none", "queued"}
AllChunks == 1..Chunks

-----------------------------------------------------------------------------
(* The adapter's own steps, as the values h may take.                      *)
Submitted(g, s) == {f \in {[g EXCEPT !.state = s, !.link = "queued"]} : gate}

(* Faulty variant: a request that could not be stopped is taken for ended. *)
FinishAnyhow(g, clean) == {[g EXCEPT !.state = "IDLE"]}

Finish(g, clean) == {[g EXCEPT !.state = "IDLE", !.blocked = @ \/ ~clean]}

(* Faulty variant: a refused QHTTPSTOP is waited for.                      *)
StopHttpWaits(g) == IF g.state \in Setup THEN Finish(g, TRUE)
                    ELSE Submitted(g, "STOP") \cup {[g EXCEPT !.state = "STOP"]}

StopHttp(g) == IF g.state \in Setup THEN Finish(g, TRUE)
               ELSE Submitted(g, "STOP") \cup Finish(g, FALSE)

(* A refused command stops the request in the state it was to enter.       *)
Issue(g, s) == Submitted(g, s) \cup StopHttp([g EXCEPT !.state = s])

Block(g) == {[g EXCEPT !.state = "IDLE", !.blocked = TRUE]}

CaSubmit(g, s) == Submitted(g, s) \cup Block(g)

ReadsOn(g) == g.offset < Chunks /\ g.match

(* Faulty variant: the length that was read is all that counts.            *)
ReadBackSize(g) == g.offset = Chunks

ReadBack(g) == g.match /\ g.offset = Chunks

CaDone(g, ok) ==
    IF ~ok /\ g.state \notin {"CA_LIST", "CA_DELETE"} THEN Block(g)
    ELSE CASE g.state = "CA_LIST" ->
            IF ok /\ g.match THEN CaSubmit(g, "CA_OPEN")
            ELSE IF g.uploaded THEN Block(g)
            ELSE CaSubmit(g, "CA_DELETE")
      [] g.state = "CA_OPEN" ->
            IF g.handle THEN CaSubmit([g EXCEPT !.offset = 0, !.match = TRUE], "CA_READ")
            ELSE Block(g)
      [] g.state = "CA_READ" ->
            CaSubmit(g, IF ReadsOn(g) THEN "CA_READ" ELSE "CA_CLOSE")
      [] g.state = "CA_CLOSE" ->
            LET f == [g EXCEPT !.handle = FALSE] IN
            IF ReadBack(f) THEN {[f EXCEPT !.state = "IDLE", !.verified = TRUE]}
            ELSE IF f.uploaded THEN Block(f)
            ELSE CaSubmit(f, "CA_DELETE")
      [] g.state = "CA_DELETE" -> CaSubmit(g, "CA_UPLOAD")
      [] g.state = "CA_UPLOAD" -> CaSubmit([g EXCEPT !.uploaded = TRUE, !.match = FALSE], "CA_LIST")

Activated(g) == g.state = "PDP_ACTIVATE" \/ g.pdp_active

Succeeded(g, sent) ==
    CASE g.state \in {"PDP_QUERY", "PDP_ACTIVATE"} ->
            IF Activated(g) THEN Issue([g EXCEPT !.settings = 1], "SETTING")
            ELSE Issue(g, "PDP_ACTIVATE")
      [] g.state = "SETTING" ->
            IF g.settings < Settings THEN Issue([g EXCEPT !.settings = @ + 1], "SETTING")
            ELSE Issue(g, "URL")
      [] g.state = "URL" -> Issue(g, "POST")
      [] g.state = "POST" ->
            IF sent /\ g.status # "none" /\ g.fits THEN Issue(g, "READ") ELSE StopHttp(g)
      [] g.state = "READ" ->
            Finish([g EXCEPT !.overflow = @ \/ g.body \in {"none", "part"}], TRUE)

(* command_done                                                            *)
CommandDone(g0, ok) ==
    LET g == [g0 EXCEPT !.link = "none"] IN
    IF g.state = "IDLE" THEN {g}
    ELSE IF g.state \in Ca THEN CaDone(g, ok)
    ELSE IF g.state = "STOP" THEN Finish(g, ok)
    ELSE IF ~ok \/ g.cancelling THEN StopHttp(g)
    ELSE Succeeded(g, g0.link = "given")

(* A file left open, or raw bytes left to come, need a physical reset.     *)
ClosesGate(g, ok) == g.state \in Ca \ {"CA_LIST", "CA_DELETE"} /\ ~ok /\ g.handle

-----------------------------------------------------------------------------
(* The core's answers, as the values e may take.                           *)
Waiting(x) == [x EXCEPT !.state = "WAITING"]

Forgotten(x) == [x EXCEPT !.have_request = FALSE]
Wiped(x) == [x EXCEPT !.credential = FALSE]

(* Faulty variant: 401, 403, 404 and 410 are answers like any other, and   *)
(* the body is not asked whether the request is approved.                  *)
OnHttpUnread(g) ==
    IF e.state = "CANCELLING" THEN {Waiting(Forgotten(Wiped(e)))}
    ELSE IF g.blocked \/ g.overflow \/ g.cancelling \/ g.body \notin Answer THEN {Waiting(e)}
    ELSE IF ~e.have_request /\ g.status = "created" THEN {Waiting([e EXCEPT !.have_request = TRUE])}
    ELSE IF e.have_request /\ g.status \in {"approved", "gone"}
    THEN {[e EXCEPT !.state = "TRIAL", !.waiting_trial = TRUE, !.credential = TRUE]}
    ELSE {Waiting(e)}

(* ABoxEnrollment_OnHttp, for what the adapter g has to report.            *)
OnHttp(g) ==
    IF e.state = "CANCELLING" THEN {Waiting(Forgotten(Wiped(e)))}
    ELSE IF g.blocked \/ g.overflow \/ g.cancelling THEN {Waiting(e)}
    ELSE IF e.have_request /\ g.status = "gone" THEN {Waiting(Forgotten(e))}
    ELSE IF g.body \notin Answer \/ g.status \in {"none", "trouble"} THEN {Waiting(e)}
    ELSE IF ~e.have_request /\ g.status = "created" /\ g.body = "created"
    THEN {Waiting(e), Waiting([e EXCEPT !.have_request = TRUE])}
    ELSE IF e.have_request /\ g.status = "approved" /\ g.body = "approved"
    THEN {Waiting(e), [e EXCEPT !.state = "TRIAL", !.waiting_trial = TRUE, !.credential = TRUE]}
    ELSE {Waiting(e)}

Cleared(g) == [g EXCEPT !.settings = 0, !.status = "none", !.fits = FALSE, !.body = "none",
                        !.overflow = FALSE, !.cancelling = FALSE, !.pdp_active = FALSE,
                        !.match = FALSE, !.uploaded = FALSE, !.handle = FALSE, !.offset = 0]

(* The adapter moves to g; a request that ends is reported on the spot.    *)
(* What the next start clears is cleared when the adapter comes to rest.   *)
Moves(g) ==
    /\ h' = IF g.state = "IDLE" THEN Cleared(g) ELSE g
    /\ IF h.state \in Http /\ g.state = "IDLE" THEN e' \in OnHttp(g) ELSE UNCHANGED e
    /\ trial' = IF e'.state = "TRIAL" /\ e.state # "TRIAL" THEN "running" ELSE trial

-----------------------------------------------------------------------------
(* The service polls: the core once a delay is over, the CA while it is    *)
(* not verified.  Ready also waits for the other owners of the AT client.  *)
Restful == h.state = "IDLE" /\ ~h.blocked

PrepareCa ==
    /\ e.state # "TRIAL" /\ Restful /\ ~h.verified
    /\ \E g \in CaSubmit(h, "CA_LIST") : Moves(g)
    /\ UNCHANGED <<gate, wire, modem>>

(* Faulty variant: a cancelled enrolment is polled like any other.         *)
PostAgain ==
    /\ e.state = "WAITING"
    /\ Restful /\ h.verified
    /\ h' \in Submitted(h, "PDP_QUERY")
    /\ e' = [e EXCEPT !.state = "HTTP"]
    /\ UNCHANGED <<gate, trial, wire, modem>>

(* ABoxEnrollment_Poll and ABoxEnrollmentEc800Http_Post; a refused command *)
(* leaves both as they are for another delay.                              *)
Post ==
    /\ e.state = "WAITING" /\ ~e.cancelled
    /\ Restful /\ h.verified
    /\ h' \in Submitted(h, "PDP_QUERY")
    /\ e' = [e EXCEPT !.state = "HTTP"]
    /\ UNCHANGED <<gate, trial, wire, modem>>

(* Faulty variant: a failed trial forgets the request it was for.          *)
TrialResultForgets(x, saved) ==
    LET y == Wiped([x EXCEPT !.waiting_trial = FALSE]) IN
    IF x.cancelled THEN Waiting(Forgotten(y))
    ELSE IF saved THEN [Forgotten(y) EXCEPT !.state = "COMPLETE"]
    ELSE Waiting(Forgotten(y))

TrialResult(x, saved) ==
    LET y == Wiped([x EXCEPT !.waiting_trial = FALSE]) IN
    IF x.cancelled THEN Waiting(Forgotten(y))
    ELSE IF saved THEN [Forgotten(y) EXCEPT !.state = "COMPLETE"]
    ELSE Waiting(y)

(* The service asks for the result only in TRIAL.                          *)
PollTrial ==
    /\ e.state = "TRIAL" /\ trial \in {"saved", "failed"}
    /\ e' = TrialResult(e, trial = "saved")
    /\ trial' = "idle"
    /\ UNCHANGED <<h, gate, wire, modem>>

(* Faulty variant: a running request is dropped without waiting for it.    *)
CancelAtOnce ==
    /\ e.state # "COMPLETE"
    /\ e' = Waiting(Wiped(Forgotten([e EXCEPT !.cancelled = TRUE])))
    /\ h' = IF e.state = "HTTP" THEN [h EXCEPT !.cancelling = TRUE] ELSE h
    /\ UNCHANGED <<gate, trial, wire, modem>>

Cancel ==
    /\ e.state # "COMPLETE"
    /\ IF e.state \in {"HTTP", "TRIAL"}
       THEN e' = [e EXCEPT !.cancelled = TRUE, !.state = "CANCELLING"]
       ELSE e' = Wiped(Forgotten([e EXCEPT !.cancelled = TRUE]))
    /\ h' = IF e.state = "HTTP" THEN [h EXCEPT !.cancelling = TRUE] ELSE h
    /\ UNCHANGED <<gate, trial, wire, modem>>

(* External: the trial ends by itself or because it is cancelled.          *)
TrialEnds ==
    /\ trial = "running" /\ trial' \in {"saved", "failed"}
    /\ UNCHANGED <<e, h, gate, wire, modem>>

ServerDecides ==
    /\ \/ server = "open" /\ server' \in {"approved", "declined"}
       \/ server = "approved" /\ server' = "closed"
    /\ UNCHANGED <<e, h, gate, trial, wire, session, file>>

-----------------------------------------------------------------------------
(* The AT client writes the command, and may see it time out.              *)
StartCommand ==
    /\ gate /\ h.link = "queued" /\ Len(wire) < Backlog
    /\ h' = [h EXCEPT !.link = "sent"]
    /\ wire' = Append(wire, [cmd |-> h.state, stage |-> "asked"])
    /\ UNCHANGED <<e, gate, trial, modem>>

Escaped == [i \in DOMAIN wire |->
               IF wire[i].cmd \in PayloadCommand /\ wire[i].stage = "asked"
               THEN [wire[i] EXCEPT !.stage = "refused"] ELSE wire[i]]

Ends(ok) == /\ \E g \in CommandDone(h, ok) :
                  /\ ClosesGate(h, ok) => g.link = "none"
                  /\ Moves(g)
            /\ gate' = (gate /\ ~ClosesGate(h, ok))

(* External: QHTTPPOST and QHTTPREAD carry the modem's own limit, 80 s,    *)
(* which is below the 90 s of the AT client: once that is over they are    *)
(* not answered any more.  Any other command may be.                       *)
Expired == [i \in DOMAIN wire |->
               IF wire[i].cmd \in WaitsForUrc /\ wire[i].stage # "refused"
               THEN [wire[i] EXCEPT !.stage = "over"] ELSE wire[i]]

Timeout ==
    /\ gate /\ OnWire
    /\ Ends(FALSE)
    /\ wire' = IF h.state \in PayloadCommand /\ h.link = "sent" THEN Escaped
               ELSE IF h.state \in WaitsForUrc THEN Expired ELSE wire
    /\ UNCHANGED modem

(* A failed write or another owner closes the client, which ends what was  *)
(* waiting and accepts nothing meanwhile.                                  *)
Shut == IF h.link = "none" THEN {h} ELSE {g \in CommandDone(h, FALSE) : g.link = "none"}

Quarantine ==
    /\ gate /\ gate' = FALSE
    /\ \E g \in Shut : Moves(g)
    /\ wire' = Escaped
    /\ UNCHANGED modem

(* The modem restarts.  RDY ends every command and then resets the adapter *)
Renewed(g) == [Cleared(g) EXCEPT !.state = "IDLE", !.link = "none", !.blocked = FALSE,
                                 !.verified = FALSE]

OnModemReset ==
    /\ gate' = TRUE /\ wire' = <<>> /\ session' = [stage |-> "closed", answer |-> "none"]
    /\ \E g \in Shut :
          /\ h' = Renewed(g)
          /\ IF h.state \in Http THEN e' \in OnHttp(g) ELSE UNCHANGED e
    /\ UNCHANGED <<trial, file, server>>

(* The product has reset the modem and says so, RDY heard or not: the      *)
(* request that was running ends without an answer.                        *)
AfterModemReset ==
    /\ wire' = <<>> /\ session' = [stage |-> "closed", answer |-> "none"]
    /\ h' = Renewed(h)
    /\ IF e.state \in {"HTTP", "CANCELLING"} THEN e' \in OnHttp(Renewed(h)) ELSE UNCHANGED e
    /\ UNCHANGED <<gate, trial, file, server>>

-----------------------------------------------------------------------------
(* External: the modem works its commands off in order, and tells the      *)
(* lines of an answer to whatever state the adapter is in by then.         *)
Head1 == wire[1]
Staged(stage) == wire' = [wire EXCEPT ![1].stage = stage]

(* on_event for CONNECT: the payload of the command that runs is sent.     *)
Prompts ==
    /\ wire # <<>> /\ Head1.cmd \in PayloadCommand /\ Head1.stage = "asked"
    /\ IF h.state \in PayloadCommand /\ h.link = "sent"
       THEN h' = [h EXCEPT !.link = "given"] /\ Staged("given")
       ELSE UNCHANGED h /\ Staged("refused")
    /\ UNCHANGED <<e, gate, trial, modem>>

Ready == wire # <<>> /\ Head1.stage = IF Head1.cmd \in PayloadCommand THEN "given" ELSE "asked"

(* An upload that breaks off leaves any part of the file.                  *)
Refuses ==
    /\ wire # <<>>
    /\ Ready \/ Head1.stage = "refused"
    /\ Staged("error")
    /\ file' \in IF Head1.cmd = "CA_UPLOAD" THEN SUBSET AllChunks ELSE {file}
    /\ UNCHANGED <<e, h, gate, trial, session, server>>

Quietly(c) == Head1.cmd = c /\ UNCHANGED <<h, modem>>
Event(s, g) == h' = IF h.state = s THEN g ELSE h

(* What the server answers to an application, or to a poll.                *)
Answers(answer) ==
    \/ answer = "trouble" /\ UNCHANGED server
    \/ /\ ~e.have_request
       /\ answer = "created"
       /\ server' = IF server = "approved" THEN server ELSE "open"
    \/ /\ e.have_request /\ UNCHANGED server
       /\ answer = CASE server = "open" -> "pending"
                     [] server = "approved" -> "approved"
                     [] OTHER -> "gone"

Obeys ==
    /\ Ready /\ Staged("ok")
    /\ \/ \E c \in {"PDP_ACTIVATE", "SETTING", "URL", "CA_CLOSE"} : Quietly(c)
       \/ /\ Head1.cmd = "PDP_QUERY"
          /\ \E active \in BOOLEAN : Event("PDP_QUERY", [h EXCEPT !.pdp_active = active])
          /\ UNCHANGED modem
       \/ /\ Head1.cmd = "POST" /\ session.stage = "closed"
          /\ \E answer \in Answer :
                Answers(answer) /\ session' = [stage |-> "posting", answer |-> answer]
          /\ UNCHANGED <<h, file>>
       \/ /\ Head1.cmd = "READ" /\ session.stage = "posted"
          /\ session' = [session EXCEPT !.stage = "reading"]
          /\ \E body \in {session.answer, "part"} : Event("READ", [h EXCEPT !.body = body])
          /\ UNCHANGED <<file, server>>
       \/ /\ Head1.cmd = "STOP"
          /\ session' = [stage |-> "closed", answer |-> "none"]
          /\ UNCHANGED <<h, file, server>>
       \/ /\ Head1.cmd = "CA_LIST"
          /\ \E same \in {file # {}, file = AllChunks} : Event("CA_LIST", [h EXCEPT !.match = same])
          /\ UNCHANGED modem
       \/ /\ Head1.cmd = "CA_OPEN" /\ file # {}
          /\ Event("CA_OPEN", [h EXCEPT !.handle = TRUE])
          /\ UNCHANGED modem
       \/ /\ Head1.cmd = "CA_READ" /\ file # {}
          /\ \E clean \in BOOLEAN :
                Event("CA_READ", [h EXCEPT !.match = @ /\ clean /\ h.offset + 1 \in file,
                                           !.offset = IF @ < Chunks THEN @ + 1 ELSE @])
          /\ UNCHANGED modem
       \/ /\ Head1.cmd = "CA_DELETE"
          /\ file' = {}
          /\ UNCHANGED <<h, session, server>>
       \/ /\ Head1.cmd = "CA_UPLOAD"
          /\ file' = AllChunks
          /\ UNCHANGED <<h, session, server>>
    /\ UNCHANGED <<e, gate, trial>>

(* The final OK or ERROR, taken for the answer to the command that runs    *)
(* (emit_line).                                                            *)
Taken(ok) == OnWire /\ (~ok \/ /\ h.state \notin WaitsForUrc
                               /\ h.state \in PayloadCommand => h.link = "given")

ResultLine ==
    /\ wire # <<>> /\ Head1.stage \in {"ok", "error"}
    /\ wire' = Tail(wire)
    /\ IF Taken(Head1.stage = "ok") THEN Ends(Head1.stage = "ok")
       ELSE UNCHANGED <<e, h, gate, trial>>
    /\ UNCHANGED modem

(* The answer is lost on the way, or was due too long ago to be given.     *)
Lost == /\ wire # <<>> /\ Head1.stage \in {"ok", "error", "over"}
        /\ wire' = Tail(wire)
        /\ UNCHANGED <<e, h, gate, trial, modem>>

(* +QHTTPPOST and +QHTTPREAD, behind the OK of their commands.             *)
Behind(cmd) == \A i \in DOMAIN wire : wire[i].cmd = cmd => wire[i].stage = "over"

UrcEnds(g, ok) == /\ \E f \in CommandDone(g, ok) : Moves(f)
                  /\ UNCHANGED gate

Posted ==
    /\ session.stage = "posting" /\ Behind("POST")
    /\ \E ok, fits \in BOOLEAN :
          /\ session' = IF ok THEN [session EXCEPT !.stage = "posted"]
                        ELSE [stage |-> "closed", answer |-> "none"]
          /\ IF h.state = "POST" /\ OnWire
             THEN UrcEnds(IF ok THEN [h EXCEPT !.status = session.answer, !.fits = fits] ELSE h, ok)
             ELSE UNCHANGED <<e, h, gate, trial>>
    /\ UNCHANGED <<wire, file, server>>

ReadDone ==
    /\ session.stage = "reading" /\ Behind("READ")
    /\ \E ok \in BOOLEAN :
          /\ session' = IF ok THEN [stage |-> "closed", answer |-> "none"]
                        ELSE [session EXCEPT !.stage = "posted"]
          /\ IF h.state = "READ" /\ OnWire THEN UrcEnds(h, ok)
             ELSE UNCHANGED <<e, h, gate, trial>>
    /\ UNCHANGED <<wire, file, server>>

-----------------------------------------------------------------------------
Init ==
    /\ e = [state |-> "WAITING", have_request |-> FALSE, waiting_trial |-> FALSE,
            cancelled |-> FALSE, credential |-> FALSE]
    /\ h = [state |-> "IDLE", link |-> "none", blocked |-> FALSE, verified |-> FALSE,
            settings |-> 0, status |-> "none", fits |-> FALSE, body |-> "none",
            overflow |-> FALSE, cancelling |-> FALSE, pdp_active |-> FALSE,
            match |-> FALSE, uploaded |-> FALSE, handle |-> FALSE, offset |-> 0]
    /\ gate = TRUE /\ trial = "idle" /\ wire = <<>>
    /\ session = [stage |-> "closed", answer |-> "none"]
    /\ file \in SUBSET AllChunks /\ server = "none"

Poll == PrepareCa \/ Post \/ PollTrial
Modem == Prompts \/ Refuses \/ Obeys \/ ResultLine \/ Lost \/ Posted \/ ReadDone

Next == \/ Poll \/ Cancel \/ TrialEnds \/ ServerDecides
        \/ StartCommand \/ Timeout \/ Modem
        \/ Quarantine \/ OnModemReset \/ AfterModemReset

Spec == Init /\ [][Next]_vars

(* The main loop runs and time passes; a modem may stay silent for ever,   *)
(* but not once it owes Backlog answers: the App restarts it then.         *)
FairSpec == /\ Spec
            /\ WF_vars(StartCommand) /\ WF_vars(Timeout)
            /\ WF_vars(Len(wire) = Backlog /\ OnModemReset)

-----------------------------------------------------------------------------
(* Every variable keeps its type.                                          *)
Core == [state : {"WAITING", "HTTP", "TRIAL", "COMPLETE", "CANCELLING"},
         have_request : BOOLEAN, waiting_trial : BOOLEAN, cancelled : BOOLEAN,
         credential : BOOLEAN]
Adapter == [state : Http \cup Ca \cup {"IDLE"}, link : {"none", "queued", "sent", "given"},
            blocked : BOOLEAN, verified : BOOLEAN, settings : 0..Settings,
            status : Answer \cup {"none"}, fits : BOOLEAN,
            body : Answer \cup {"none", "part"}, overflow : BOOLEAN, cancelling : BOOLEAN,
            pdp_active : BOOLEAN, match : BOOLEAN, uploaded : BOOLEAN, handle : BOOLEAN,
            offset : 0..Chunks]
TypeOK ==
    /\ e \in Core
    /\ h \in Adapter
    /\ gate \in BOOLEAN
    /\ trial \in {"idle", "running", "saved", "failed"}
    /\ wire \in Seq([cmd : Http \cup Ca, stage : {"asked", "given", "refused", "over", "ok", "error"}])
    /\ Len(wire) <= Backlog
    /\ session \in [stage : {"closed", "posting", "posted", "reading"}, answer : Answer \cup {"none"}]
    /\ file \in SUBSET AllChunks
    /\ server \in {"none", "open", "approved", "declined", "closed"}

(* A request runs in the core exactly while the adapter works on it: the   *)
(* adapter reports each end once and reports none it was not asked for     *)
(* (finish, AfterModemReset, Cancel).                                      *)
RequestInStep ==
    h.state \in Http <=> \/ e.state = "HTTP"
                         \/ e.state = "CANCELLING" /\ ~e.waiting_trial

(* No HTTPS request is made before the CA file in the modem holds exactly  *)
(* the pinned certificate (ca_done, Ready), however late the modem answers *)
(* the commands that list, read, delete and upload it.                     *)
TrustsPinnedCa == h.state \in Http => file = AllChunks

(* A new request can be made only when the last one has left no HTTP       *)
(* session open in the modem (stop_http, finish): whether it was stopped,  *)
(* read to its end or given up, with answers coming late or not at all.    *)
(* A modem that owes more answers than a request has commands up to its    *)
(* POST could deceive the adapter.                                         *)
SessionClosed == Restful => session.stage = "closed"

(* A request over HTTPS is under way.                                      *)
Requesting == e.state = "HTTP" \/ (e.state = "CANCELLING" /\ ~e.waiting_trial)

(* What the operator sees of the box (abox_enrollment.c).  It asks only    *)
(* while it has no configuration and was not cancelled (Poll, Cancel); its *)
(* request is kept until an answer says that the server has declined or    *)
(* closed it, and only an approved one is tried (OnHttp, TrialResult).     *)
Request == INSTANCE EnrolmentRequest
           WITH phase <- IF e.cancelled THEN "abandoned"
                         ELSE IF e.state = "COMPLETE" THEN "enrolled"
                         ELSE IF e.state = "TRIAL" THEN "trial"
                         ELSE IF e.have_request THEN "held" ELSE "none",
                asking <- Requesting
ImplementsEnrolmentRequest == Request!Spec

(* Every request comes to an end, answered or not, cancelled or not, so    *)
(* that the core goes on or has settled (command_done, finish, OnHttp).    *)
RequestEnds == Requesting ~> ~Requesting
=============================================================================
