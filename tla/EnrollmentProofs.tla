-------------------------- MODULE EnrollmentProofs --------------------------
(***************************************************************************)
(* What Enrollment keeps for a certificate of any length, any number of    *)
(* settings and any number of unanswered commands.  Every action moves the *)
(* adapter by CommandDone or leaves it where it is, and whatever ends a    *)
(* request goes through OnHttp: both are proved once, for all actions.     *)
(***************************************************************************)
EXTENDS Enrollment, TLAPS

(* What an answer says of the server goes on being true while it is        *)
(* carried to the core: only an application reopens a request, and none is *)
(* made while a request is held.                                           *)
Honest(status, held) ==
    /\ status = "created" => server # "none"
    /\ held => /\ status = "approved" => server \in {"approved", "closed"}
               /\ status = "gone" => server \in {"declined", "closed"}

(* The core's own states.                                                  *)
Sane(x) ==
    /\ x.state = "CANCELLING" => x.cancelled
    /\ x.state \in {"HTTP", "TRIAL", "COMPLETE"} => ~x.cancelled
    /\ x.state \in {"HTTP", "COMPLETE"} => ~x.waiting_trial
    /\ x.state = "WAITING" /\ ~x.cancelled => ~x.waiting_trial
    /\ x.state = "TRIAL" => x.waiting_trial /\ x.have_request

(* RequestInStep, of a core and an adapter.                                *)
InStep(x, g) == g.state \in Http <=> \/ x.state = "HTTP"
                                     \/ x.state = "CANCELLING" /\ ~x.waiting_trial

(* A request the box holds is one the server has opened.                   *)
Opened(x) == x.have_request => server # "none"

(* An adapter at rest has no command under way.                            *)
AtRest(g) == g.state = "IDLE" => g.link = "none"

IInv == /\ TypeOK
        /\ Sane(e)
        /\ InStep(e, h)
        /\ AtRest(h)
        /\ Opened(e)
        /\ Honest(h.status, e.have_request)
        /\ Honest(session.answer, TRUE)

(* What the operator sees of a core.                                       *)
Phase(x) == IF x.cancelled THEN "abandoned"
            ELSE IF x.state = "COMPLETE" THEN "enrolled"
            ELSE IF x.state = "TRIAL" THEN "trial"
            ELSE IF x.have_request THEN "held" ELSE "none"

(* Requesting, of a core.                                                  *)
Asking(x) == x.state = "HTTP" \/ (x.state = "CANCELLING" /\ ~x.waiting_trial)

(* A core that moves as the abstract request allows: by what an answer     *)
(* says, by asking, or while the asking goes on as it did.                 *)
AnswerAllows(x, y) ==
    \/ Phase(y) = Phase(x)
    \/ Phase(x) = "none" /\ Phase(y) = "held" /\ server # "none"
    \/ Phase(x) = "held" /\ Phase(y) = "trial" /\ server \in {"approved", "closed"}
    \/ Phase(x) = "held" /\ Phase(y) = "none" /\ server \in {"declined", "closed"}
OtherwiseAllowed(x, y) ==
    \/ Phase(y) = Phase(x)
    \/ Phase(x) = "trial" /\ Phase(y) \in {"held", "enrolled"}
    \/ Phase(x) \in {"none", "held", "trial"} /\ Phase(y) = "abandoned"
Allowed(x, y) ==
    \/ Asking(x) /\ ~Asking(y) /\ AnswerAllows(x, y)
    \/ ~Asking(x) /\ Asking(y) /\ Phase(x) \in {"none", "held"} /\ Phase(y) = Phase(x)
    \/ (Asking(x) <=> Asking(y)) /\ OtherwiseAllowed(x, y)

LEMMA StandingStillIsAllowed == \A x : Allowed(x, x)
  BY DEF Allowed, OtherwiseAllowed

-----------------------------------------------------------------------------
(* The steps of the adapter keep the status, and the command where they    *)
(* give none.                                                              *)
Carried(f, g) == f.status = g.status /\ (f.state = "IDLE" => f.link = g.link)
Alike(f, g) == f.status = g.status /\ f.link = g.link

(* The phases of a request, those of a CA check and rest exclude each      *)
(* other, and stopping is a phase of the request.                          *)
LEMMA NeverIdle == "IDLE" \notin Http /\ "IDLE" \notin Ca /\ Http \cap Ca = {} /\ "STOP" \in Http
  BY DEF Http, Setup, Ca

LEMMA SubmittedAdapter ==
    ASSUME NEW g \in Adapter, NEW s \in Http \cup Ca, NEW f \in Submitted(g, s)
    PROVE  f \in Adapter /\ f.state = s /\ Carried(f, g)
  <1> DEFINE g1 == [g EXCEPT !.state = s]
             g2 == [g1 EXCEPT !.link = "queued"]
  <1>1. g1 \in Adapter /\ g1.state = s /\ g1.status = g.status
    BY DEF Adapter
  <1>2. f = g2
    BY DEF Submitted
  <1> HIDE DEF g1
  <1>3. g2 \in Adapter /\ g2.state = s /\ g2.status = g1.status
    BY <1>1 DEF Adapter
  <1>4. QED  BY <1>1, <1>2, <1>3, NeverIdle DEF Carried

LEMMA IdleAdapter ==
    ASSUME NEW g \in Adapter, NEW b \in BOOLEAN
    PROVE  LET f == [g EXCEPT !.state = "IDLE", !.blocked = b] IN
           f \in Adapter /\ f.state = "IDLE" /\ Carried(f, g)
  <1> DEFINE g1 == [g EXCEPT !.state = "IDLE"]
             f == [g1 EXCEPT !.blocked = b]
  <1>1. g1 \in Adapter /\ g1.state = "IDLE" /\ g1.status = g.status /\ g1.link = g.link
    BY DEF Adapter
  <1> HIDE DEF g1
  <1>2. f \in Adapter /\ f.state = "IDLE" /\ f.status = g1.status /\ f.link = g1.link
    BY <1>1 DEF Adapter
  <1>3. QED  BY <1>1, <1>2 DEF g1, Carried

LEMMA FinishAdapter ==
    ASSUME NEW g \in Adapter, NEW clean \in BOOLEAN, NEW f \in Finish(g, clean)
    PROVE  f \in Adapter /\ f.state = "IDLE" /\ Carried(f, g)
  <1> DEFINE b == g.blocked \/ ~clean
  <1>1. b \in BOOLEAN
    OBVIOUS
  <1>2. f = [g EXCEPT !.state = "IDLE", !.blocked = b]
    BY DEF Finish
  <1> HIDE DEF b
  <1>3. QED  BY <1>1, <1>2, IdleAdapter

LEMMA BlockAdapter ==
    ASSUME NEW g \in Adapter, NEW f \in Block(g)
    PROVE  f \in Adapter /\ f.state = "IDLE" /\ Carried(f, g)
  <1>1. f = [g EXCEPT !.state = "IDLE", !.blocked = TRUE]
    BY DEF Block
  <1>2. QED  BY <1>1, IdleAdapter

LEMMA StopHttpAdapter ==
    ASSUME NEW g \in Adapter, g.state \in Http, NEW f \in StopHttp(g)
    PROVE  f \in Adapter /\ f.state \in Http \cup {"IDLE"} /\ Carried(f, g)
  <1>1. CASE f \in Submitted(g, "STOP")
    <2>1. "STOP" \in Http
      BY DEF Http
    <2>2. QED  BY <1>1, <2>1, SubmittedAdapter
  <1>2. CASE f \in Finish(g, TRUE) \/ f \in Finish(g, FALSE)
    BY <1>2, FinishAdapter
  <1>3. QED  BY <1>1, <1>2 DEF StopHttp

LEMMA IssueAdapter ==
    ASSUME NEW g \in Adapter, NEW s \in Http, NEW f \in Issue(g, s)
    PROVE  f \in Adapter /\ f.state \in Http \cup {"IDLE"} /\ Carried(f, g)
  <1> DEFINE g2 == [g EXCEPT !.state = s]
  <1>1. g2 \in Adapter /\ g2.state \in Http /\ Alike(g2, g)
    BY DEF Adapter, Alike
  <1>2. CASE f \in Submitted(g, s)
    BY <1>2, SubmittedAdapter
  <1>3. CASE f \in StopHttp(g2)
    BY <1>1, <1>3, StopHttpAdapter DEF Alike, Carried
  <1>4. QED  BY <1>2, <1>3 DEF Issue

LEMMA SucceededAdapter ==
    ASSUME NEW g \in Adapter, NEW sent \in BOOLEAN, g.state \in Http \ {"STOP"},
           NEW f \in Succeeded(g, sent)
    PROVE  f \in Adapter /\ f.state \in Http \cup {"IDLE"} /\ Carried(f, g)
  <1> DEFINE Good(x) == x \in Adapter /\ x.state \in Http \cup {"IDLE"} /\ Carried(x, g)
  <1> USE EnrollmentAssumption
  <1>1. CASE g.state \in {"PDP_QUERY", "PDP_ACTIVATE"} /\ ~Activated(g)
    <2>1. f \in Issue(g, "PDP_ACTIVATE")
      BY <1>1 DEF Succeeded
    <2>2. "PDP_ACTIVATE" \in Http
      BY DEF Http, Setup
    <2>3. QED  BY <2>1, <2>2, IssueAdapter
  <1>2. CASE g.state \in {"PDP_QUERY", "PDP_ACTIVATE"} /\ Activated(g)
    <2> DEFINE g2 == [g EXCEPT !.settings = 1]
    <2>1. g2 \in Adapter /\ Alike(g2, g)
      BY DEF Adapter, Alike
    <2>2. f \in Issue(g2, "SETTING")
      BY <1>2 DEF Succeeded
    <2> HIDE DEF g2
    <2>3. "SETTING" \in Http
      BY DEF Http, Setup
    <2>4. QED  BY <2>1, <2>2, <2>3, IssueAdapter DEF Alike, Carried
  <1>3. CASE g.state = "SETTING" /\ g.settings < Settings
    <2> DEFINE g2 == [g EXCEPT !.settings = @ + 1]
    <2>1. g2 \in Adapter /\ Alike(g2, g)
      BY <1>3 DEF Adapter, Alike
    <2>2. f \in Issue(g2, "SETTING")
      BY <1>3 DEF Succeeded
    <2> HIDE DEF g2
    <2>3. "SETTING" \in Http
      BY DEF Http, Setup
    <2>4. QED  BY <2>1, <2>2, <2>3, IssueAdapter DEF Alike, Carried
  <1>4. CASE g.state = "SETTING" /\ ~(g.settings < Settings)
    <2>1. f \in Issue(g, "URL")
      BY <1>4 DEF Succeeded
    <2>2. QED  BY <2>1, IssueAdapter DEF Http
  <1>5. CASE g.state = "URL"
    <2>1. f \in Issue(g, "POST")
      BY <1>5 DEF Succeeded
    <2>2. QED  BY <2>1, IssueAdapter DEF Http
  <1>6. CASE g.state = "POST"
    <2>1. f \in Issue(g, "READ") \/ f \in StopHttp(g)
      BY <1>6 DEF Succeeded
    <2>2. QED  BY <2>1, IssueAdapter, StopHttpAdapter DEF Http
  <1>7. CASE g.state = "READ"
    <2> DEFINE o == g.overflow \/ g.body \in {"none", "part"}
               g2 == [g EXCEPT !.overflow = o]
    <2>1. o \in BOOLEAN
      OBVIOUS
    <2>2. f \in Finish(g2, TRUE)
      BY <1>7 DEF Succeeded
    <2> HIDE DEF o
    <2>3. g2 \in Adapter /\ Alike(g2, g)
      BY <2>1 DEF Adapter, Alike
    <2>4. QED  BY <2>2, <2>3, FinishAdapter DEF Alike, Carried
  <1>8. QED  BY <1>1, <1>2, <1>3, <1>4, <1>5, <1>6, <1>7 DEF Http, Setup

LEMMA CaDoneAdapter ==
    ASSUME NEW g \in Adapter, NEW ok \in BOOLEAN, g.state \in Ca, NEW f \in CaDone(g, ok)
    PROVE  f \in Adapter /\ f.state \in Ca \cup {"IDLE"} /\ Carried(f, g)
  <1> DEFINE Good(x) == x \in Adapter /\ x.state \in Ca \cup {"IDLE"} /\ Carried(x, g)
  <1>1. ASSUME NEW x \in Adapter, Alike(x, g), NEW s \in Ca, NEW y \in CaSubmit(x, s)
        PROVE  Good(y)
    <2>1. CASE y \in Submitted(x, s)
      BY <1>1, <2>1, SubmittedAdapter DEF Alike, Carried, Ca
    <2>2. CASE y \in Block(x)
      BY <1>1, <2>2, BlockAdapter DEF Alike, Carried
    <2>3. QED  BY <1>1, <2>1, <2>2 DEF CaSubmit
  <1>2. ASSUME NEW x \in Adapter, Alike(x, g), NEW y \in Block(x)
        PROVE  Good(y)
    BY <1>2, BlockAdapter DEF Alike, Carried
  <1>3. CASE ~ok /\ g.state \notin {"CA_LIST", "CA_DELETE"}
    <2>1. f \in Block(g)
      BY <1>3 DEF CaDone
    <2>2. QED  BY <1>2, <2>1 DEF Alike
  <1>4. CASE g.state = "CA_LIST"
    <2>1. f \in CaSubmit(g, "CA_OPEN") \/ f \in Block(g) \/ f \in CaSubmit(g, "CA_DELETE")
      BY <1>4 DEF CaDone
    <2>2. QED  BY <1>1, <1>2, <2>1 DEF Ca, Alike
  <1>5. CASE ok /\ g.state = "CA_OPEN"
    <2> DEFINE g2 == [g EXCEPT !.offset = 0, !.match = TRUE]
    <2>1. g2 \in Adapter /\ Alike(g2, g)
      <3> DEFINE g1 == [g EXCEPT !.offset = 0]
      <3>1. 0 \in 0..Chunks
        BY EnrollmentAssumption
      <3>2. g1 \in Adapter /\ Alike(g1, g)
        BY <3>1 DEF Adapter, Alike
      <3>3. g2 = [g1 EXCEPT !.match = TRUE]
        OBVIOUS
      <3> HIDE DEF g1, g2
      <3>4. QED  BY <3>2, <3>3 DEF Adapter, Alike
    <2>2. f \in CaSubmit(g2, "CA_READ") \/ f \in Block(g)
      BY <1>5 DEF CaDone
    <2>3. QED  BY <1>1, <1>2, <2>1, <2>2 DEF Ca, Alike
  <1>6. CASE ok /\ g.state = "CA_READ"
    <2>1. f \in CaSubmit(g, "CA_READ") \/ f \in CaSubmit(g, "CA_CLOSE")
      BY <1>6 DEF CaDone
    <2>2. QED  BY <1>1, <2>1 DEF Ca, Alike
  <1>7. CASE ok /\ g.state = "CA_CLOSE"
    <2> DEFINE g2 == [g EXCEPT !.handle = FALSE]
    <2>1. g2 \in Adapter /\ Alike(g2, g)
      BY DEF Adapter, Alike
    <2>2. \/ f = [g2 EXCEPT !.state = "IDLE", !.verified = TRUE]
          \/ f \in Block(g2) \/ f \in CaSubmit(g2, "CA_DELETE")
      BY <1>7 DEF CaDone
    <2>3. CASE f = [g2 EXCEPT !.state = "IDLE", !.verified = TRUE]
      <3> DEFINE g3 == [g2 EXCEPT !.state = "IDLE"]
      <3> HIDE DEF g2
      <3>1. g3 \in Adapter /\ g3.state = "IDLE" /\ Alike(g3, g2)
        BY <2>1 DEF Adapter, Alike
      <3>2. f = [g3 EXCEPT !.verified = TRUE]
        BY <2>3
      <3> HIDE DEF g3
      <3>3. f \in Adapter /\ f.state = "IDLE" /\ Alike(f, g3)
        BY <3>1, <3>2 DEF Adapter, Alike
      <3>4. QED  BY <2>1, <3>1, <3>3 DEF Alike, Carried
    <2>4. QED  BY <1>1, <1>2, <2>1, <2>2, <2>3 DEF Ca
  <1>8. CASE g.state = "CA_DELETE"
    BY <1>1, <1>8 DEF CaDone, Ca, Alike
  <1>9. CASE ok /\ g.state = "CA_UPLOAD"
    <2> DEFINE yes == TRUE
               no == FALSE
               g1 == [g EXCEPT !.uploaded = yes]
               g2 == [g1 EXCEPT !.match = no]
    <2>1. g2 \in Adapter /\ Alike(g2, g)
      <3>a. yes \in BOOLEAN /\ no \in BOOLEAN
        OBVIOUS
      <3> HIDE DEF yes, no
      <3>1. g1 \in Adapter /\ Alike(g1, g)
        BY <3>a DEF Adapter, Alike
      <3> HIDE DEF g1
      <3>2. QED  BY <3>a, <3>1 DEF Adapter, Alike
    <2>2. f \in CaSubmit(g2, "CA_LIST")
      BY <1>9 DEF CaDone
    <2>3. QED  BY <1>1, <2>1, <2>2 DEF Ca
  <1>10. QED  BY <1>3, <1>4, <1>5, <1>6, <1>7, <1>8, <1>9 DEF Ca

(* An answered command keeps the type and the status, and a request and a  *)
(* check of the CA never turn into each other.                             *)
LEMMA CommandDoneAdapter ==
    ASSUME NEW g \in Adapter, NEW ok \in BOOLEAN, NEW f \in CommandDone(g, ok)
    PROVE  /\ f \in Adapter /\ f.status = g.status /\ AtRest(f)
           /\ f.state \in Http => g.state \in Http
           /\ g.state \in Http => f.state \in Http \cup {"IDLE"}
  <1> DEFINE g2 == [g EXCEPT !.link = "none"]
  <1>1. g2 \in Adapter /\ g2.status = g.status /\ g2.link = "none" /\ g2.state = g.state
    BY DEF Adapter
  <1>2. CASE g.state = "IDLE"
    BY <1>1, <1>2 DEF CommandDone, Http, Setup, AtRest
  <1>3. CASE g.state \in Ca
    <2>1. f \in CaDone(g2, ok)
      BY <1>1, <1>3 DEF CommandDone, Ca
    <2> HIDE DEF g2
    <2>2. f \in Adapter /\ f.state \in Ca \cup {"IDLE"} /\ Carried(f, g2)
      BY <1>1, <1>3, <2>1, CaDoneAdapter
    <2>3. QED  BY <1>1, <1>3, <2>2, NeverIdle DEF Carried, AtRest
  <1>4. CASE g.state = "STOP"
    <2>1. f \in Finish(g2, ok)
      BY <1>1, <1>4 DEF CommandDone, Ca
    <2> HIDE DEF g2
    <2>2. f \in Adapter /\ f.state = "IDLE" /\ Carried(f, g2)
      BY <1>1, <2>1, FinishAdapter
    <2>3. QED  BY <1>1, <1>4, <2>2, NeverIdle DEF Carried, AtRest
  <1>5. CASE g.state \in Http \ {"STOP"}
    <2>1. f \in StopHttp(g2) \/ f \in Succeeded(g2, g.link = "given")
      BY <1>1, <1>5 DEF CommandDone, Http, Setup, Ca
    <2> HIDE DEF g2
    <2>2. f \in Adapter /\ f.state \in Http \cup {"IDLE"} /\ Carried(f, g2)
      BY <1>1, <1>5, <2>1, StopHttpAdapter, SucceededAdapter
    <2>3. QED  BY <1>1, <1>5, <2>2, NeverIdle DEF Carried, AtRest
  <1>6. g.state \in Http \cup Ca \cup {"IDLE"}
    BY DEF Adapter
  <1>7. QED  BY <1>2, <1>3, <1>4, <1>5, <1>6

LEMMA ClearedAdapter ==
    ASSUME NEW g \in Adapter
    PROVE  /\ Cleared(g) \in Adapter /\ Cleared(g).status = "none"
           /\ Cleared(g).state = g.state /\ Cleared(g).link = g.link
  <1>1. 0 \in 0..Chunks /\ 0 \in 0..Settings
    BY EnrollmentAssumption
  <1> DEFINE no == FALSE
             a == [g EXCEPT !.settings = 0]
             b == [a EXCEPT !.status = "none"]
             c == [b EXCEPT !.fits = no]
             d == [c EXCEPT !.body = "none"]
             i == [d EXCEPT !.overflow = no]
             j == [i EXCEPT !.cancelling = no]
             k == [j EXCEPT !.pdp_active = no]
             l == [k EXCEPT !.match = no]
             m == [l EXCEPT !.uploaded = no]
             n == [m EXCEPT !.handle = no]
             q == [n EXCEPT !.offset = 0]
             Kept(x) == x \in Adapter /\ x.state = g.state /\ x.link = g.link
  <1>2. q = Cleared(g)
    BY DEF Cleared
  <1>a. no \in BOOLEAN
    OBVIOUS
  <1> HIDE DEF no
  <1>3. Kept(a)
    BY <1>1 DEF Adapter
  <1> HIDE DEF a
  <1>4. Kept(b) /\ b.status = "none"
    BY <1>3 DEF Adapter
  <1> HIDE DEF b
  <1>5. Kept(c) /\ c.status = "none"
    BY <1>a, <1>4 DEF Adapter
  <1> HIDE DEF c
  <1>6. Kept(d) /\ d.status = "none"
    BY <1>a, <1>5 DEF Adapter
  <1> HIDE DEF d
  <1>7. Kept(i) /\ i.status = "none"
    BY <1>a, <1>6 DEF Adapter
  <1> HIDE DEF i
  <1>8. Kept(j) /\ j.status = "none"
    BY <1>a, <1>7 DEF Adapter
  <1> HIDE DEF j
  <1>9. Kept(k) /\ k.status = "none"
    BY <1>a, <1>8 DEF Adapter
  <1> HIDE DEF k
  <1>10. Kept(l) /\ l.status = "none"
    BY <1>a, <1>9 DEF Adapter
  <1> HIDE DEF l
  <1>11. Kept(m) /\ m.status = "none"
    BY <1>a, <1>10 DEF Adapter
  <1> HIDE DEF m
  <1>12. Kept(n) /\ n.status = "none"
    BY <1>a, <1>11 DEF Adapter
  <1> HIDE DEF n
  <1>13. Kept(q) /\ q.status = "none"
    BY <1>1, <1>12 DEF Adapter
  <1>14. QED  BY <1>2, <1>13

-----------------------------------------------------------------------------
(* The end of a request, as the core takes it.                             *)
LEMMA OnHttpCore ==
    ASSUME IInv, NEW g \in Adapter, Honest(g.status, e.have_request),
           e.state = "HTTP" \/ e.state = "CANCELLING", NEW x \in OnHttp(g)
    PROVE  /\ x \in Core /\ Sane(x) /\ Allowed(e, x) /\ Opened(x)
           /\ x.state \in {"WAITING", "TRIAL"}
  <1> USE DEF IInv, TypeOK, Core, Sane, Opened
  <1>1. CASE e.state = "CANCELLING"
    <2>1. x = [state |-> "WAITING", have_request |-> FALSE, waiting_trial |-> e.waiting_trial,
               cancelled |-> e.cancelled, credential |-> FALSE]
      BY <1>1 DEF OnHttp, Waiting, Forgotten, Wiped
    <2>2. QED  BY <1>1, <2>1 DEF Allowed, AnswerAllows, OtherwiseAllowed, Asking, Phase
  <1>2. CASE e.state = "HTTP" /\ x = Waiting(e)
    BY <1>2 DEF Waiting, Allowed, AnswerAllows, Asking, Phase
  <1>3. CASE e.state = "HTTP" /\ e.have_request /\ g.status = "gone" /\ x = Waiting(Forgotten(e))
    BY <1>3 DEF Waiting, Forgotten, Allowed, AnswerAllows, Asking, Phase, Honest
  <1>4. CASE /\ e.state = "HTTP" /\ ~e.have_request /\ g.status = "created"
             /\ x = Waiting([e EXCEPT !.have_request = TRUE])
    BY <1>4 DEF Waiting, Allowed, AnswerAllows, Asking, Phase, Honest
  <1>5. CASE /\ e.state = "HTTP" /\ e.have_request /\ g.status = "approved"
             /\ x = [e EXCEPT !.state = "TRIAL", !.waiting_trial = TRUE, !.credential = TRUE]
    BY <1>5 DEF Allowed, AnswerAllows, OtherwiseAllowed, Asking, Phase, Honest
  <1>6. QED
    BY <1>1, <1>2, <1>3, <1>4, <1>5 DEF OnHttp

-----------------------------------------------------------------------------
(* How a step may move the request: the core as Allowed, or the server.    *)
ServerStep == \/ UNCHANGED server
              \/ server \in Request!Settled /\ server' = "open" /\ ~e.have_request
              \/ server = "open" /\ server' \in {"approved", "declined"}
              \/ server = "approved" /\ server' = "closed"
Progress == \/ UNCHANGED server /\ Allowed(e, e')
            \/ UNCHANGED e /\ ServerStep

CoreKept == /\ e' \in Core /\ h' \in Adapter
            /\ Sane(e') /\ InStep(e', h') /\ AtRest(h') /\ Opened(e')
            /\ Honest(h'.status, e'.have_request)
            /\ Allowed(e, e')

(* A held request was held before, or the status went away with it.        *)
LEMMA HonestWeaker ==
    ASSUME NEW status, NEW held, Honest(status, TRUE)
    PROVE  Honest(status, held)
  BY DEF Honest

LEMMA MovesKeeps ==
    ASSUME IInv, NEW g \in Adapter, Honest(g.status, e.have_request), AtRest(g),
           g.state \in Http => h.state \in Http,
           h.state \in Http => g.state \in Http \cup {"IDLE"},
           Moves(g)
    PROVE  CoreKept /\ trial' \in {"idle", "running", "saved", "failed"}
  <1> USE DEF IInv, TypeOK
  <1>1. h' \in Adapter /\ h'.state = g.state /\ AtRest(h')
    BY ClearedAdapter DEF Moves, AtRest
  <1>2. trial' \in {"idle", "running", "saved", "failed"}
    BY DEF Moves
  <1>3. CASE h.state \in Http /\ g.state = "IDLE"
    <2>1. e' \in OnHttp(g) /\ h' = Cleared(g)
      BY <1>3 DEF Moves
    <2>2. e.state = "HTTP" \/ e.state = "CANCELLING"
      BY <1>3 DEF InStep
    <2>3. e' \in Core /\ Sane(e') /\ Allowed(e, e') /\ Opened(e') /\ e'.state \in {"WAITING", "TRIAL"}
      BY <2>1, <2>2, OnHttpCore
    <2>4. h'.status = "none"
      BY <2>1, ClearedAdapter
    <2>5. Honest(h'.status, e'.have_request)
      BY <2>4 DEF Honest
    <2>6. InStep(e', h')
      BY <1>1, <1>3, <2>3 DEF InStep, Http, Setup
    <2>7. QED  BY <1>1, <1>2, <2>3, <2>5, <2>6 DEF CoreKept
  <1>4. CASE ~(h.state \in Http /\ g.state = "IDLE")
    <2>1. e' = e
      BY <1>4 DEF Moves
    <2>2. h'.status \in {g.status, "none"}
      BY ClearedAdapter DEF Moves
    <2>3. Honest(h'.status, e'.have_request)
      BY <2>1, <2>2 DEF Honest
    <2>4. InStep(e', h')
      BY <1>1, <1>4, <2>1 DEF InStep
    <2>5. QED  BY <1>1, <1>2, <2>1, <2>3, <2>4, StandingStillIsAllowed DEF CoreKept
  <1>5. QED  BY <1>3, <1>4

LEMMA DoneMovesKeeps ==
    ASSUME IInv, NEW g0 \in Adapter, g0.state = h.state, Honest(g0.status, e.have_request),
           NEW ok \in BOOLEAN, NEW g \in CommandDone(g0, ok), Moves(g)
    PROVE  CoreKept /\ trial' \in {"idle", "running", "saved", "failed"}
  <1>1. /\ g \in Adapter /\ g.status = g0.status /\ AtRest(g)
        /\ g.state \in Http => h.state \in Http
        /\ h.state \in Http => g.state \in Http \cup {"IDLE"}
    BY CommandDoneAdapter
  <1>2. QED  BY <1>1, MovesKeeps

LEMMA EndsKeeps ==
    ASSUME IInv, NEW ok \in BOOLEAN, Ends(ok)
    PROVE  CoreKept /\ trial' \in {"idle", "running", "saved", "failed"} /\ gate' \in BOOLEAN
  <1>1. PICK g \in CommandDone(h, ok) : Moves(g)
    BY DEF Ends
  <1>2. h \in Adapter /\ Honest(h.status, e.have_request)
    BY DEF IInv, TypeOK
  <1>3. gate' \in BOOLEAN
    BY DEF Ends, IInv, TypeOK
  <1>4. QED  BY <1>1, <1>2, <1>3, DoneMovesKeeps

(* What the modem and the server do beside.                                *)
Entry == [cmd : Http \cup Ca, stage : {"asked", "given", "refused", "over", "ok", "error"}]
Session == [stage : {"closed", "posting", "posted", "reading"}, answer : Answer \cup {"none"}]
RestOK == /\ gate \in BOOLEAN
          /\ trial \in {"idle", "running", "saved", "failed"}
          /\ wire \in Seq(Entry) /\ Len(wire) <= Backlog
          /\ session \in Session
          /\ file \in SUBSET AllChunks
          /\ server \in {"none", "open", "approved", "declined", "closed"}
          /\ Honest(session.answer, TRUE)

LEMMA RestOfIInv == IInv <=> /\ RestOK /\ e \in Core /\ h \in Adapter /\ Sane(e)
                             /\ InStep(e, h) /\ AtRest(h) /\ Opened(e)
                             /\ Honest(h.status, e.have_request)
  BY DEF IInv, TypeOK, RestOK, Entry, Session

(* The two halves make the invariant, the server standing still.           *)
LEMMA Together ==
    ASSUME IInv, CoreKept, RestOK', UNCHANGED server
    PROVE  IInv' /\ Progress
  <1>1. Honest(h.status, e.have_request)' /\ Opened(e)'
    BY DEF CoreKept, Honest, Opened
  <1>2. IInv'
    BY <1>1, RestOfIInv DEF CoreKept, RestOK, IInv, TypeOK, Sane, InStep, AtRest, Entry, Session
  <1>3. QED  BY <1>2 DEF CoreKept, Progress

LEMMA RestKept ==
    ASSUME IInv, gate' \in BOOLEAN, trial' \in {"idle", "running", "saved", "failed"},
           wire' \in Seq(Entry), Len(wire') <= Backlog, UNCHANGED modem
    PROVE  RestOK' /\ UNCHANGED server
  BY RestOfIInv DEF RestOK, modem, Honest

LEMMA StagedEntry ==
    ASSUME NEW x \in Entry, NEW s \in {"asked", "given", "refused", "over", "ok", "error"}
    PROVE  [x EXCEPT !.stage = s] \in Entry
  BY DEF Entry

(* The wire after marking some of its entries.                             *)
LEMMA Marked ==
    ASSUME IInv,
           NEW w, w = Escaped \/ w = Expired \/ w = wire
    PROVE  w \in Seq(Entry) /\ Len(w) <= Backlog
  <1>1. wire \in Seq(Entry) /\ Len(wire) <= Backlog
    BY RestOfIInv DEF RestOK
  <1>2. CASE w = Escaped
    <2>1. /\ DOMAIN w = 1..Len(wire)
          /\ \A i \in 1..Len(wire) : w[i] = wire[i] \/ w[i] = [wire[i] EXCEPT !.stage = "refused"]
      BY <1>1, <1>2 DEF Escaped
    <2>2. \A i \in 1..Len(wire) : wire[i] \in Entry
      BY <1>1
    <2>3. ASSUME NEW i \in 1..Len(wire) PROVE w[i] \in Entry
      <3> DEFINE x == wire[i]
      <3>1. x \in Entry
        BY <2>2
      <3>2. w[i] = x \/ w[i] = [x EXCEPT !.stage = "refused"]
        BY <2>1
      <3> HIDE DEF x
      <3>3. QED  BY <3>1, <3>2, StagedEntry
    <2>4. QED  BY <1>1, <1>2, <2>1, <2>3 DEF Escaped
  <1>3. CASE w = Expired
    <2>1. /\ DOMAIN w = 1..Len(wire)
          /\ \A i \in 1..Len(wire) : w[i] = wire[i] \/ w[i] = [wire[i] EXCEPT !.stage = "over"]
      BY <1>1, <1>3 DEF Expired
    <2>2. \A i \in 1..Len(wire) : wire[i] \in Entry
      BY <1>1
    <2>3. ASSUME NEW i \in 1..Len(wire) PROVE w[i] \in Entry
      <3> DEFINE x == wire[i]
      <3>1. x \in Entry
        BY <2>2
      <3>2. w[i] = x \/ w[i] = [x EXCEPT !.stage = "over"]
        BY <2>1
      <3> HIDE DEF x
      <3>3. QED  BY <3>1, <3>2, StagedEntry
    <2>4. QED  BY <1>1, <1>3, <2>1, <2>3 DEF Expired
  <1>4. QED  BY <1>1, <1>2, <1>3

LEMMA StagedWire ==
    ASSUME IInv, wire # <<>>, NEW s \in {"asked", "given", "refused", "over", "ok", "error"},
           Staged(s)
    PROVE  wire' \in Seq(Entry) /\ Len(wire') <= Backlog
  <1>1. wire \in Seq(Entry) /\ Len(wire) <= Backlog
    BY RestOfIInv DEF RestOK
  <1>2. 1 \in DOMAIN wire
    BY <1>1
  <1> DEFINE x == [wire[1] EXCEPT !.stage = s]
  <1>3. x \in Entry
    <2>1. wire[1] \in Entry
      BY <1>1, <1>2
    <2>2. QED  BY <2>1, StagedEntry
  <1>4. wire' = [wire EXCEPT ![1] = x]
    BY DEF Staged
  <1> HIDE DEF x
  <1>5. QED  BY <1>1, <1>2, <1>3, <1>4

LEMMA TailWire ==
    ASSUME IInv, wire # <<>>, wire' = Tail(wire)
    PROVE  wire' \in Seq(Entry) /\ Len(wire') <= Backlog
  <1>1. wire \in Seq(Entry) /\ Len(wire) <= Backlog /\ Len(wire) \in Nat
    BY RestOfIInv DEF RestOK
  <1>2. Len(wire') <= Len(wire)
    BY <1>1
  <1>3. Backlog \in Nat
    BY EnrollmentAssumption
  <1>4. QED  BY <1>1, <1>2, <1>3

-----------------------------------------------------------------------------
(* Every action keeps the invariant and moves the request as promised.     *)
Trials == {"idle", "running", "saved", "failed"}

LEMMA PrepareCaKeeps == IInv /\ PrepareCa => IInv' /\ Progress
  <1> SUFFICES ASSUME IInv, PrepareCa PROVE IInv' /\ Progress
    OBVIOUS
  <1>1. PICK g \in CaSubmit(h, "CA_LIST") : Moves(g)
    BY DEF PrepareCa
  <1>2. h \in Adapter /\ h.state = "IDLE" /\ AtRest(h) /\ Opened(e) /\ Honest(h.status, e.have_request)
    BY RestOfIInv DEF PrepareCa, Restful
  <1>3. g \in Adapter /\ g.status = h.status /\ g.state \in {"CA_LIST", "IDLE"} /\ AtRest(g)
    BY <1>1, <1>2, SubmittedAdapter, BlockAdapter DEF CaSubmit, Ca, Carried, AtRest
  <1>4. CoreKept /\ trial' \in Trials
    BY <1>1, <1>2, <1>3, MovesKeeps DEF Trials, Http, Setup
  <1>5. RestOK' /\ UNCHANGED server
    BY <1>4, RestKept, RestOfIInv DEF PrepareCa, Trials, RestOK
  <1>6. QED  BY <1>4, <1>5, Together

LEMMA PostKeeps == IInv /\ Post => IInv' /\ Progress
  <1> SUFFICES ASSUME IInv, Post PROVE IInv' /\ Progress
    OBVIOUS
  <1>1. e \in Core /\ h \in Adapter /\ Sane(e) /\ Opened(e) /\ Honest(h.status, e.have_request)
    BY RestOfIInv
  <1>2. h' \in Adapter /\ h'.state = "PDP_QUERY" /\ h'.status = h.status
    BY <1>1, SubmittedAdapter DEF Post, Http, Setup, Carried
  <1>3. e' \in Core /\ e'.state = "HTTP" /\ e'.have_request = e.have_request /\ Sane(e')
    BY <1>1 DEF Post, Core, Sane
  <1>4. Allowed(e, e')
    BY <1>1 DEF Post, Allowed, Asking, Phase, Core
  <1>5. InStep(e', h')
    BY <1>2, <1>3 DEF InStep, Http, Setup
  <1>6. CoreKept
    BY <1>1, <1>2, <1>3, <1>4, <1>5 DEF CoreKept, AtRest, Opened
  <1>7. RestOK' /\ UNCHANGED server
    BY RestKept, RestOfIInv DEF Post, RestOK
  <1>8. QED  BY <1>6, <1>7, Together

LEMMA PollTrialKeeps == IInv /\ PollTrial => IInv' /\ Progress
  <1> SUFFICES ASSUME IInv, PollTrial PROVE IInv' /\ Progress
    OBVIOUS
  <1>1. e \in Core /\ h \in Adapter /\ Sane(e) /\ InStep(e, h) /\ AtRest(h) /\ Opened(e) /\ Honest(h.status, e.have_request)
    BY RestOfIInv
  <1>2. e.state = "TRIAL" /\ ~e.cancelled /\ e.have_request /\ h.state \notin Http
    BY <1>1 DEF PollTrial, Sane, InStep
  <1>3. \/ e' = Waiting(Wiped([e EXCEPT !.waiting_trial = FALSE]))
        \/ e' = [Forgotten(Wiped([e EXCEPT !.waiting_trial = FALSE])) EXCEPT !.state = "COMPLETE"]
    BY <1>2 DEF PollTrial, TrialResult
  <1>4. /\ e' \in Core /\ Sane(e') /\ Allowed(e, e') /\ e'.state \in {"WAITING", "COMPLETE"}
        /\ e'.have_request => e.have_request
    BY <1>1, <1>2, <1>3 DEF Waiting, Wiped, Forgotten, Core, Sane, Allowed, OtherwiseAllowed,
                                  Asking, Phase
  <1>5. InStep(e', h') /\ h' = h
    BY <1>2, <1>4 DEF PollTrial, InStep
  <1>6. CoreKept
    BY <1>1, <1>2, <1>4, <1>5 DEF CoreKept, Honest, AtRest, Opened
  <1>7. RestOK' /\ UNCHANGED server
    BY RestKept, RestOfIInv DEF PollTrial, RestOK
  <1>8. QED  BY <1>6, <1>7, Together

LEMMA CancelKeeps == IInv /\ Cancel => IInv' /\ Progress
  <1> SUFFICES ASSUME IInv, Cancel PROVE IInv' /\ Progress
    OBVIOUS
  <1>1. e \in Core /\ h \in Adapter /\ Sane(e) /\ InStep(e, h) /\ AtRest(h) /\ Opened(e) /\ Honest(h.status, e.have_request)
    BY RestOfIInv
  <1>2. h' \in Adapter /\ h'.state = h.state /\ Alike(h', h)
    BY <1>1 DEF Cancel, Adapter, Alike
  <1>3. \/ /\ e.state \in {"HTTP", "TRIAL"}
           /\ e' = [e EXCEPT !.cancelled = TRUE, !.state = "CANCELLING"]
        \/ /\ e.state \in {"WAITING", "CANCELLING"}
           /\ e' = Wiped(Forgotten([e EXCEPT !.cancelled = TRUE]))
    BY <1>1 DEF Cancel, Core
  <1>4. /\ e' \in Core /\ Sane(e') /\ Allowed(e, e')
        /\ e'.have_request => e.have_request
        /\ InStep(e', h)
    BY <1>1, <1>3 DEF Wiped, Forgotten, Core, Sane, Allowed, OtherwiseAllowed, Asking,
                           Phase, InStep
  <1>5. CoreKept
    BY <1>1, <1>2, <1>4 DEF CoreKept, Honest, InStep, Alike, AtRest, Opened
  <1>6. RestOK' /\ UNCHANGED server
    BY RestKept, RestOfIInv DEF Cancel, RestOK
  <1>7. QED  BY <1>5, <1>6, Together

LEMMA StillKept ==
    ASSUME IInv, UNCHANGED e, h' \in Adapter, h'.state = h.state, Alike(h', h)
    PROVE  CoreKept
  BY RestOfIInv, StandingStillIsAllowed DEF CoreKept, InStep, Alike, AtRest

LEMMA TrialEndsKeeps == IInv /\ TrialEnds => IInv' /\ Progress
  <1> SUFFICES ASSUME IInv, TrialEnds PROVE IInv' /\ Progress
    OBVIOUS
  <1>1. CoreKept
    BY StillKept, RestOfIInv DEF TrialEnds, Alike
  <1>2. RestOK' /\ UNCHANGED server
    BY RestKept, RestOfIInv DEF TrialEnds, RestOK
  <1>3. QED  BY <1>1, <1>2, Together

(* The server decides only on a request that is open, and what it decided  *)
(* on is not reopened while the box still carries the answer.              *)
LEMMA ServerDecidesKeeps == IInv /\ ServerDecides => IInv' /\ Progress
  <1> SUFFICES ASSUME IInv, ServerDecides PROVE IInv' /\ Progress
    OBVIOUS
  <1>1. ASSUME NEW s, NEW held, Honest(s, held)
        PROVE  Honest(s, held)'
    BY <1>1 DEF Honest, ServerDecides
  <1>2. RestOK'
    BY <1>1, RestOfIInv DEF RestOK, ServerDecides, Honest
  <1>3. Honest(h.status, e.have_request)' /\ Opened(e)'
    BY RestOfIInv DEF Honest, Opened, ServerDecides
  <1>4. IInv'
    BY <1>2, <1>3, RestOfIInv
       DEF ServerDecides, RestOK, IInv, TypeOK, Sane, InStep, AtRest, Entry, Session
  <1>5. Progress
    BY DEF ServerDecides, Progress, ServerStep
  <1>6. QED  BY <1>4, <1>5

LEMMA StartCommandKeeps == IInv /\ StartCommand => IInv' /\ Progress
  <1> SUFFICES ASSUME IInv, StartCommand PROVE IInv' /\ Progress
    OBVIOUS
  <1>1. h \in Adapter /\ h.link = "queued" /\ AtRest(h) /\ wire \in Seq(Entry)
    BY RestOfIInv DEF StartCommand, RestOK
  <1>2. h.state \in Http \cup Ca
    BY <1>1 DEF AtRest, Adapter
  <1>3. CoreKept
    <2>1. /\ h' \in Adapter /\ h'.state = h.state /\ h'.status = h.status
      BY <1>1 DEF StartCommand, Adapter
    <2>2. QED  BY <1>2, <2>1, RestOfIInv, StandingStillIsAllowed
               DEF StartCommand, CoreKept, InStep, AtRest, Http, Setup, Ca
  <1>4. wire' \in Seq(Entry) /\ Len(wire') <= Backlog
    <2> DEFINE x == [cmd |-> h.state, stage |-> "asked"]
    <2>1. x \in Entry
      BY <1>2 DEF Entry
    <2>2. wire' = Append(wire, x) /\ Len(wire) < Backlog
      BY DEF StartCommand
    <2>3. Backlog \in Nat
      BY EnrollmentAssumption
    <2> HIDE DEF x
    <2>4. QED  BY <1>1, <2>1, <2>2, <2>3
  <1>5. RestOK' /\ UNCHANGED server
    BY <1>4, RestKept, RestOfIInv DEF StartCommand, RestOK
  <1>6. QED  BY <1>3, <1>5, Together

LEMMA TimeoutKeeps == IInv /\ Timeout => IInv' /\ Progress
  <1> SUFFICES ASSUME IInv, Timeout PROVE IInv' /\ Progress
    OBVIOUS
  <1>1. CoreKept /\ trial' \in Trials /\ gate' \in BOOLEAN
    BY EndsKeeps DEF Timeout, Trials
  <1>2. wire' \in Seq(Entry) /\ Len(wire') <= Backlog
    BY Marked DEF Timeout
  <1>3. RestOK' /\ UNCHANGED server
    BY <1>1, <1>2, RestKept DEF Timeout, Trials
  <1>4. QED  BY <1>1, <1>3, Together

LEMMA PromptsKeeps == IInv /\ Prompts => IInv' /\ Progress
  <1> SUFFICES ASSUME IInv, Prompts PROVE IInv' /\ Progress
    OBVIOUS
  <1>1. h \in Adapter /\ AtRest(h)
    BY RestOfIInv
  <1>2. CoreKept
    <2>1. /\ h' \in Adapter /\ h'.state = h.state /\ h'.status = h.status /\ AtRest(h')
      BY <1>1 DEF Prompts, Adapter, AtRest, PayloadCommand
    <2>2. QED  BY <2>1, RestOfIInv, StandingStillIsAllowed DEF Prompts, CoreKept, InStep
  <1>3. wire' \in Seq(Entry) /\ Len(wire') <= Backlog
    BY StagedWire DEF Prompts
  <1>4. RestOK' /\ UNCHANGED server
    BY <1>3, RestKept, RestOfIInv DEF Prompts, RestOK
  <1>5. QED  BY <1>2, <1>4, Together

LEMMA LostKeeps == IInv /\ Lost => IInv' /\ Progress
  <1> SUFFICES ASSUME IInv, Lost PROVE IInv' /\ Progress
    OBVIOUS
  <1>1. CoreKept
    BY StillKept, RestOfIInv DEF Lost, Alike
  <1>2. wire' \in Seq(Entry) /\ Len(wire') <= Backlog
    BY TailWire DEF Lost
  <1>3. RestOK' /\ UNCHANGED server
    BY <1>2, RestKept, RestOfIInv DEF Lost, RestOK
  <1>4. QED  BY <1>1, <1>3, Together

LEMMA ResultLineKeeps == IInv /\ ResultLine => IInv' /\ Progress
  <1> SUFFICES ASSUME IInv, ResultLine PROVE IInv' /\ Progress
    OBVIOUS
  <1>1. wire' \in Seq(Entry) /\ Len(wire') <= Backlog
    BY TailWire DEF ResultLine
  <1>2. CoreKept /\ trial' \in Trials /\ gate' \in BOOLEAN
    <2>1. CASE Taken(Head1.stage = "ok")
      <3>1. Ends(Head1.stage = "ok")
        BY <2>1 DEF ResultLine
      <3>2. QED  BY <3>1, EndsKeeps DEF Trials
    <2>2. CASE ~Taken(Head1.stage = "ok")
      BY <2>2, StillKept, RestOfIInv DEF ResultLine, Alike, RestOK, Trials
    <2>3. QED  BY <2>1, <2>2
  <1>3. RestOK' /\ UNCHANGED server
    BY <1>1, <1>2, RestKept DEF ResultLine, Trials
  <1>4. QED  BY <1>2, <1>3, Together

(* The session changes without an answer of the server.                    *)
LEMMA SessionMoves ==
    ASSUME IInv, gate' \in BOOLEAN, trial' \in Trials,
           wire' \in Seq(Entry), Len(wire') <= Backlog,
           session' \in Session, session'.answer \in {session.answer, "none"},
           file' \in SUBSET AllChunks, UNCHANGED server
    PROVE  RestOK'
  BY RestOfIInv DEF RestOK, Honest, Trials

LEMMA RefusesKeeps == IInv /\ Refuses => IInv' /\ Progress
  <1> SUFFICES ASSUME IInv, Refuses PROVE IInv' /\ Progress
    OBVIOUS
  <1>1. CoreKept
    BY StillKept, RestOfIInv DEF Refuses, Alike
  <1>2. wire' \in Seq(Entry) /\ Len(wire') <= Backlog
    BY StagedWire DEF Refuses
  <1>3. file' \in SUBSET AllChunks
    BY RestOfIInv DEF Refuses, RestOK
  <1>4. RestOK' /\ UNCHANGED server
    BY <1>2, <1>3, SessionMoves, RestOfIInv DEF Refuses, RestOK, Trials
  <1>5. QED  BY <1>1, <1>4, Together

LEMMA PostedKeeps == IInv /\ Posted => IInv' /\ Progress
  <1> SUFFICES ASSUME IInv, Posted PROVE IInv' /\ Progress
    OBVIOUS
  <1>1. PICK ok \in BOOLEAN, fits \in BOOLEAN :
          /\ session' = IF ok THEN [session EXCEPT !.stage = "posted"]
                        ELSE [stage |-> "closed", answer |-> "none"]
          /\ IF h.state = "POST" /\ OnWire
             THEN UrcEnds(IF ok THEN [h EXCEPT !.status = session.answer, !.fits = fits] ELSE h, ok)
             ELSE UNCHANGED <<e, h, gate, trial>>
    BY DEF Posted
  <1>2. h \in Adapter /\ session \in Session /\ Honest(session.answer, TRUE)
        /\ Honest(h.status, e.have_request)
    BY RestOfIInv DEF RestOK
  <1>3. CoreKept /\ trial' \in Trials /\ gate' \in BOOLEAN
    <2> DEFINE g0 == IF ok THEN [h EXCEPT !.status = session.answer, !.fits = fits] ELSE h
    <2>1. g0 \in Adapter /\ g0.state = h.state
      <3>1. session.answer \in Answer \cup {"none"}
        BY <1>2 DEF Session
      <3>2. [h EXCEPT !.status = session.answer, !.fits = fits] \in Adapter
        BY <1>2, <3>1 DEF Adapter
      <3>3. QED  BY <1>2, <3>2 DEF Adapter
    <2>2. Honest(g0.status, e.have_request)
      BY <1>2, HonestWeaker DEF Adapter
    <2>3. CASE h.state = "POST" /\ OnWire
      <3>1. UNCHANGED gate /\ \E f \in CommandDone(g0, ok) : Moves(f)
        BY <1>1, <2>3 DEF UrcEnds
      <3> HIDE DEF g0
      <3>2. QED  BY <2>1, <2>2, <3>1, DoneMovesKeeps, RestOfIInv DEF Trials, RestOK
    <2>4. CASE ~(h.state = "POST" /\ OnWire)
      BY <1>1, <2>4, StillKept, RestOfIInv DEF Alike, RestOK, Trials
    <2>5. QED  BY <2>3, <2>4
  <1>4. session' \in Session /\ session'.answer \in {session.answer, "none"}
    BY <1>1, <1>2 DEF Session
  <1>5. RestOK' /\ UNCHANGED server
    BY <1>3, <1>4, SessionMoves, RestOfIInv DEF Posted, RestOK
  <1>6. QED  BY <1>3, <1>5, Together

LEMMA ReadDoneKeeps == IInv /\ ReadDone => IInv' /\ Progress
  <1> SUFFICES ASSUME IInv, ReadDone PROVE IInv' /\ Progress
    OBVIOUS
  <1>1. PICK ok \in BOOLEAN :
          /\ session' = IF ok THEN [stage |-> "closed", answer |-> "none"]
                        ELSE [session EXCEPT !.stage = "posted"]
          /\ IF h.state = "READ" /\ OnWire THEN UrcEnds(h, ok)
             ELSE UNCHANGED <<e, h, gate, trial>>
    BY DEF ReadDone
  <1>2. h \in Adapter /\ session \in Session /\ Honest(h.status, e.have_request)
    BY RestOfIInv DEF RestOK
  <1>3. CoreKept /\ trial' \in Trials /\ gate' \in BOOLEAN
    <2>1. CASE h.state = "READ" /\ OnWire
      <3>1. UNCHANGED gate /\ \E f \in CommandDone(h, ok) : Moves(f)
        BY <1>1, <2>1 DEF UrcEnds
      <3>2. QED  BY <1>2, <3>1, DoneMovesKeeps, RestOfIInv DEF Trials, RestOK
    <2>2. CASE ~(h.state = "READ" /\ OnWire)
      BY <1>1, <2>2, StillKept, RestOfIInv DEF Alike, RestOK, Trials
    <2>3. QED  BY <2>1, <2>2
  <1>4. session' \in Session /\ session'.answer \in {session.answer, "none"}
    BY <1>1, <1>2 DEF Session
  <1>5. RestOK' /\ UNCHANGED server
    BY <1>3, <1>4, SessionMoves, RestOfIInv DEF ReadDone, RestOK
  <1>6. QED  BY <1>3, <1>5, Together

(* The server answers: what it says is true of it, and an application,     *)
(* which is made while no request is held, leaves nothing to go stale.     *)
LEMMA AnswersHonest ==
    ASSUME IInv, NEW answer \in Answer, Answers(answer)
    PROVE  /\ server' \in {"none", "open", "approved", "declined", "closed"} /\ ServerStep
           /\ answer = "created" => server' # "none"
           /\ answer = "approved" => server' \in {"approved", "closed"}
           /\ answer = "gone" => server' \in {"declined", "closed"}
           /\ h.status = "created" => server' # "none"
           /\ e.have_request => server' = server
  <1>1. server \in {"none", "open", "approved", "declined", "closed"} /\ Opened(e)
        /\ Honest(h.status, e.have_request)
    BY RestOfIInv DEF RestOK
  <1>2. CASE answer = "trouble" /\ UNCHANGED server
    BY <1>1, <1>2 DEF ServerStep, Honest
  <1>3. CASE /\ ~e.have_request /\ answer = "created"
             /\ server' = IF server = "approved" THEN server ELSE "open"
    BY <1>1, <1>3 DEF ServerStep, Request!Settled
  <1>4. CASE /\ e.have_request /\ UNCHANGED server
             /\ answer = CASE server = "open" -> "pending"
                           [] server = "approved" -> "approved"
                           [] OTHER -> "gone"
    BY <1>1, <1>4 DEF ServerStep, Honest, Opened
  <1>5. QED  BY <1>2, <1>3, <1>4 DEF Answers

LEMMA ObeysKeeps == IInv /\ Obeys => IInv' /\ Progress
  <1> SUFFICES ASSUME IInv, Obeys PROVE IInv' /\ Progress
    OBVIOUS
  <1>1. h \in Adapter /\ session \in Session /\ RestOK /\ e \in Core
    BY RestOfIInv DEF RestOK
  <1>2. wire' \in Seq(Entry) /\ Len(wire') <= Backlog /\ UNCHANGED <<e, gate, trial>>
    BY StagedWire DEF Obeys, Ready
  <1>3. ASSUME h' \in Adapter, h'.state = h.state, Alike(h', h), UNCHANGED server,
               file' \in SUBSET AllChunks,
               session' \in Session, session'.answer \in {session.answer, "none"}
        PROVE  IInv' /\ Progress
    <2>1. CoreKept
      BY <1>2, <1>3, StillKept
    <2>2. RestOK'
      BY <1>1, <1>2, <1>3, SessionMoves DEF RestOK, Trials
    <2>3. QED  BY <1>3, <2>1, <2>2, Together
  <1>4. ASSUME UNCHANGED h, UNCHANGED server, file' \in SUBSET AllChunks,
               session' \in Session, session'.answer \in {session.answer, "none"}
        PROVE  IInv' /\ Progress
    BY <1>1, <1>3, <1>4 DEF Alike
  <1>5. ASSUME NEW s, NEW g \in Adapter, g.state = h.state, Alike(g, h), Event(s, g),
               UNCHANGED server, file' \in SUBSET AllChunks,
               session' \in Session, session'.answer \in {session.answer, "none"}
        PROVE  IInv' /\ Progress
    BY <1>1, <1>3, <1>5 DEF Alike, Event
  <1>6. CASE \E c \in {"PDP_ACTIVATE", "SETTING", "URL", "CA_CLOSE"} : Quietly(c)
    BY <1>1, <1>4, <1>6 DEF Quietly, modem, RestOK
  <1>7. CASE UNCHANGED modem /\ \E active \in BOOLEAN :
                Event("PDP_QUERY", [h EXCEPT !.pdp_active = active])
    <2>1. PICK active \in BOOLEAN : Event("PDP_QUERY", [h EXCEPT !.pdp_active = active])
      BY <1>7
    <2> DEFINE g == [h EXCEPT !.pdp_active = active]
    <2>2. g \in Adapter /\ g.state = h.state /\ Alike(g, h)
      BY <1>1 DEF Adapter, Alike
    <2> HIDE DEF g
    <2>3. QED  BY <1>1, <1>5, <1>7, <2>1, <2>2 DEF modem, RestOK, g
  <1>8. CASE \E answer \in Answer :
                /\ Answers(answer) /\ session' = [stage |-> "posting", answer |-> answer]
                /\ UNCHANGED <<h, file>>
    <2>1. PICK answer \in Answer :
                /\ Answers(answer) /\ session' = [stage |-> "posting", answer |-> answer]
                /\ UNCHANGED <<h, file>>
      BY <1>8
    <2>2. /\ server' \in {"none", "open", "approved", "declined", "closed"} /\ ServerStep
          /\ Honest(session.answer, TRUE)' /\ Honest(h.status, e.have_request)' /\ Opened(e)'
      BY <1>1, <1>2, <2>1, AnswersHonest, RestOfIInv DEF Honest, Opened
    <2>3. session' \in Session
      BY <2>1 DEF Session
    <2>4. RestOK'
      BY <1>1, <1>2, <2>1, <2>2, <2>3 DEF RestOK
    <2>5. IInv'
      BY <1>2, <2>1, <2>2, <2>4, RestOfIInv
         DEF RestOK, IInv, TypeOK, Sane, InStep, AtRest, Entry, Session
    <2>6. QED  BY <1>2, <2>2, <2>5 DEF Progress
  <1>9. CASE /\ session' = [session EXCEPT !.stage = "reading"]
             /\ \E body \in {session.answer, "part"} : Event("READ", [h EXCEPT !.body = body])
             /\ UNCHANGED <<file, server>>
    <2>1. PICK body \in {session.answer, "part"} : Event("READ", [h EXCEPT !.body = body])
      BY <1>9
    <2>2. body \in Answer \cup {"none", "part"}
      BY <1>1 DEF Session
    <2> DEFINE g == [h EXCEPT !.body = body]
    <2>3. g \in Adapter /\ g.state = h.state /\ Alike(g, h)
      BY <1>1, <2>2 DEF Adapter, Alike
    <2>4. session' \in Session /\ session'.answer = session.answer
      BY <1>1, <1>9 DEF Session
    <2> HIDE DEF g
    <2>5. QED  BY <1>1, <1>5, <1>9, <2>1, <2>3, <2>4 DEF RestOK, g
  <1>10. CASE /\ session' = [stage |-> "closed", answer |-> "none"]
              /\ UNCHANGED <<h, file, server>>
    <2>1. session' \in Session /\ session'.answer = "none"
      BY <1>10 DEF Session
    <2>2. QED  BY <1>1, <1>4, <1>10, <2>1 DEF RestOK
  <1>11. CASE UNCHANGED modem /\ \E same \in {file # {}, file = AllChunks} :
                 Event("CA_LIST", [h EXCEPT !.match = same])
    <2>1. PICK same \in BOOLEAN : Event("CA_LIST", [h EXCEPT !.match = same])
      BY <1>11
    <2> DEFINE g == [h EXCEPT !.match = same]
    <2>2. g \in Adapter /\ g.state = h.state /\ Alike(g, h)
      BY <1>1 DEF Adapter, Alike
    <2> HIDE DEF g
    <2>3. QED  BY <1>1, <1>5, <1>11, <2>1, <2>2 DEF modem, RestOK, g
  <1>12. CASE UNCHANGED modem /\ Event("CA_OPEN", [h EXCEPT !.handle = TRUE])
    <2> DEFINE g == [h EXCEPT !.handle = TRUE]
    <2>1. g \in Adapter /\ g.state = h.state /\ Alike(g, h)
      BY <1>1 DEF Adapter, Alike
    <2> HIDE DEF g
    <2>2. QED  BY <1>1, <1>5, <1>12, <2>1 DEF modem, RestOK, g
  <1>13. CASE /\ UNCHANGED modem
              /\ \E clean \in BOOLEAN :
                    Event("CA_READ", [h EXCEPT !.match = @ /\ clean /\ h.offset + 1 \in file,
                                               !.offset = IF @ < Chunks THEN @ + 1 ELSE @])
    <2>1. PICK clean \in BOOLEAN :
              Event("CA_READ", [h EXCEPT !.match = @ /\ clean /\ h.offset + 1 \in file,
                                         !.offset = IF @ < Chunks THEN @ + 1 ELSE @])
      BY <1>13
    <2> DEFINE m == h.match /\ clean /\ h.offset + 1 \in file
               o == IF h.offset < Chunks THEN h.offset + 1 ELSE h.offset
               g == [h EXCEPT !.match = m, !.offset = o]
    <2>2. m \in BOOLEAN
      OBVIOUS
    <2>3. o \in 0..Chunks
      BY <1>1, EnrollmentAssumption DEF Adapter
    <2>4. Event("CA_READ", g)
      BY <2>1
    <2> HIDE DEF m, o
    <2>5. g \in Adapter /\ g.state = h.state /\ Alike(g, h)
      BY <1>1, <2>2, <2>3 DEF Adapter, Alike
    <2> HIDE DEF g
    <2>6. QED  BY <1>1, <1>5, <1>13, <2>4, <2>5 DEF modem, RestOK
  <1>14. CASE file' \in {{}, AllChunks} /\ UNCHANGED <<h, session, server>>
    BY <1>1, <1>4, <1>14 DEF RestOK
  <1>15. QED
    BY <1>6, <1>7, <1>8, <1>9, <1>10, <1>11, <1>12, <1>13, <1>14 DEF Obeys

-----------------------------------------------------------------------------
(* The client closes, and the modem restarts.                              *)
LEMMA ShutAdapter ==
    ASSUME IInv, NEW g \in Shut
    PROVE  /\ g \in Adapter /\ g.status = h.status /\ AtRest(g)
           /\ g.state \in Http => h.state \in Http
           /\ h.state \in Http => g.state \in Http \cup {"IDLE"}
  <1>1. h \in Adapter /\ AtRest(h)
    BY RestOfIInv
  <1>2. CASE g = h
    BY <1>1, <1>2
  <1>3. CASE g \in CommandDone(h, FALSE)
    BY <1>1, <1>3, CommandDoneAdapter
  <1>4. QED  BY <1>2, <1>3 DEF Shut

LEMMA QuarantineKeeps == IInv /\ Quarantine => IInv' /\ Progress
  <1> SUFFICES ASSUME IInv, Quarantine PROVE IInv' /\ Progress
    OBVIOUS
  <1>1. PICK g \in Shut : Moves(g)
    BY DEF Quarantine
  <1>2. CoreKept /\ trial' \in Trials
    BY <1>1, ShutAdapter, MovesKeeps, RestOfIInv DEF Trials
  <1>3. wire' \in Seq(Entry) /\ Len(wire') <= Backlog
    BY Marked DEF Quarantine
  <1>4. RestOK' /\ UNCHANGED server
    BY <1>2, <1>3, RestKept DEF Quarantine, Trials
  <1>5. QED  BY <1>2, <1>4, Together

LEMMA RenewedAdapter ==
    ASSUME NEW g \in Adapter
    PROVE  /\ Renewed(g) \in Adapter /\ Renewed(g).state = "IDLE"
           /\ Renewed(g).link = "none" /\ Renewed(g).status = "none"
  <1>1. Cleared(g) \in Adapter /\ Cleared(g).status = "none"
    BY ClearedAdapter
  <1> DEFINE no == FALSE
             z == Cleared(g)
             a == [z EXCEPT !.state = "IDLE"]
             b == [a EXCEPT !.link = "none"]
             c == [b EXCEPT !.blocked = no]
             d == [c EXCEPT !.verified = no]
  <1>2. Renewed(g) = d
    BY DEF Renewed
  <1>a. no \in BOOLEAN
    OBVIOUS
  <1> HIDE DEF no, z
  <1>3. a \in Adapter /\ a.state = "IDLE" /\ a.status = "none"
    BY <1>1 DEF z, Adapter
  <1> HIDE DEF a
  <1>4. b \in Adapter /\ b.state = "IDLE" /\ b.link = "none" /\ b.status = "none"
    BY <1>3 DEF Adapter
  <1> HIDE DEF b
  <1>5. c \in Adapter /\ c.state = "IDLE" /\ c.link = "none" /\ c.status = "none"
    BY <1>a, <1>4 DEF Adapter
  <1> HIDE DEF c
  <1>6. d \in Adapter /\ d.state = "IDLE" /\ d.link = "none" /\ d.status = "none"
    BY <1>a, <1>5 DEF Adapter
  <1>7. QED  BY <1>2, <1>6

LEMMA EmptyWire ==
    ASSUME IInv, wire' = <<>>, session' = [stage |-> "closed", answer |-> "none"],
           gate' \in BOOLEAN, UNCHANGED <<trial, file, server>>
    PROVE  RestOK'
  <1>1. wire' \in Seq(Entry) /\ Len(wire') <= Backlog
    BY EnrollmentAssumption
  <1>2. session' \in Session /\ session'.answer = "none"
    BY DEF Session
  <1>3. QED  BY <1>1, <1>2, RestOfIInv, SessionMoves DEF RestOK, Trials

(* A request that ends with the modem: the core takes what is reported.    *)
LEMMA ReportedKept ==
    ASSUME IInv, NEW g \in Adapter, Honest(g.status, e.have_request),
           h' \in Adapter, h'.state = "IDLE", h'.link = "none", h'.status = "none",
           \/ e.state \in {"HTTP", "CANCELLING"} /\ e' \in OnHttp(g)
           \/ ~Requesting /\ UNCHANGED e
    PROVE  CoreKept
  <1>1. CASE e.state \in {"HTTP", "CANCELLING"} /\ e' \in OnHttp(g)
    <2>1. e' \in Core /\ Sane(e') /\ Allowed(e, e') /\ Opened(e')
          /\ e'.state \in {"WAITING", "TRIAL"}
      BY <1>1, OnHttpCore
    <2>2. QED  BY <2>1 DEF CoreKept, InStep, AtRest, Honest, Http, Setup
  <1>2. CASE /\ ~Requesting
             /\ UNCHANGED e
    <2>1. e' = e /\ e \in Core /\ Sane(e) /\ Opened(e)
      BY <1>2, RestOfIInv
    <2>2. InStep(e, h')
      <3>1. h'.state \notin Http
        BY DEF Http, Setup
      <3>2. QED  BY <1>2, <3>1 DEF InStep, Requesting
    <2>3. AtRest(h') /\ Honest(h'.status, e.have_request)
      BY DEF AtRest, Honest
    <2>4. QED  BY <2>1, <2>2, <2>3, StandingStillIsAllowed DEF CoreKept
  <1>3. QED  BY <1>1, <1>2

LEMMA OnModemResetKeeps == IInv /\ OnModemReset => IInv' /\ Progress
  <1> SUFFICES ASSUME IInv, OnModemReset PROVE IInv' /\ Progress
    OBVIOUS
  <1>1. PICK g \in Shut : /\ h' = Renewed(g)
                          /\ IF h.state \in Http THEN e' \in OnHttp(g) ELSE UNCHANGED e
    BY DEF OnModemReset
  <1>2. g \in Adapter /\ Honest(g.status, e.have_request)
    BY <1>1, ShutAdapter, RestOfIInv
  <1>3. CoreKept
    <2>1. /\ h' \in Adapter /\ h'.state = "IDLE" /\ h'.link = "none" /\ h'.status = "none"
      BY <1>1, <1>2, RenewedAdapter
    <2>2. InStep(e, h)
      BY RestOfIInv
    <2>3. \/ e.state \in {"HTTP", "CANCELLING"} /\ e' \in OnHttp(g)
          \/ ~Requesting /\ UNCHANGED e
      BY <1>1, <2>2 DEF InStep, Requesting
    <2>4. QED  BY <1>2, <2>1, <2>3, ReportedKept
  <1>4. RestOK' /\ UNCHANGED server
    BY EmptyWire DEF OnModemReset
  <1>5. QED  BY <1>3, <1>4, Together

LEMMA AfterModemResetKeeps == IInv /\ AfterModemReset => IInv' /\ Progress
  <1> SUFFICES ASSUME IInv, AfterModemReset PROVE IInv' /\ Progress
    OBVIOUS
  <1>1. h \in Adapter
    BY RestOfIInv
  <1>2. CoreKept
    <2>1. /\ h' \in Adapter /\ h'.state = "IDLE" /\ h'.link = "none" /\ h'.status = "none"
          /\ Renewed(h) \in Adapter /\ Renewed(h).status = "none"
      BY <1>1, RenewedAdapter DEF AfterModemReset
    <2>2. \/ e.state \in {"HTTP", "CANCELLING"} /\ e' \in OnHttp(Renewed(h))
          \/ ~Requesting /\ UNCHANGED e
      BY DEF AfterModemReset, Requesting
    <2>3. Honest(Renewed(h).status, e.have_request)
      BY <2>1 DEF Honest
    <2>4. QED  BY <2>1, <2>2, <2>3, ReportedKept
  <1>3. RestOK' /\ UNCHANGED server
    BY EmptyWire, RestOfIInv DEF AfterModemReset, RestOK
  <1>4. QED  BY <1>2, <1>3, Together

-----------------------------------------------------------------------------
LEMMA InitIInv == Init => IInv
  <1> SUFFICES ASSUME Init PROVE IInv
    OBVIOUS
  <1>1. h \in Adapter
    <2>1. 0 \in 0..Chunks /\ 0 \in 0..Settings
      BY EnrollmentAssumption
    <2>2. QED  BY <2>1 DEF Init, Adapter
  <1>2. e \in Core /\ Sane(e)
    BY DEF Init, Core, Sane
  <1>3. wire \in Seq(Entry) /\ Len(wire) <= Backlog
    BY EnrollmentAssumption DEF Init
  <1>4. session \in Session /\ Honest(session.answer, TRUE)
    BY DEF Init, Session, Honest
  <1>5. RestOK
    BY <1>3, <1>4 DEF Init, RestOK
  <1>6. InStep(e, h) /\ AtRest(h) /\ Opened(e) /\ Honest(h.status, e.have_request)
    BY DEF Init, InStep, AtRest, Opened, Honest, Http, Setup
  <1>7. QED  BY <1>1, <1>2, <1>5, <1>6, RestOfIInv

LEMMA StepIInv == IInv /\ [Next]_vars => IInv' /\ (Progress \/ UNCHANGED vars)
  <1> SUFFICES ASSUME IInv, [Next]_vars PROVE IInv' /\ (Progress \/ UNCHANGED vars)
    OBVIOUS
  <1>1. CASE UNCHANGED vars
    BY <1>1 DEF vars, IInv, TypeOK, Sane, InStep, AtRest, Opened, Honest
  <1>2. CASE Poll
    BY <1>2, PrepareCaKeeps, PostKeeps, PollTrialKeeps DEF Poll
  <1>3. CASE Cancel \/ TrialEnds \/ ServerDecides
    BY <1>3, CancelKeeps, TrialEndsKeeps, ServerDecidesKeeps
  <1>4. CASE StartCommand \/ Timeout
    BY <1>4, StartCommandKeeps, TimeoutKeeps
  <1>5. CASE Modem
    BY <1>5, PromptsKeeps, RefusesKeeps, ObeysKeeps, ResultLineKeeps, LostKeeps,
       PostedKeeps, ReadDoneKeeps DEF Modem
  <1>6. CASE Quarantine \/ OnModemReset \/ AfterModemReset
    BY <1>6, QuarantineKeeps, OnModemResetKeeps, AfterModemResetKeeps
  <1>7. QED  BY <1>1, <1>2, <1>3, <1>4, <1>5, <1>6 DEF Next

(* The inductive invariant: types, the core in step with the adapter, and  *)
(* answers that are still true of the server.                              *)
THEOREM EnrolmentInvariant == Spec => []IInv
  <1>1. QED  BY InitIInv, StepIInv, PTL DEF Spec

(* Every variable keeps its type, whatever the length of the certificate   *)
(* (ABoxEnrollment, ABoxEnrollmentEc800Http).                              *)
THEOREM TypeCorrect == Spec => []TypeOK
  <1>1. IInv => TypeOK
    BY DEF IInv
  <1>2. QED  BY <1>1, EnrolmentInvariant, PTL

(* A request runs in the core exactly while the adapter works on it        *)
(* (finish, AfterModemReset, ABoxEnrollment_Cancel).                       *)
THEOREM RequestAlwaysInStep == Spec => []RequestInStep
  <1>1. IInv => RequestInStep
    BY DEF IInv, InStep, RequestInStep
  <1>2. QED  BY <1>1, EnrolmentInvariant, PTL

(* What the operator sees: the box asks only while it has no configuration *)
(* and was not cancelled, one question at a time; the request is kept      *)
(* until an answer says that the server has declined or closed it, and     *)
(* only an approved one is tried (ABoxEnrollment_Poll, OnHttp, Cancel and  *)
(* TrialResult).                                                           *)
THEOREM RequestIsKept == Spec => ImplementsEnrolmentRequest
  <1>1. Init => Request!Init
    BY DEF Init, Request!Init, Requesting
  <1>2. IInv /\ [Next]_vars => [Request!Next]_Request!vars
    <2> SUFFICES ASSUME IInv, [Next]_vars PROVE [Request!Next]_Request!vars
      OBVIOUS
    <2> USE DEF Request!Next, Request!vars
    <2>1. CASE UNCHANGED vars
      BY <2>1 DEF vars, Requesting
    <2>2. CASE UNCHANGED server /\ Allowed(e, e')
      <3>1. CASE Asking(e) /\ ~Asking(e') /\ AnswerAllows(e, e')
        BY <2>2, <3>1 DEF AnswerAllows, Phase, Asking, Requesting, Request!Answered,
                          Request!Grant, Request!Try, Request!Release
      <3>2. CASE ~Asking(e) /\ Asking(e') /\ Phase(e) \in {"none", "held"} /\ Phase(e') = Phase(e)
        BY <2>2, <3>2 DEF Phase, Asking, Requesting, Request!Ask
      <3>3. CASE (Asking(e) <=> Asking(e')) /\ OtherwiseAllowed(e, e')
        BY <2>2, <3>3 DEF OtherwiseAllowed, Phase, Asking, Requesting, Request!Fail,
                          Request!Enrol, Request!Abandon
      <3>4. QED  BY <2>2, <3>1, <3>2, <3>3 DEF Allowed
    <2>3. CASE UNCHANGED e /\ ServerStep
      <3>1. UNCHANGED Requesting /\ Sane(e)
        BY <2>3, RestOfIInv DEF Requesting
      <3>2. QED  BY <2>3, <3>1 DEF ServerStep, Sane, Request!ServerMoves, Request!Opens,
                                   Request!Decides
    <2>4. QED  BY <2>1, <2>2, <2>3, StepIInv DEF Progress
  <1>3. QED  BY <1>1, <1>2, EnrolmentInvariant, PTL DEF Spec, ImplementsEnrolmentRequest, Request!Spec
-----------------------------------------------------------------------------
(* The pinned CA.  From the first listing to the last close of the file    *)
(* the adapter either runs alone on the wire or replaces the file, when    *)
(* only listings and deletions that nobody waits for any more are left     *)
(* before its command.  So no late answer can vouch for a file that was    *)
(* not read, and none that comes after the check can change the file.      *)
OnlyOf(w, commands) == \A i \in 1..Len(w) : w[i].cmd \in commands

Reading == {"CA_LIST", "CA_OPEN", "CA_READ", "CA_CLOSE"}

(* What lists or reads the file is the only command the modem has.         *)
ReadsAlone(g, w) ==
    g.state \in Reading => /\ OnlyOf(w, {g.state}) /\ Len(w) <= 1
                           /\ g.link = "queued" => w = <<>>

(* What replaces the file comes after nothing but listings and deletions.  *)
Replaces(g, w) ==
    /\ g.state = "CA_DELETE" => OnlyOf(w, {"CA_LIST", "CA_DELETE"})
    /\ g.state = "CA_UPLOAD" =>
          /\ \A i \in 1..Len(w) : \/ w[i].cmd \in {"CA_LIST", "CA_DELETE"}
                                  \/ w[i].cmd = "CA_UPLOAD" /\ i = Len(w) /\ g.link # "queued"
          /\ g.link = "given" => Len(w) <= 1

(* What was compared so far is what the file holds.                        *)
Compared(g, f) == g.state \in {"CA_READ", "CA_CLOSE"} /\ g.match => 1..g.offset \subseteq f

Pinned(g, w, f) ==
    /\ g.verified => f = AllChunks /\ OnlyOf(w, Http)
    /\ g.state \in Http => g.verified
    /\ g.state \in Ca => ~g.verified
    /\ g.state = "IDLE" /\ ~g.blocked /\ ~g.verified => w = <<>>
    /\ ReadsAlone(g, w) /\ Replaces(g, w) /\ Compared(g, f)

PinnedInv == IInv /\ Pinned(h, wire, file)

(* Adapters that the CA check cannot tell apart.                           *)
Twin(x, g) == /\ x.state = g.state /\ x.link = g.link /\ x.blocked = g.blocked
              /\ x.verified = g.verified /\ x.match = g.match /\ x.offset = g.offset

LEMMA TwinPinned ==
    ASSUME NEW g, NEW x, Twin(x, g), NEW w, NEW f, Pinned(g, w, f)
    PROVE  Pinned(x, w, f)
  BY DEF Pinned, Twin, ReadsAlone, Replaces, Compared

(* A wire whose entries go through their stages.                           *)
SameCommands(w, v) == Len(w) = Len(v) /\ \A i \in 1..Len(v) : w[i].cmd = v[i].cmd

LEMMA SamePinned ==
    ASSUME NEW g, NEW f, NEW v \in Seq(Entry), NEW w \in Seq(Entry), SameCommands(w, v),
           Pinned(g, v, f)
    PROVE  Pinned(g, w, f)
  <1>1. v = <<>> => w = <<>>
    BY DEF SameCommands
  <1>2. \A c : OnlyOf(v, c) => OnlyOf(w, c)
    BY DEF OnlyOf, SameCommands
  <1>3. ReadsAlone(g, w)
    BY <1>1, <1>2 DEF Pinned, ReadsAlone, SameCommands
  <1>4. Replaces(g, w)
    BY <1>2 DEF Pinned, Replaces, SameCommands
  <1>5. QED  BY <1>1, <1>2, <1>3, <1>4 DEF Pinned

LEMMA TailPinned ==
    ASSUME NEW g, NEW f, NEW v \in Seq(Entry), v # <<>>, Pinned(g, v, f)
    PROVE  Pinned(g, Tail(v), f)
  <1> DEFINE w == Tail(v)
  <1>1. Len(w) = Len(v) - 1 /\ Len(v) \in Nat \ {0} /\ \A i \in 1..Len(w) : w[i] = v[i + 1]
    <2>1. Len(v) \in Nat \ {0}
      OBVIOUS
    <2>2. Len(w) = Len(v) - 1
      BY <2>1
    <2>3. ASSUME NEW i \in 1..Len(w) PROVE w[i] = v[i + 1]
      BY <2>1, <2>2
    <2>4. QED  BY <2>1, <2>2, <2>3
  <1>2. w \in Seq(Entry)
    OBVIOUS
  <1> HIDE DEF w
  <1>3. Len(v) = 1 => w = <<>>
    BY <1>1, <1>2
  <1>4. \A i \in 1..Len(w) : i + 1 \in 1..Len(v) /\ (i + 1 = Len(v) => i = Len(w))
    BY <1>1
  <1>5. \A c : OnlyOf(v, c) => OnlyOf(w, c)
    BY <1>1, <1>4 DEF OnlyOf
  <1>6. ReadsAlone(g, w)
    BY <1>1, <1>3, <1>5 DEF Pinned, ReadsAlone
  <1>7. Replaces(g, w)
    BY <1>1, <1>4, <1>5 DEF Pinned, Replaces
  <1>8. Pinned(g, w, f)
    BY <1>5, <1>6, <1>7 DEF Pinned
  <1>9. QED  BY <1>8 DEF w

(* A command of a request leaves the verdict on the CA alone.              *)
LEMMA StopVerdict ==
    ASSUME NEW g \in Adapter, NEW f \in StopHttp(g)
    PROVE  f.verified = g.verified
  BY DEF StopHttp, Finish, Submitted, Adapter

LEMMA IssueVerdict ==
    ASSUME NEW g \in Adapter, NEW s \in Http, NEW f \in Issue(g, s)
    PROVE  f.verified = g.verified
  <1> DEFINE g2 == [g EXCEPT !.state = s]
  <1>1. g2 \in Adapter /\ g2.verified = g.verified
    BY DEF Adapter
  <1>2. CASE f \in Submitted(g, s)
    BY <1>2 DEF Submitted, Adapter
  <1>3. CASE f \in StopHttp(g2)
    BY <1>1, <1>3, StopVerdict
  <1>4. QED  BY <1>2, <1>3 DEF Issue

LEMMA SucceededVerdict ==
    ASSUME NEW g \in Adapter, NEW sent \in BOOLEAN, g.state \in Http \ {"STOP"},
           NEW f \in Succeeded(g, sent)
    PROVE  f.verified = g.verified
  <1> USE EnrollmentAssumption
  <1>1. CASE g.state \in {"PDP_QUERY", "PDP_ACTIVATE"}
    <2> DEFINE g2 == [g EXCEPT !.settings = 1]
    <2>1. g2 \in Adapter /\ g2.verified = g.verified
      BY DEF Adapter
    <2>2. f \in Issue(g2, "SETTING") \/ f \in Issue(g, "PDP_ACTIVATE")
      BY <1>1 DEF Succeeded
    <2> HIDE DEF g2
    <2>3. QED  BY <2>1, <2>2, IssueVerdict DEF Http, Setup
  <1>2. CASE g.state = "SETTING"
    <2> DEFINE g2 == [g EXCEPT !.settings = @ + 1]
    <2>1. g.settings < Settings => g2 \in Adapter /\ g2.verified = g.verified
      BY DEF Adapter
    <2>2. (g.settings < Settings /\ f \in Issue(g2, "SETTING")) \/ f \in Issue(g, "URL")
      BY <1>2 DEF Succeeded
    <2> HIDE DEF g2
    <2>3. QED  BY <2>1, <2>2, IssueVerdict DEF Http, Setup
  <1>3. CASE g.state = "URL" \/ g.state = "POST"
    <2>1. f \in Issue(g, "POST") \/ f \in Issue(g, "READ") \/ f \in StopHttp(g)
      BY <1>3 DEF Succeeded
    <2>2. QED  BY <2>1, IssueVerdict, StopVerdict DEF Http
  <1>4. CASE g.state = "READ"
    BY <1>4 DEF Succeeded, Finish, Adapter
  <1>5. QED  BY <1>1, <1>2, <1>3, <1>4 DEF Http, Setup

LEMMA HttpVerdict ==
    ASSUME NEW g \in Adapter, g.state \in Http, NEW ok \in BOOLEAN, NEW f \in CommandDone(g, ok)
    PROVE  f.verified = g.verified
  <1> DEFINE g2 == [g EXCEPT !.link = "none"]
  <1>1. g2 \in Adapter /\ g2.verified = g.verified /\ g2.state = g.state
    BY DEF Adapter
  <1>2. CASE g.state = "STOP"
    <2>1. f \in Finish(g2, ok)
      BY <1>1, <1>2 DEF CommandDone, Ca
    <2> HIDE DEF g2
    <2>2. QED  BY <1>1, <2>1 DEF Finish, Adapter
  <1>3. CASE g.state # "STOP"
    <2>1. f \in StopHttp(g2) \/ f \in Succeeded(g2, g.link = "given")
      BY <1>1, <1>3 DEF CommandDone, Http, Setup, Ca
    <2> HIDE DEF g2
    <2>2. QED  BY <1>1, <1>3, <2>1, StopVerdict, SucceededVerdict
  <1>4. QED  BY <1>2, <1>3

(* What a command of the CA check leads to: a blocked adapter, the next    *)
(* command, or the verdict that the file was read to its end and matched.  *)
Proceeds(f, g, ok) ==
    /\ f.link = "queued" /\ f.verified = g.verified
    /\ \/ ok /\ g.state = "CA_LIST" /\ f.state = "CA_OPEN"
       \/ g.state = "CA_LIST" /\ f.state = "CA_DELETE"
       \/ ok /\ g.state = "CA_OPEN" /\ f.state = "CA_READ" /\ f.offset = 0
       \/ ok /\ g.state = "CA_READ" /\ f.state \in {"CA_READ", "CA_CLOSE"}
             /\ f.offset = g.offset /\ f.match = g.match
       \/ ok /\ g.state = "CA_CLOSE" /\ f.state = "CA_DELETE"
       \/ g.state = "CA_DELETE" /\ f.state = "CA_UPLOAD"
       \/ ok /\ g.state = "CA_UPLOAD" /\ f.state = "CA_LIST"
Blocks(f, g) == f.state = "IDLE" /\ f.blocked /\ f.verified = g.verified
Verifies(f, g, ok) == /\ ok /\ g.state = "CA_CLOSE" /\ g.match /\ g.offset = Chunks
                      /\ f.state = "IDLE"

LEMMA BlockOutcome ==
    ASSUME NEW g \in Adapter, NEW f \in Block(g)
    PROVE  Blocks(f, g)
  <1> DEFINE yes == TRUE
             b == [g EXCEPT !.state = "IDLE"]
  <1>1. f = [b EXCEPT !.blocked = yes]
    BY DEF Block
  <1>2. b \in Adapter /\ b.state = "IDLE" /\ b.verified = g.verified
    BY DEF Adapter
  <1> HIDE DEF b
  <1>3. f.state = b.state /\ f.verified = b.verified /\ f.blocked = yes
    BY <1>1, <1>2 DEF Adapter
  <1>4. QED  BY <1>2, <1>3 DEF Blocks

LEMMA CaSubmitOutcome ==
    ASSUME NEW g \in Adapter, NEW s \in Ca, NEW f \in CaSubmit(g, s)
    PROVE  \/ /\ f.state = s /\ f.link = "queued" /\ f.verified = g.verified
              /\ f.offset = g.offset /\ f.match = g.match
           \/ Blocks(f, g)
  <1>1. CASE f \in Submitted(g, s)
    BY <1>1 DEF Submitted, Adapter
  <1>2. CASE f \in Block(g)
    BY <1>2, BlockOutcome
  <1>3. QED  BY <1>1, <1>2 DEF CaSubmit

LEMMA CaOutcome ==
    ASSUME NEW g \in Adapter, g.state \in Ca, NEW ok \in BOOLEAN, NEW f \in CaDone(g, ok)
    PROVE  Proceeds(f, g, ok) \/ Blocks(f, g) \/ Verifies(f, g, ok)
  <1> USE DEF Ca
  <1>1. ASSUME NEW x \in Adapter, x.verified = g.verified, f \in Block(x)
        PROVE  Blocks(f, g)
    <2>1. Blocks(f, x)
      BY <1>1, BlockOutcome
    <2>2. QED  BY <1>1, <2>1 DEF Blocks
  <1>2. CASE ~ok /\ g.state \notin {"CA_LIST", "CA_DELETE"}
    BY <1>1, <1>2 DEF CaDone
  <1>3. CASE g.state = "CA_LIST"
    <2>1. \/ ok /\ f \in CaSubmit(g, "CA_OPEN")
          \/ f \in Block(g) \/ f \in CaSubmit(g, "CA_DELETE")
      BY <1>3 DEF CaDone
    <2>2. QED  BY <1>1, <1>3, <2>1, CaSubmitOutcome DEF Proceeds
  <1>4. CASE ok /\ g.state = "CA_OPEN"
    <2> DEFINE yes == TRUE
               g1 == [g EXCEPT !.offset = 0]
               g2 == [g1 EXCEPT !.match = yes]
    <2>1. g1 \in Adapter /\ g1.offset = 0 /\ g1.verified = g.verified
      BY EnrollmentAssumption DEF Adapter
    <2>2. f \in CaSubmit(g2, "CA_READ") \/ f \in Block(g)
      BY <1>4 DEF CaDone
    <2> HIDE DEF g1
    <2>3. yes \in BOOLEAN
      OBVIOUS
    <2> HIDE DEF yes
    <2>4. g2 \in Adapter
      BY <2>1, <2>3 DEF Adapter
    <2>5. g2.offset = 0 /\ g2.verified = g.verified
      BY <2>1 DEF Adapter
    <2> HIDE DEF g2
    <2>6. CASE f \in CaSubmit(g2, "CA_READ")
      <3>1. \/ f.state = "CA_READ" /\ f.link = "queued" /\ f.verified = g2.verified
               /\ f.offset = g2.offset
            \/ Blocks(f, g2)
        BY <2>4, <2>6, CaSubmitOutcome
      <3>2. QED  BY <1>4, <2>5, <3>1 DEF Proceeds, Blocks
    <2>7. CASE f \in Block(g)
      BY <1>1, <2>7
    <2>8. QED  BY <2>2, <2>6, <2>7
  <1>5. CASE ok /\ g.state = "CA_READ"
    <2>1. f \in CaSubmit(g, "CA_READ") \/ f \in CaSubmit(g, "CA_CLOSE")
      BY <1>5 DEF CaDone
    <2>2. QED  BY <1>5, <2>1, CaSubmitOutcome DEF Proceeds
  <1>6. CASE ok /\ g.state = "CA_CLOSE"
    <2> DEFINE g2 == [g EXCEPT !.handle = FALSE]
    <2>1. /\ g2 \in Adapter /\ g2.verified = g.verified
          /\ g2.match = g.match /\ g2.offset = g.offset
      BY DEF Adapter
    <2>2. \/ ReadBack(g2) /\ f = [g2 EXCEPT !.state = "IDLE", !.verified = TRUE]
          \/ f \in Block(g2) \/ f \in CaSubmit(g2, "CA_DELETE")
      BY <1>6 DEF CaDone
    <2> HIDE DEF g2
    <2>3. CASE ReadBack(g2) /\ f = [g2 EXCEPT !.state = "IDLE", !.verified = TRUE]
      <3>1. f.state = "IDLE"
        BY <2>1, <2>3 DEF Adapter
      <3>2. QED  BY <1>6, <2>1, <2>3, <3>1 DEF Verifies, ReadBack
    <2>4. CASE f \in Block(g2)
      BY <1>1, <2>1, <2>4
    <2>5. CASE f \in CaSubmit(g2, "CA_DELETE")
      <3>1. Blocks(f, g2) \/ (f.state = "CA_DELETE" /\ f.link = "queued" /\ f.verified = g2.verified)
        BY <2>1, <2>5, CaSubmitOutcome
      <3>2. QED  BY <1>6, <2>1, <3>1 DEF Proceeds, Blocks
    <2>6. QED  BY <2>2, <2>3, <2>4, <2>5
  <1>7. CASE g.state = "CA_DELETE"
    <2>1. f \in CaSubmit(g, "CA_UPLOAD")
      BY <1>7 DEF CaDone
    <2>2. QED  BY <1>7, <2>1, CaSubmitOutcome DEF Proceeds
  <1>8. CASE ok /\ g.state = "CA_UPLOAD"
    <2> DEFINE yes == TRUE
               no == FALSE
               g1 == [g EXCEPT !.uploaded = yes]
               g2 == [g1 EXCEPT !.match = no]
    <2>1. yes \in BOOLEAN /\ no \in BOOLEAN
      OBVIOUS
    <2>2. f \in CaSubmit(g2, "CA_LIST")
      BY <1>8 DEF CaDone
    <2> HIDE DEF yes, no
    <2>3. g1 \in Adapter /\ g1.verified = g.verified
      BY <2>1 DEF Adapter
    <2> HIDE DEF g1
    <2>4. g2 \in Adapter /\ g2.verified = g1.verified
      BY <2>1, <2>3 DEF Adapter
    <2> HIDE DEF g2
    <2>5. Blocks(f, g2) \/ (f.state = "CA_LIST" /\ f.link = "queued" /\ f.verified = g2.verified)
      BY <2>2, <2>4, CaSubmitOutcome
    <2>6. QED  BY <1>8, <2>3, <2>4, <2>5 DEF Proceeds, Blocks
  <1>9. QED  BY <1>2, <1>3, <1>4, <1>5, <1>6, <1>7, <1>8

(* A command ends.  One of the CA check that succeeds has emptied the      *)
(* wire, but for a deletion, which may be taken for done too early.        *)
LEMMA DonePinned ==
    ASSUME NEW g \in Adapter, NEW ok \in BOOLEAN, NEW f \in CommandDone(g, ok),
           NEW w \in Seq(Entry), NEW x \in SUBSET AllChunks, Pinned(g, w, x),
           ok /\ g.state \in Ca \ {"CA_DELETE"} => w = <<>>
    PROVE  Pinned(f, w, x)
  <1> DEFINE g2 == [g EXCEPT !.link = "none"]
  <1>1. /\ g2 \in Adapter /\ g2.state = g.state /\ g2.verified = g.verified
        /\ g2.blocked = g.blocked /\ g2.match = g.match /\ g2.offset = g.offset
    BY DEF Adapter
  <1>2. CASE g.state = "IDLE"
    <2>1. f = g2
      BY <1>1, <1>2 DEF CommandDone
    <2>2. QED  BY <1>1, <1>2, <2>1, NeverIdle DEF Pinned, ReadsAlone, Replaces, Compared, Reading
  <1>3. CASE g.state \in Http
    <2>1. f.verified = g.verified /\ f.state \in Http \cup {"IDLE"}
      BY <1>3, HttpVerdict, CommandDoneAdapter
    <2>2. g.verified /\ f.state \notin Ca
      BY <1>3, <2>1, NeverIdle DEF Pinned
    <2>3. QED  BY <2>1, <2>2 DEF Pinned, ReadsAlone, Replaces, Compared, Reading, Ca
  <1>4. CASE g.state \in Ca
    <2>1. f \in CaDone(g2, ok)
      BY <1>1, <1>4, NeverIdle DEF CommandDone
    <2> HIDE DEF g2
    <2>2. Proceeds(f, g2, ok) \/ Blocks(f, g2) \/ Verifies(f, g2, ok)
      BY <1>1, <1>4, <2>1, CaOutcome
    <2>3. ~g.verified
      BY <1>4 DEF Pinned
    <2>4. CASE Blocks(f, g2)
      BY <1>1, <2>3, <2>4, NeverIdle DEF Blocks, Pinned, ReadsAlone, Replaces, Compared, Reading
    <2>5. CASE Verifies(f, g2, ok)
      <3>1. w = <<>> /\ x = AllChunks
        <4>1. w = <<>>
          BY <1>1, <1>4, <2>5 DEF Verifies
        <4>2. 1..Chunks \subseteq x
          BY <1>1, <2>5 DEF Verifies, Pinned, Compared
        <4>3. QED  BY <4>1, <4>2 DEF AllChunks
      <3>2. OnlyOf(w, Http)
        BY <3>1 DEF OnlyOf
      <3>3. QED  BY <2>5, <3>1, <3>2, NeverIdle
                 DEF Verifies, Pinned, ReadsAlone, Replaces, Compared, Reading
    <2>6. CASE Proceeds(f, g2, ok)
      <3>1. f.state \in Ca /\ ~f.verified /\ f.state \notin Http
        BY <1>1, <2>3, <2>6 DEF Proceeds, Ca, Http, Setup
      <3>2. ReadsAlone(f, w)
        BY <1>1, <1>4, <2>6 DEF Proceeds, ReadsAlone, Reading, OnlyOf, Ca
      <3>3. Replaces(f, w)
        BY <1>1, <1>4, <2>6 DEF Proceeds, Pinned, ReadsAlone, Replaces, Reading, OnlyOf, Ca
      <3>4. Compared(f, x)
        <4>1. CASE f.state = "CA_READ" /\ f.offset = 0
          <5>1. 1..0 = {}
            OBVIOUS
          <5>2. QED  BY <4>1, <5>1 DEF Compared
        <4>2. CASE g.state = "CA_READ" /\ f.offset = g.offset /\ f.match = g.match
          BY <4>2 DEF Pinned, Compared
        <4>3. CASE f.state \notin {"CA_READ", "CA_CLOSE"}
          BY <4>3 DEF Compared
        <4>4. QED  BY <1>1, <2>6, <4>1, <4>2, <4>3 DEF Proceeds
      <3>5. QED  BY <3>1, <3>2, <3>3, <3>4, NeverIdle DEF Pinned
    <2>7. QED  BY <2>2, <2>4, <2>5, <2>6
  <1>5. QED  BY <1>2, <1>3, <1>4 DEF Adapter

LEMMA ClearedVerdict ==
    ASSUME NEW g \in Adapter
    PROVE  /\ Cleared(g).state = g.state
           /\ Cleared(g).blocked = g.blocked /\ Cleared(g).verified = g.verified
  BY DEF Cleared, Adapter

LEMMA MovesPinned ==
    ASSUME NEW g \in Adapter, Moves(g), NEW w, NEW x, Pinned(g, w, x)
    PROVE  Pinned(h', w, x)
  <1>1. CASE g.state = "IDLE"
    <2>1. h' = Cleared(g)
      BY <1>1 DEF Moves
    <2>2. QED  BY <1>1, <2>1, ClearedVerdict, NeverIdle
               DEF Pinned, ReadsAlone, Replaces, Compared, Reading
  <1>2. CASE g.state # "IDLE"
    BY <1>2 DEF Moves
  <1>3. QED  BY <1>1, <1>2

-----------------------------------------------------------------------------
(* Every action keeps the CA check as it should be.                        *)
LEMMA MarkedCommands ==
    ASSUME IInv, NEW w, w = Escaped \/ w = Expired \/ w = wire
    PROVE  w \in Seq(Entry) /\ SameCommands(w, wire)
  <1>1. w \in Seq(Entry) /\ wire \in Seq(Entry)
    BY Marked, RestOfIInv DEF RestOK
  <1>2. \A i \in 1..Len(wire) : wire[i] \in Entry
    BY <1>1
  <1>3. \A x \in Entry : \A s : [x EXCEPT !.stage = s].cmd = x.cmd
    BY DEF Entry
  <1>4. CASE w = Escaped
    <2>1. /\ Len(w) = Len(wire)
          /\ \A i \in 1..Len(wire) : w[i] = wire[i] \/ w[i] = [wire[i] EXCEPT !.stage = "refused"]
      BY <1>1, <1>4 DEF Escaped
    <2>2. ASSUME NEW i \in 1..Len(wire) PROVE w[i].cmd = wire[i].cmd
      <3> DEFINE x == wire[i]
      <3>1. x \in Entry /\ (w[i] = x \/ w[i] = [x EXCEPT !.stage = "refused"])
        BY <1>2, <2>1
      <3> HIDE DEF x
      <3>2. [x EXCEPT !.stage = "refused"].cmd = x.cmd
        BY <1>3, <3>1
      <3>3. w[i].cmd = x.cmd
        BY <3>1, <3>2
      <3>4. QED  BY <3>3 DEF x
    <2>3. QED  BY <1>1, <2>1, <2>2 DEF SameCommands
  <1>5. CASE w = Expired
    <2>1. /\ Len(w) = Len(wire)
          /\ \A i \in 1..Len(wire) : w[i] = wire[i] \/ w[i] = [wire[i] EXCEPT !.stage = "over"]
      BY <1>1, <1>5 DEF Expired
    <2>2. ASSUME NEW i \in 1..Len(wire) PROVE w[i].cmd = wire[i].cmd
      <3> DEFINE x == wire[i]
      <3>1. x \in Entry /\ (w[i] = x \/ w[i] = [x EXCEPT !.stage = "over"])
        BY <1>2, <2>1
      <3> HIDE DEF x
      <3>2. [x EXCEPT !.stage = "over"].cmd = x.cmd
        BY <1>3, <3>1
      <3>3. w[i].cmd = x.cmd
        BY <3>1, <3>2
      <3>4. QED  BY <3>3 DEF x
    <2>3. QED  BY <1>1, <2>1, <2>2 DEF SameCommands
  <1>6. CASE w = wire
    BY <1>1, <1>6 DEF SameCommands
  <1>7. QED  BY <1>4, <1>5, <1>6

LEMMA StagedCommands ==
    ASSUME IInv, wire # <<>>, NEW s \in {"asked", "given", "refused", "over", "ok", "error"},
           Staged(s)
    PROVE  wire \in Seq(Entry) /\ wire' \in Seq(Entry) /\ SameCommands(wire', wire)
  <1>1. wire \in Seq(Entry) /\ wire' \in Seq(Entry)
    BY StagedWire, RestOfIInv DEF RestOK
  <1> DEFINE x == [wire[1] EXCEPT !.stage = s]
  <1>2. 1 \in 1..Len(wire) /\ wire[1] \in Entry
    BY <1>1
  <1>3. x.cmd = wire[1].cmd
    BY <1>2 DEF Entry
  <1>4. wire' = [wire EXCEPT ![1] = x]
    BY DEF Staged
  <1> HIDE DEF x
  <1>5. QED  BY <1>1, <1>2, <1>3, <1>4 DEF SameCommands

LEMMA PinnedFacts ==
    ASSUME PinnedInv
    PROVE  /\ IInv /\ Pinned(h, wire, file)
           /\ h \in Adapter /\ AtRest(h) /\ wire \in Seq(Entry) /\ file \in SUBSET AllChunks
  BY RestOfIInv DEF PinnedInv, RestOK

LEMMA PrepareCaPinned == PinnedInv /\ PrepareCa => Pinned(h, wire, file)'
  <1> SUFFICES ASSUME PinnedInv, PrepareCa PROVE Pinned(h, wire, file)'
    OBVIOUS
  <1>1. PICK g \in CaSubmit(h, "CA_LIST") : Moves(g)
    BY DEF PrepareCa
  <1>2. wire = <<>> /\ ~h.verified /\ h \in Adapter
    BY PinnedFacts DEF PrepareCa, Restful, Pinned
  <1>3. \/ g.state = "CA_LIST" /\ g.link = "queued" /\ g.verified = h.verified
        \/ Blocks(g, h)
    BY <1>1, <1>2, CaSubmitOutcome DEF Ca
  <1>4. g \in Adapter
    BY <1>1, <1>2, SubmittedAdapter, BlockAdapter DEF CaSubmit, Ca
  <1>5. Pinned(g, wire, file)
    BY <1>2, <1>3, NeverIdle
       DEF Blocks, Pinned, ReadsAlone, Replaces, Compared, Reading, OnlyOf, Ca, Http, Setup
  <1>6. Pinned(h', wire, file)
    BY <1>1, <1>4, <1>5, MovesPinned
  <1>7. UNCHANGED <<wire, file>>
    BY DEF PrepareCa, modem
  <1>8. QED  BY <1>6, <1>7

LEMMA PostPinned == PinnedInv /\ Post => Pinned(h, wire, file)'
  <1> SUFFICES ASSUME PinnedInv, Post PROVE Pinned(h, wire, file)'
    OBVIOUS
  <1>1. h'.state = "PDP_QUERY" /\ h'.verified = h.verified /\ h.verified
    BY PinnedFacts DEF Post, Submitted, Adapter
  <1>2. UNCHANGED <<wire, file>>
    BY DEF Post, modem
  <1>3. QED  BY <1>1, <1>2, PinnedFacts
             DEF Pinned, ReadsAlone, Replaces, Compared, Reading, Ca, Http, Setup

LEMMA CancelPinned == PinnedInv /\ Cancel => Pinned(h, wire, file)'
  <1> SUFFICES ASSUME PinnedInv, Cancel PROVE Pinned(h, wire, file)'
    OBVIOUS
  <1>1. Twin(h', h) /\ UNCHANGED <<wire, file>>
    BY PinnedFacts DEF Cancel, modem, Twin, Adapter
  <1>2. QED  BY <1>1, PinnedFacts, TwinPinned

LEMMA StartCommandPinned == PinnedInv /\ StartCommand => Pinned(h, wire, file)'
  <1> SUFFICES ASSUME PinnedInv, StartCommand PROVE Pinned(h, wire, file)'
    OBVIOUS
  <1> DEFINE x == [cmd |-> h.state, stage |-> "asked"]
             w == Append(wire, x)
  <1>1. /\ h \in Adapter /\ wire \in Seq(Entry) /\ h.link = "queued" /\ h.state # "IDLE"
        /\ Pinned(h, wire, file)
    BY PinnedFacts DEF StartCommand, AtRest
  <1>2. /\ h'.state = h.state /\ h'.link = "sent" /\ h'.verified = h.verified
        /\ h'.match = h.match /\ h'.offset = h.offset
    BY <1>1 DEF StartCommand, Adapter
  <1>3. wire' = w /\ file' = file
    BY DEF StartCommand, modem
  <1>4. /\ Len(w) = Len(wire) + 1 /\ Len(wire) \in Nat /\ w[Len(w)].cmd = h.state
        /\ \A i \in 1..Len(wire) : w[i] = wire[i]
    BY <1>1
  <1> HIDE DEF w
  <1>5. \A i \in 1..Len(w) : (w[i].cmd = h.state /\ i = Len(w)) \/ (i \in 1..Len(wire) /\ w[i] = wire[i])
    BY <1>4
  <1>6. h'.verified => file = AllChunks /\ OnlyOf(w, Http)
    <2>1. h.verified => h.state \in Http
      BY <1>1 DEF Pinned, Adapter
    <2>2. QED  BY <1>1, <1>2, <1>5, <2>1 DEF Pinned, OnlyOf
  <1>7. ReadsAlone(h', w)
    BY <1>1, <1>2, <1>4, <1>5 DEF Pinned, ReadsAlone, OnlyOf
  <1>8. Replaces(h', w)
    BY <1>1, <1>2, <1>4, <1>5 DEF Pinned, Replaces, OnlyOf
  <1>9. QED  BY <1>1, <1>2, <1>3, <1>6, <1>7, <1>8 DEF Pinned, Compared

LEMMA EndsPinned ==
    ASSUME PinnedInv, NEW ok \in BOOLEAN, Ends(ok), NEW w \in Seq(Entry), Pinned(h, w, file),
           ok /\ h.state \in Ca \ {"CA_DELETE"} => w = <<>>
    PROVE  Pinned(h', w, file)
  <1>1. PICK g \in CommandDone(h, ok) : Moves(g)
    BY DEF Ends
  <1>2. g \in Adapter
    BY <1>1, PinnedFacts, CommandDoneAdapter
  <1>3. Pinned(g, w, file)
    BY <1>1, PinnedFacts, DonePinned
  <1>4. QED  BY <1>1, <1>2, <1>3, MovesPinned

LEMMA TimeoutPinned == PinnedInv /\ Timeout => Pinned(h, wire, file)'
  <1> SUFFICES ASSUME PinnedInv, Timeout PROVE Pinned(h, wire, file)'
    OBVIOUS
  <1>1. wire' \in Seq(Entry) /\ SameCommands(wire', wire) /\ wire \in Seq(Entry)
    BY PinnedFacts, MarkedCommands DEF Timeout
  <1>2. Pinned(h, wire', file)
    BY <1>1, PinnedFacts, SamePinned
  <1>3. Pinned(h', wire', file)
    BY <1>1, <1>2, EndsPinned DEF Timeout
  <1>4. QED  BY <1>3 DEF Timeout, modem

LEMMA ShutPinned ==
    ASSUME PinnedInv, NEW g \in Shut, NEW w \in Seq(Entry), Pinned(h, w, file)
    PROVE  Pinned(g, w, file)
  <1>1. CASE g = h
    BY <1>1
  <1>2. CASE g \in CommandDone(h, FALSE)
    BY <1>2, PinnedFacts, DonePinned
  <1>3. QED  BY <1>1, <1>2 DEF Shut

LEMMA QuarantinePinned == PinnedInv /\ Quarantine => Pinned(h, wire, file)'
  <1> SUFFICES ASSUME PinnedInv, Quarantine PROVE Pinned(h, wire, file)'
    OBVIOUS
  <1>1. PICK g \in Shut : Moves(g)
    BY DEF Quarantine
  <1>2. wire' \in Seq(Entry) /\ SameCommands(wire', wire) /\ wire \in Seq(Entry)
    BY PinnedFacts, MarkedCommands DEF Quarantine
  <1>3. Pinned(h, wire', file)
    BY <1>2, PinnedFacts, SamePinned
  <1>4. g \in Adapter /\ Pinned(g, wire', file)
    BY <1>1, <1>2, <1>3, ShutPinned, ShutAdapter, PinnedFacts
  <1>5. Pinned(h', wire', file)
    BY <1>1, <1>4, MovesPinned
  <1>6. QED  BY <1>5 DEF Quarantine, modem

(* A restarted modem starts the check over with nothing on the wire.       *)
LEMMA ResetPinned ==
    ASSUME NEW g \in Adapter, h' = Renewed(g), wire' = <<>>
    PROVE  Pinned(h, wire, file)'
  <1>1. h'.state = "IDLE" /\ ~h'.verified
    <2>1. Cleared(g) \in Adapter
      BY ClearedAdapter
    <2>2. QED  BY <2>1, RenewedAdapter DEF Renewed, Adapter
  <1>2. QED  BY <1>1, NeverIdle DEF Pinned, ReadsAlone, Replaces, Compared, Reading

LEMMA ResetsPinned == PinnedInv /\ (OnModemReset \/ AfterModemReset) => Pinned(h, wire, file)'
  <1>1. CASE PinnedInv /\ OnModemReset
    BY <1>1, PinnedFacts, ShutAdapter, ResetPinned DEF OnModemReset
  <1>2. CASE PinnedInv /\ AfterModemReset
    BY <1>2, PinnedFacts, ResetPinned DEF AfterModemReset
  <1>3. QED  BY <1>1, <1>2

(* An answer that is taken as the success of a check's command ends the    *)
(* last command of the wire.                                               *)
LEMMA ResultLinePinned == PinnedInv /\ ResultLine => Pinned(h, wire, file)'
  <1> SUFFICES ASSUME PinnedInv, ResultLine PROVE Pinned(h, wire, file)'
    OBVIOUS
  <1> DEFINE ok == Head1.stage = "ok"
  <1>1. wire \in Seq(Entry) /\ wire # <<>> /\ Pinned(h, wire, file)
    BY PinnedFacts DEF ResultLine
  <1>2. Tail(wire) \in Seq(Entry) /\ (Len(wire) <= 1 => Tail(wire) = <<>>)
    <2>1. Tail(wire) \in Seq(Entry) /\ Len(wire) \in Nat \ {0} /\ Len(Tail(wire)) = Len(wire) - 1
      BY <1>1
    <2> DEFINE w == Tail(wire)
    <2> HIDE DEF w
    <2>2. w \in Seq(Entry) /\ Len(w) = 0 => w = <<>>
      OBVIOUS
    <2>3. QED  BY <2>1, <2>2 DEF w
  <1>3. Pinned(h, Tail(wire), file)
    BY <1>1, TailPinned
  <1>4. CASE Taken(ok)
    <2>1. Ends(ok)
      BY <1>4 DEF ResultLine
    <2>2. ASSUME ok, h.state \in Ca \ {"CA_DELETE"} PROVE Tail(wire) = <<>>
      <3>1. CASE h.state = "CA_UPLOAD"
        <4>1. h.link = "given"
          BY <1>4, <2>2, <3>1 DEF Taken, PayloadCommand
        <4>2. QED  BY <1>1, <1>2, <3>1, <4>1 DEF Pinned, Replaces
      <3>2. CASE h.state \in Reading
        BY <1>1, <1>2, <3>2 DEF Pinned, ReadsAlone
      <3>3. QED  BY <2>2, <3>1, <3>2 DEF Ca, Reading
    <2> HIDE DEF ok
    <2>3. ok \in BOOLEAN
      BY DEF ok
    <2>4. Pinned(h', Tail(wire), file)
      BY <1>2, <1>3, <2>1, <2>2, <2>3, EndsPinned
    <2>5. QED  BY <2>4 DEF ResultLine, modem
  <1>5. CASE ~Taken(ok)
    <2>1. h' = h /\ wire' = Tail(wire) /\ file' = file
      BY <1>5 DEF ResultLine, modem
    <2>2. QED  BY <1>3, <2>1
  <1>6. QED  BY <1>4, <1>5

LEMMA LostPinned == PinnedInv /\ Lost => Pinned(h, wire, file)'
  <1> SUFFICES ASSUME PinnedInv, Lost PROVE Pinned(h, wire, file)'
    OBVIOUS
  <1>1. Pinned(h, Tail(wire), file)
    BY PinnedFacts, TailPinned DEF Lost
  <1>2. QED  BY <1>1 DEF Lost, modem

(* The prompt for the payload of an upload comes when the listings and     *)
(* deletions before it are worked off.                                     *)
LEMMA PromptsPinned == PinnedInv /\ Prompts => Pinned(h, wire, file)'
  <1> SUFFICES ASSUME PinnedInv, Prompts PROVE Pinned(h, wire, file)'
    OBVIOUS
  <1>1. /\ wire \in Seq(Entry) /\ wire # <<>> /\ wire[1].cmd \in PayloadCommand
        /\ Pinned(h, wire, file) /\ h \in Adapter
    BY PinnedFacts DEF Prompts, Head1
  <1>2. wire' \in Seq(Entry) /\ SameCommands(wire', wire) /\ UNCHANGED file
    BY PinnedFacts, StagedCommands DEF Prompts, modem
  <1>3. CASE h' = h
    BY <1>1, <1>2, <1>3, SamePinned
  <1>4. CASE h.link = "sent" /\ h' = [h EXCEPT !.link = "given"] /\ h.state \in PayloadCommand
    <2>1. /\ h'.state = h.state /\ h'.link = "given" /\ h'.verified = h.verified
          /\ h'.blocked = h.blocked /\ h'.match = h.match /\ h'.offset = h.offset
      BY <1>1, <1>4 DEF Adapter
    <2>2. h.state = "CA_UPLOAD" => Len(wire) <= 1
      <3>1. 1 \in 1..Len(wire)
        BY <1>1
      <3>2. QED  BY <1>1, <3>1 DEF Pinned, Replaces, PayloadCommand
    <2>3. Replaces(h', wire)
      BY <1>1, <2>1, <2>2 DEF Pinned, Replaces
    <2>4. ReadsAlone(h', wire)
      BY <1>4, <2>1 DEF ReadsAlone, Reading, PayloadCommand
    <2>5. Pinned(h', wire, file)
      BY <1>1, <2>1, <2>3, <2>4 DEF Pinned, Compared
    <2>6. QED  BY <1>1, <1>2, <2>5, SamePinned
  <1>5. QED  BY <1>3, <1>4 DEF Prompts

(* What the modem does with the file while it replaces it is nobody's      *)
(* verdict yet.                                                            *)
LEMMA ReplacingPinned ==
    ASSUME NEW g, NEW w \in Seq(Entry), w # <<>>, w[1].cmd \in {"CA_DELETE", "CA_UPLOAD"},
           NEW x, NEW y, Pinned(g, w, x)
    PROVE  Pinned(g, w, y)
  <1>1. 1 \in 1..Len(w)
    OBVIOUS
  <1>2. ~g.verified
    BY <1>1 DEF Pinned, OnlyOf, Http, Setup
  <1>3. g.state \notin {"CA_READ", "CA_CLOSE"}
    BY <1>1 DEF Pinned, ReadsAlone, Reading, OnlyOf
  <1>4. QED  BY <1>2, <1>3 DEF Pinned, Compared

LEMMA RefusesPinned == PinnedInv /\ Refuses => Pinned(h, wire, file)'
  <1> SUFFICES ASSUME PinnedInv, Refuses PROVE Pinned(h, wire, file)'
    OBVIOUS
  <1>1. /\ wire \in Seq(Entry) /\ wire' \in Seq(Entry) /\ SameCommands(wire', wire)
        /\ Pinned(h, wire, file) /\ wire # <<>> /\ h' = h
    BY PinnedFacts, StagedCommands DEF Refuses
  <1>2. Pinned(h, wire, file')
    <2>1. CASE wire[1].cmd = "CA_UPLOAD"
      BY <1>1, <2>1, ReplacingPinned
    <2>2. CASE wire[1].cmd # "CA_UPLOAD"
      BY <1>1, <2>2 DEF Refuses, Head1
    <2>3. QED  BY <2>1, <2>2
  <1>3. QED  BY <1>1, <1>2, SamePinned

LEMMA ObeysPinned == PinnedInv /\ Obeys => Pinned(h, wire, file)'
  <1> SUFFICES ASSUME PinnedInv, Obeys PROVE Pinned(h, wire, file)'
    OBVIOUS
  <1>1. /\ wire \in Seq(Entry) /\ wire' \in Seq(Entry) /\ SameCommands(wire', wire)
        /\ Pinned(h, wire, file) /\ wire # <<>> /\ h \in Adapter
    BY PinnedFacts, StagedCommands DEF Obeys, Ready
  <1>2. SUFFICES Pinned(h', wire, file')
    BY <1>1, SamePinned
  <1>3. ASSUME Twin(h', h), UNCHANGED file PROVE Pinned(h', wire, file')
    BY <1>1, <1>3, TwinPinned
  <1>4. ASSUME NEW s, NEW g, Twin(g, h), Event(s, g), UNCHANGED file
        PROVE  Pinned(h', wire, file')
    BY <1>3, <1>4 DEF Event, Twin
  <1>5. CASE UNCHANGED <<h, file>>
    BY <1>3, <1>5 DEF Twin
  <1>6. CASE UNCHANGED file /\ \E active : Event("PDP_QUERY", [h EXCEPT !.pdp_active = active])
    BY <1>1, <1>4, <1>6 DEF Twin, Adapter
  <1>7. CASE UNCHANGED file /\ \E body : Event("READ", [h EXCEPT !.body = body])
    BY <1>1, <1>4, <1>7 DEF Twin, Adapter
  <1>8. CASE UNCHANGED file /\ Event("CA_OPEN", [h EXCEPT !.handle = TRUE])
    BY <1>1, <1>4, <1>8 DEF Twin, Adapter
  <1>9. CASE UNCHANGED file /\ \E same : Event("CA_LIST", [h EXCEPT !.match = same])
    <2>1. PICK same : h' = IF h.state = "CA_LIST" THEN [h EXCEPT !.match = same] ELSE h
      BY <1>9 DEF Event
    <2>2. CASE h.state # "CA_LIST"
      BY <1>3, <1>9, <2>1, <2>2 DEF Twin
    <2>3. CASE h.state = "CA_LIST"
      <3>1. /\ h'.state = h.state /\ h'.link = h.link /\ h'.verified = h.verified
            /\ h'.blocked = h.blocked
        BY <1>1, <2>1, <2>3 DEF Adapter
      <3>2. QED  BY <1>1, <1>9, <2>3, <3>1 DEF Pinned, ReadsAlone, Replaces, Compared, Reading
    <2>4. QED  BY <2>2, <2>3
  <1>10. CASE /\ UNCHANGED file
              /\ \E clean \in BOOLEAN :
                    Event("CA_READ", [h EXCEPT !.match = @ /\ clean /\ h.offset + 1 \in file,
                                               !.offset = IF @ < Chunks THEN @ + 1 ELSE @])
    <2>1. PICK clean \in BOOLEAN :
              Event("CA_READ", [h EXCEPT !.match = @ /\ clean /\ h.offset + 1 \in file,
                                         !.offset = IF @ < Chunks THEN @ + 1 ELSE @])
      BY <1>10
    <2> DEFINE m == h.match /\ clean /\ h.offset + 1 \in file
               o == IF h.offset < Chunks THEN h.offset + 1 ELSE h.offset
               g == [h EXCEPT !.match = m, !.offset = o]
    <2>2. h' = IF h.state = "CA_READ" THEN g ELSE h
      BY <2>1 DEF Event
    <2>3. /\ g.state = h.state /\ g.link = h.link /\ g.verified = h.verified
          /\ g.blocked = h.blocked /\ g.match = m /\ g.offset = o
      BY <1>1 DEF Adapter
    <2>4. CASE h.state # "CA_READ"
      BY <1>3, <1>10, <2>2, <2>4 DEF Twin
    <2>5. CASE h.state = "CA_READ"
      <3>1. Compared(g, file)
        <4>1. m /\ h.offset \in Nat => h.match /\ h.offset + 1 \in file /\ o \in {h.offset, h.offset + 1}
          OBVIOUS
        <4>2. h.offset \in Nat
          BY <1>1 DEF Adapter
        <4>3. h.match => 1..h.offset \subseteq file
          BY <1>1, <2>5 DEF Pinned, Compared
        <4> HIDE DEF m, o, g
        <4>4. m => 1..o \subseteq file
          BY <4>1, <4>2, <4>3
        <4>5. QED  BY <2>3, <4>4 DEF Compared
      <3> HIDE DEF g
      <3>2. Pinned(g, wire, file)
        BY <1>1, <2>3, <2>5, <3>1 DEF Pinned, ReadsAlone, Replaces, Reading
      <3>3. QED  BY <1>10, <2>2, <2>5, <3>2
    <2>6. QED  BY <2>4, <2>5
  <1>11. CASE wire[1].cmd \in {"CA_DELETE", "CA_UPLOAD"} /\ UNCHANGED h
    BY <1>1, <1>11, ReplacingPinned
  <1>12. QED
    BY <1>5, <1>6, <1>7, <1>8, <1>9, <1>10, <1>11 DEF Obeys, Quietly, modem, Head1

(* The +QHTTP answers end commands of a request.                           *)
LEMMA UrcPinned ==
    ASSUME PinnedInv, NEW g0 \in Adapter, Twin(g0, h), h.state \in Http, NEW ok \in BOOLEAN,
           NEW g \in CommandDone(g0, ok), Moves(g), UNCHANGED <<wire, file>>
    PROVE  Pinned(h, wire, file)'
  <1>1. Pinned(g0, wire, file) /\ wire \in Seq(Entry) /\ file \in SUBSET AllChunks
    BY PinnedFacts, TwinPinned
  <1>2. g0.state \notin Ca
    BY NeverIdle DEF Twin
  <1>3. g \in Adapter /\ Pinned(g, wire, file)
    BY <1>1, <1>2, DonePinned, CommandDoneAdapter
  <1>4. QED  BY <1>3, MovesPinned

LEMMA PostedPinned == PinnedInv /\ Posted => Pinned(h, wire, file)'
  <1> SUFFICES ASSUME PinnedInv, Posted PROVE Pinned(h, wire, file)'
    OBVIOUS
  <1>1. PICK ok \in BOOLEAN, fits \in BOOLEAN :
          IF h.state = "POST" /\ OnWire
          THEN UrcEnds(IF ok THEN [h EXCEPT !.status = session.answer, !.fits = fits] ELSE h, ok)
          ELSE UNCHANGED <<e, h, gate, trial>>
    BY DEF Posted
  <1>2. UNCHANGED <<wire, file>>
    BY DEF Posted
  <1>3. CASE h.state = "POST" /\ OnWire
    <2> DEFINE g0 == IF ok THEN [h EXCEPT !.status = session.answer, !.fits = fits] ELSE h
    <2>1. g0 \in Adapter /\ Twin(g0, h)
      <3>1. session.answer \in Answer \cup {"none"} /\ h \in Adapter
        BY PinnedFacts, RestOfIInv DEF RestOK, Session
      <3>2. [h EXCEPT !.status = session.answer, !.fits = fits] \in Adapter
        BY <3>1 DEF Adapter
      <3>3. QED  BY <3>1, <3>2 DEF Adapter, Twin
    <2>2. \E f \in CommandDone(g0, ok) : Moves(f)
      BY <1>1, <1>3 DEF UrcEnds
    <2> HIDE DEF g0
    <2>3. QED  BY <1>2, <1>3, <2>1, <2>2, UrcPinned DEF Http
  <1>4. CASE ~(h.state = "POST" /\ OnWire)
    BY <1>1, <1>2, <1>4, PinnedFacts
  <1>5. QED  BY <1>3, <1>4

LEMMA ReadDonePinned == PinnedInv /\ ReadDone => Pinned(h, wire, file)'
  <1> SUFFICES ASSUME PinnedInv, ReadDone PROVE Pinned(h, wire, file)'
    OBVIOUS
  <1>1. PICK ok \in BOOLEAN :
          IF h.state = "READ" /\ OnWire THEN UrcEnds(h, ok) ELSE UNCHANGED <<e, h, gate, trial>>
    BY DEF ReadDone
  <1>2. UNCHANGED <<wire, file>>
    BY DEF ReadDone
  <1>3. CASE h.state = "READ" /\ OnWire
    <2>1. \E f \in CommandDone(h, ok) : Moves(f)
      BY <1>1, <1>3 DEF UrcEnds
    <2>2. Twin(h, h) /\ h \in Adapter /\ h.state \in Http
      BY <1>3, PinnedFacts DEF Twin, Http
    <2>3. QED  BY <1>2, <2>1, <2>2, UrcPinned
  <1>4. CASE ~(h.state = "READ" /\ OnWire)
    BY <1>1, <1>2, <1>4, PinnedFacts
  <1>5. QED  BY <1>3, <1>4

LEMMA StepPinned == PinnedInv /\ [Next]_vars => PinnedInv'
  <1> SUFFICES ASSUME PinnedInv, [Next]_vars PROVE Pinned(h, wire, file)'
    BY StepIInv DEF PinnedInv
  <1>1. CASE UNCHANGED <<h, wire, file>>
    BY <1>1, PinnedFacts
  <1>2. CASE UNCHANGED vars \/ PollTrial \/ TrialEnds \/ ServerDecides
    BY <1>1, <1>2 DEF vars, modem, PollTrial, TrialEnds, ServerDecides
  <1>3. CASE PrepareCa \/ Post \/ Cancel
    BY <1>3, PrepareCaPinned, PostPinned, CancelPinned
  <1>4. CASE StartCommand \/ Timeout
    BY <1>4, StartCommandPinned, TimeoutPinned
  <1>5. CASE Modem
    BY <1>5, PromptsPinned, RefusesPinned, ObeysPinned, ResultLinePinned, LostPinned,
       PostedPinned, ReadDonePinned DEF Modem
  <1>6. CASE Quarantine \/ OnModemReset \/ AfterModemReset
    BY <1>6, QuarantinePinned, ResetsPinned
  <1>7. QED  BY <1>2, <1>3, <1>4, <1>5, <1>6 DEF Next, Poll

LEMMA InitPinned == Init => PinnedInv
  <1> SUFFICES ASSUME Init PROVE Pinned(h, wire, file)
    BY InitIInv DEF PinnedInv
  <1>1. h.state = "IDLE" /\ ~h.verified /\ wire = <<>>
    BY DEF Init
  <1>2. QED  BY <1>1, NeverIdle DEF Pinned, ReadsAlone, Replaces, Compared, Reading

(* No request is made before the CA file in the modem holds exactly the    *)
(* pinned certificate (ca_done, Ready), whatever the length of the         *)
(* certificate, and however many of the commands that list, read, delete   *)
(* and upload it the modem still has to answer.                            *)
THEOREM OnlyPinnedCaIsTrusted == Spec => []TrustsPinnedCa
  <1>1. PinnedInv => TrustsPinnedCa
    BY DEF PinnedInv, Pinned, TrustsPinnedCa
  <1>2. QED  BY <1>1, InitPinned, StepPinned, PTL DEF Spec

-----------------------------------------------------------------------------
(* The HTTP session.  A POST that nobody waits for any more is dangerous   *)
(* while it may still be prompted: the modem would take the payload of     *)
(* another command for its own and open a session behind the adapter's     *)
(* back.  What keeps it harmless is its age: the commands of a request     *)
(* that lead to the next payload are all behind it, so that it is worked   *)
(* off, or the modem owes too many answers, before a payload is sent.      *)
Written(g) == IF g.link \in {"sent", "given"} THEN 1 ELSE 0

(* Commands the adapter has sent at least since it last waited for a POST. *)
Sends(g) ==
    CASE g.state = "IDLE" -> 1
      [] g.state \in {"PDP_QUERY", "PDP_ACTIVATE"} -> 1 + Written(g)
      [] g.state = "SETTING" -> 1 + g.settings + Written(g)
      [] g.state = "URL" -> 2 + Settings + Written(g)
      [] g.state \in {"POST", "READ"} -> 3 + Settings
      [] OTHER -> Written(g)

(* The POST that the adapter waits for.                                    *)
OwnPost(g, w, i) ==
    /\ g.state = "POST" /\ g.link \in {"sent", "given"} /\ i = Len(w)
    /\ w[i].stage # "asked" => i = 1 /\ g.link = "given"

(* Any other that may still be obeyed has not been prompted, and is old.   *)
Aged(g, w) ==
    \A i \in 1..Len(w) :
        w[i].cmd = "POST" /\ w[i].stage \in {"asked", "given", "ok"} =>
            OwnPost(g, w, i) \/ (w[i].stage = "asked" /\ Len(w) - i >= Sends(g))

(* No command but a QHTTPSTOP will still be obeyed.                        *)
Quiet(w) == \A i \in 1..Len(w) : w[i].cmd = "STOP" \/ w[i].stage \in {"over", "refused", "error"}

(* An open session is the one the adapter works on.                        *)
Accounted(g, w, s) ==
    s.stage # "closed" =>
        \/ /\ g.state = "POST" /\ g.link = "given" /\ s.stage = "posting"
           /\ w = <<>> \/ (Len(w) = 1 /\ w[1].cmd = "POST" /\ w[1].stage = "ok")
        \/ g.state = "READ" /\ s.stage # "posting"
        \/ g.state = "STOP" /\ Quiet(w)

(* A QHTTPSTOP that was obeyed has closed the session.                     *)
Stopped(w, s) ==
    \A i \in 1..Len(w) : w[i].cmd = "STOP" /\ w[i].stage = "ok" => i = 1 /\ s.stage = "closed"

(* QHTTPREAD runs alone.                                                   *)
ReadsOwn(g, w) ==
    g.state = "READ" => \/ w = <<>>
                        \/ /\ g.link \in {"sent", "given"} /\ Len(w) = 1
                           /\ w[1].cmd = "READ" /\ w[1].stage # "over"

(* Nothing of a request is left in the modem.                              *)
Clean(w, s) == s.stage = "closed" /\ \A i \in 1..Len(w) : w[i].cmd \notin Http

Sound(g, w, s) ==
    /\ Aged(g, w) /\ Accounted(g, w, s) /\ Stopped(w, s) /\ ReadsOwn(g, w)

SoundUnlessBlocked(g, w, s) == /\ ~g.verified => Clean(w, s)
                               /\ g.blocked \/ Sound(g, w, s)

SessionInv == PinnedInv /\ SoundUnlessBlocked(h, wire, session)

LEMMA CleanSound ==
    ASSUME NEW g, NEW w, NEW s, Clean(w, s), g.state # "READ"
    PROVE  Sound(g, w, s)
  BY DEF Clean, Sound, Aged, Accounted, Stopped, ReadsOwn, Http

(* Adapters that the session cannot tell apart.                            *)
Pose(x, g) == /\ x.state = g.state /\ x.link = g.link
              /\ x.state = "SETTING" => x.settings = g.settings

LEMMA PoseSound ==
    ASSUME NEW g, NEW x, NEW w, NEW s, Pose(x, g), Sound(g, w, s)
    PROVE  Sound(x, w, s)
  <1>1. Sends(x) = Sends(g)
    BY DEF Pose, Sends, Written
  <1>2. \A i : OwnPost(g, w, i) => OwnPost(x, w, i)
    BY DEF Pose, OwnPost
  <1>3. Aged(x, w)
    BY <1>1, <1>2 DEF Sound, Aged
  <1>4. Accounted(x, w, s) /\ ReadsOwn(x, w)
    BY DEF Pose, Sound, Accounted, ReadsOwn
  <1>5. QED  BY <1>3, <1>4 DEF Sound

(* How far the adapter is.                                                 *)
LEMMA SendsFacts ==
    ASSUME NEW g \in Adapter
    PROVE  /\ Sends(g) \in Nat
           /\ g.state = "IDLE" => Sends(g) = 1
           /\ g.state \in Setup => Sends(g) >= 1
           /\ g.state = "STOP" /\ g.link = "queued" => Sends(g) = 0
           /\ g.state = "STOP" /\ g.link \in {"sent", "given"} => Sends(g) = 1
           /\ g.state \in {"POST", "READ"} => Sends(g) = Settings + 3
           /\ g.state = "URL" /\ g.link \in {"sent", "given"} => Sends(g) = Settings + 3
  <1> USE EnrollmentAssumption
  <1>1. Written(g) \in Nat /\ (g.link \in {"sent", "given"} => Written(g) = 1)
        /\ (g.link = "queued" => Written(g) = 0)
    BY DEF Written
  <1>2. g.settings \in Nat
    BY DEF Adapter
  <1> HIDE DEF Written
  <1>3. QED  BY <1>1, <1>2 DEF Sends, Setup

-----------------------------------------------------------------------------
(* Where the answer to a command of a request takes the adapter.           *)
Onward(f, g, ok) ==
    \/ g.state \in {"PDP_QUERY", "PDP_ACTIVATE"} /\ f.state = "PDP_ACTIVATE"
    \/ g.state \in {"PDP_QUERY", "PDP_ACTIVATE"} /\ f.state = "SETTING" /\ f.settings = 1
    \/ g.state = "SETTING" /\ f.state = "SETTING" /\ f.settings = g.settings + 1
    \/ g.state = "SETTING" /\ f.state = "URL" /\ g.settings = Settings
    \/ ok /\ g.state = "URL" /\ f.state = "POST"
    \/ ok /\ g.state = "POST" /\ f.state = "READ"
    \/ f.state = "STOP"
Leads(f, g, ok) ==
    /\ g.blocked => f.blocked
    /\ \/ f.blocked
       \/ f.state = "IDLE" /\ (g.state \in Setup \/ (ok /\ g.state \in {"READ", "STOP"}))
       \/ f.link = "queued" /\ Onward(f, g, ok)

LEMMA FinishBlocked ==
    ASSUME NEW g \in Adapter, NEW clean \in BOOLEAN, NEW f \in Finish(g, clean)
    PROVE  f.blocked <=> g.blocked \/ ~clean
  <1> DEFINE b == g.blocked \/ ~clean
             a == [g EXCEPT !.state = "IDLE"]
  <1>1. f = [a EXCEPT !.blocked = b]
    BY DEF Finish
  <1>2. a \in Adapter
    BY DEF Adapter
  <1> HIDE DEF a, b
  <1>3. f.blocked = b
    BY <1>1, <1>2 DEF Adapter
  <1>4. QED  BY <1>3 DEF b

LEMMA StopHttpLeads ==
    ASSUME NEW g \in Adapter, NEW f \in StopHttp(g)
    PROVE  /\ g.blocked => f.blocked
           /\ \/ f.blocked
              \/ g.state \in Setup /\ f.state = "IDLE"
              \/ f.state = "STOP" /\ f.link = "queued"
  <1>1. CASE f \in Submitted(g, "STOP")
    BY <1>1 DEF Submitted, Adapter
  <1>2. CASE f \in Finish(g, FALSE)
    BY <1>2, FinishBlocked
  <1>3. CASE g.state \in Setup /\ f \in Finish(g, TRUE)
    BY <1>3, FinishAdapter, FinishBlocked
  <1>4. QED  BY <1>1, <1>2, <1>3 DEF StopHttp

LEMMA IssueLeads ==
    ASSUME NEW g \in Adapter, NEW s \in Http, NEW f \in Issue(g, s)
    PROVE  /\ g.blocked => f.blocked
           /\ \/ f.blocked
              \/ s \in Setup /\ f.state = "IDLE"
              \/ f.state = "STOP" /\ f.link = "queued"
              \/ f.state = s /\ f.link = "queued" /\ f.settings = g.settings
  <1> DEFINE g2 == [g EXCEPT !.state = s]
  <1>1. g2 \in Adapter /\ g2.state = s /\ g2.blocked = g.blocked
    BY DEF Adapter
  <1>2. CASE f \in Submitted(g, s)
    BY <1>2 DEF Submitted, Adapter
  <1>3. CASE f \in StopHttp(g2)
    BY <1>1, <1>3, StopHttpLeads
  <1>4. QED  BY <1>2, <1>3 DEF Issue

LEMMA SucceededLeads ==
    ASSUME NEW g \in Adapter, NEW sent \in BOOLEAN, g.state \in Http \ {"STOP"},
           NEW f \in Succeeded(g, sent)
    PROVE  Leads(f, g, TRUE)
  <1> USE EnrollmentAssumption DEF Leads, Onward
  <1>s. /\ {"PDP_QUERY", "PDP_ACTIVATE", "SETTING"} = Setup
        /\ {"PDP_QUERY", "PDP_ACTIVATE", "SETTING", "URL", "POST", "READ", "STOP"} = Http
    BY DEF Setup, Http
  <1>1. CASE g.state \in {"PDP_QUERY", "PDP_ACTIVATE"}
    <2> DEFINE g2 == [g EXCEPT !.settings = 1]
    <2>1. g2 \in Adapter /\ g2.settings = 1 /\ g2.blocked = g.blocked
      BY DEF Adapter
    <2>2. f \in Issue(g2, "SETTING") \/ f \in Issue(g, "PDP_ACTIVATE")
      BY <1>1 DEF Succeeded
    <2> HIDE DEF g2
    <2>3. CASE f \in Issue(g2, "SETTING")
      BY <1>s, <1>1, <2>1, <2>3, IssueLeads
    <2>4. CASE f \in Issue(g, "PDP_ACTIVATE")
      BY <1>s, <1>1, <2>4, IssueLeads
    <2>5. QED  BY <2>2, <2>3, <2>4
  <1>2. CASE g.state = "SETTING"
    <2> DEFINE g2 == [g EXCEPT !.settings = @ + 1]
    <2>1. g.settings < Settings =>
              g2 \in Adapter /\ g2.settings = g.settings + 1 /\ g2.blocked = g.blocked
      BY DEF Adapter
    <2>2. \/ g.settings < Settings /\ f \in Issue(g2, "SETTING")
          \/ ~(g.settings < Settings) /\ f \in Issue(g, "URL")
      BY <1>2 DEF Succeeded
    <2>3. ~(g.settings < Settings) => g.settings = Settings
      BY DEF Adapter
    <2> HIDE DEF g2
    <2>4. CASE g.settings < Settings /\ f \in Issue(g2, "SETTING")
      BY <1>s, <1>2, <2>1, <2>4, IssueLeads
    <2>5. CASE ~(g.settings < Settings) /\ f \in Issue(g, "URL")
      <3>1. "URL" \in Http /\ "URL" \notin Setup
        BY DEF Http, Setup
      <3>2. /\ g.blocked => f.blocked
            /\ \/ f.blocked
               \/ f.state = "STOP" /\ f.link = "queued"
               \/ f.state = "URL" /\ f.link = "queued"
        BY <2>5, <3>1, IssueLeads
      <3>3. QED  BY <1>2, <2>3, <2>5, <3>2
    <2>6. QED  BY <2>2, <2>4, <2>5
  <1>3. CASE g.state \in {"URL", "POST"}
    <2>1. \/ g.state = "URL" /\ f \in Issue(g, "POST")
          \/ g.state = "POST" /\ f \in Issue(g, "READ")
          \/ f \in StopHttp(g)
      BY <1>3 DEF Succeeded
    <2>2. /\ "POST" \in Http /\ "POST" \notin Setup /\ "READ" \in Http /\ "READ" \notin Setup
          /\ g.state \notin Setup
      BY <1>3 DEF Http, Setup
    <2>3. CASE g.state = "URL" /\ f \in Issue(g, "POST")
      BY <2>2, <2>3, IssueLeads
    <2>4. CASE g.state = "POST" /\ f \in Issue(g, "READ")
      BY <2>2, <2>4, IssueLeads
    <2>5. CASE f \in StopHttp(g)
      BY <2>2, <2>5, StopHttpLeads
    <2>6. QED  BY <2>1, <2>3, <2>4, <2>5
  <1>4. CASE g.state = "READ"
    <2> DEFINE o == g.overflow \/ g.body \in {"none", "part"}
               g2 == [g EXCEPT !.overflow = o]
    <2>1. o \in BOOLEAN
      OBVIOUS
    <2>2. f \in Finish(g2, TRUE)
      BY <1>4 DEF Succeeded
    <2> HIDE DEF o
    <2>3. g2 \in Adapter /\ g2.blocked = g.blocked
      BY <2>1 DEF Adapter
    <2> HIDE DEF g2
    <2>4. f.state = "IDLE" /\ (f.blocked <=> g2.blocked)
      BY <2>2, <2>3, FinishAdapter, FinishBlocked
    <2>5. QED  BY <1>4, <2>3, <2>4
  <1>5. QED  BY <1>1, <1>2, <1>3, <1>4 DEF Http, Setup

LEMMA HttpLeads ==
    ASSUME NEW g \in Adapter, g.state \in Http, NEW ok \in BOOLEAN, NEW f \in CommandDone(g, ok)
    PROVE  f \in Adapter /\ f.verified = g.verified /\ Leads(f, g, ok)
  <1> DEFINE g2 == [g EXCEPT !.link = "none"]
  <1>0. f \in Adapter /\ f.verified = g.verified
    BY CommandDoneAdapter, HttpVerdict
  <1>1. /\ g2 \in Adapter /\ g2.state = g.state /\ g2.settings = g.settings
        /\ g2.blocked = g.blocked
    BY DEF Adapter
  <1>2. CASE g.state = "STOP"
    <2>1. f \in Finish(g2, ok)
      BY <1>1, <1>2 DEF CommandDone, Ca
    <2> HIDE DEF g2
    <2>2. f.state = "IDLE"
      BY <1>1, <2>1, FinishAdapter
    <2>3. f.blocked <=> g2.blocked \/ ~ok
      BY <1>1, <2>1, FinishBlocked
    <2>4. QED  BY <1>0, <1>1, <1>2, <2>2, <2>3 DEF Leads
  <1>3. CASE g.state # "STOP"
    <2>1. f \in StopHttp(g2) \/ (ok /\ f \in Succeeded(g2, g.link = "given"))
      BY <1>1, <1>3 DEF CommandDone, Http, Setup, Ca
    <2> HIDE DEF g2
    <2>2. CASE f \in StopHttp(g2)
      BY <1>0, <1>1, <2>2, StopHttpLeads DEF Leads, Onward
    <2>3. CASE ok /\ f \in Succeeded(g2, g.link = "given")
      <3>1. Leads(f, g2, TRUE)
        BY <1>1, <1>3, <2>3, SucceededLeads
      <3>2. QED  BY <1>0, <1>1, <2>3, <3>1 DEF Leads, Onward
    <2>4. QED  BY <2>1, <2>2, <2>3
  <1>4. QED  BY <1>2, <1>3

(* None of this makes up for the age of a POST.                            *)
LEMMA LeadsSends ==
    ASSUME NEW g \in Adapter, NEW f \in Adapter, NEW ok \in BOOLEAN, Leads(f, g, ok),
           ~f.blocked, g.link \in {"sent", "given"}
    PROVE  \/ f.state = "STOP" /\ Sends(f) = 0
           \/ g.state \notin {"POST", "READ"} /\ Sends(f) <= Sends(g)
           \/ ok /\ g.state \in {"POST", "READ"}
  <1> USE EnrollmentAssumption
  <1>1. /\ Written(g) = 1 /\ (f.link = "queued" => Written(f) = 0)
        /\ f.settings \in Nat /\ g.settings \in Nat
    BY DEF Written, Adapter
  <1>2. CASE f.state = "IDLE" /\ (g.state \in Setup \/ (ok /\ g.state \in {"READ", "STOP"}))
    <2>1. g.state \in Setup => g.state \notin {"POST", "READ"}
      BY DEF Setup
    <2>2. QED  BY <1>2, <2>1, SendsFacts
  <1>3. CASE f.link = "queued" /\ Onward(f, g, ok)
    <2> HIDE DEF Written
    <2>1. QED  BY <1>1, <1>3 DEF Onward, Sends
  <1>4. QED  BY <1>2, <1>3 DEF Leads

(* Where a command has ended: what its answer leaves on the wire and of    *)
(* the session is what the next one may find.                              *)
Ended(g, ok, w, s) ==
    /\ \A i \in 1..Len(w) :
          w[i].cmd = "POST" /\ w[i].stage \in {"asked", "given", "ok"} =>
              w[i].stage = "asked" /\ (g.state \in {"POST", "READ"} \/ Len(w) - i >= Sends(g))
    /\ ok /\ g.state \in {"POST", "READ"} => w = <<>>
    /\ s.stage # "closed" =>
          /\ Quiet(w)
          /\ \/ ~ok /\ g.state \in {"POST", "READ", "STOP"}
             \/ ok /\ g.state = "POST" /\ s.stage = "posted"
    /\ Stopped(w, s)

LEMMA LeadsSound ==
    ASSUME NEW g \in Adapter, NEW f \in Adapter, NEW ok \in BOOLEAN, Leads(f, g, ok),
           ~f.blocked, g.link \in {"sent", "given"}, g.state \in Http,
           NEW w \in Seq(Entry), NEW s, Ended(g, ok, w, s)
    PROVE  Sound(f, w, s)
  <1>1. Aged(f, w)
    <2> SUFFICES ASSUME NEW i \in 1..Len(w), w[i].cmd = "POST",
                        w[i].stage \in {"asked", "given", "ok"}
                 PROVE  w[i].stage = "asked" /\ Len(w) - i >= Sends(f)
      BY DEF Aged
    <2>1. w # <<>> /\ Len(w) \in Nat /\ i \in Nat /\ i <= Len(w)
      OBVIOUS
    <2>2. ~(ok /\ g.state \in {"POST", "READ"})
      BY <2>1 DEF Ended
    <2>3. w[i].stage = "asked" /\ (g.state \in {"POST", "READ"} \/ Len(w) - i >= Sends(g))
      BY DEF Ended
    <2>4. Sends(f) \in Nat /\ Sends(g) \in Nat
      BY SendsFacts
    <2>5. \/ Sends(f) = 0
          \/ g.state \notin {"POST", "READ"} /\ Sends(f) <= Sends(g)
      BY <2>2, LeadsSends
    <2>6. QED  BY <2>1, <2>3, <2>4, <2>5
  <1>2. Accounted(f, w, s)
    <2> SUFFICES ASSUME s.stage # "closed"
                 PROVE  \/ f.state = "READ" /\ s.stage # "posting"
                        \/ f.state = "STOP" /\ Quiet(w)
      BY DEF Accounted
    <2>1. /\ Quiet(w)
          /\ \/ ~ok /\ g.state \in {"POST", "READ", "STOP"}
             \/ ok /\ g.state = "POST" /\ s.stage = "posted"
      BY DEF Ended
    <2>2. g.state \notin Setup
      BY <2>1 DEF Setup
    <2>3. QED  BY <2>1, <2>2 DEF Leads, Onward
  <1>3. ReadsOwn(f, w)
    <2> SUFFICES ASSUME f.state = "READ" PROVE w = <<>>
      BY DEF ReadsOwn
    <2>1. ok /\ g.state = "POST"
      BY DEF Leads, Onward
    <2>2. QED  BY <2>1 DEF Ended
  <1>4. QED  BY <1>1, <1>2, <1>3 DEF Sound, Ended

LEMMA MovesSound ==
    ASSUME NEW f \in Adapter, Moves(f), NEW w, NEW s, SoundUnlessBlocked(f, w, s)
    PROVE  SoundUnlessBlocked(h', w, s)
  <1>1. CASE f.state = "IDLE"
    <2>1. h' = Cleared(f) /\ Cleared(f).link = f.link
      BY <1>1, ClearedAdapter DEF Moves
    <2>2. /\ h'.state = f.state /\ h'.blocked = f.blocked /\ h'.verified = f.verified
          /\ h'.link = f.link
      BY <2>1, ClearedVerdict
    <2>3. CASE f.blocked
      BY <2>2, <2>3 DEF SoundUnlessBlocked
    <2>4. CASE Sound(f, w, s)
      <3>1. Pose(h', f)
        BY <1>1, <2>2 DEF Pose
      <3>2. QED  BY <2>2, <2>4, <3>1, PoseSound DEF SoundUnlessBlocked
    <2>5. QED  BY <2>3, <2>4 DEF SoundUnlessBlocked
  <1>2. CASE f.state # "IDLE"
    BY <1>2 DEF Moves
  <1>3. QED  BY <1>1, <1>2

LEMMA DoneSound ==
    ASSUME NEW g \in Adapter, g.state \in Http, g.link \in {"sent", "given"}, g.verified,
           NEW ok \in BOOLEAN, NEW f \in CommandDone(g, ok), Moves(f),
           NEW w \in Seq(Entry), NEW s, g.blocked \/ Ended(g, ok, w, s)
    PROVE  SoundUnlessBlocked(h', w, s)
  <1>1. f \in Adapter /\ f.verified /\ Leads(f, g, ok)
    BY HttpLeads
  <1>2. SoundUnlessBlocked(f, w, s)
    <2>1. CASE g.blocked
      BY <1>1, <2>1 DEF Leads, SoundUnlessBlocked
    <2>2. CASE Ended(g, ok, w, s)
      BY <1>1, <2>2, LeadsSound DEF SoundUnlessBlocked
    <2>3. QED  BY <2>1, <2>2
  <1>3. QED  BY <1>1, <1>2, MovesSound

-----------------------------------------------------------------------------
(* The wire: a worked-off command goes, a given-up one fades.              *)
LEMMA TailFacts ==
    ASSUME NEW v \in Seq(Entry), v # <<>>
    PROVE  /\ Tail(v) \in Seq(Entry) /\ Len(v) \in Nat \ {0} /\ Len(Tail(v)) = Len(v) - 1
           /\ \A i \in 1..Len(Tail(v)) : i + 1 \in 1..Len(v) /\ Tail(v)[i] = v[i + 1]
           /\ Len(v) = 1 => Tail(v) = <<>>
  <1> DEFINE w == Tail(v)
  <1>1. Len(v) \in Nat \ {0}
    OBVIOUS
  <1>2. Len(w) = Len(v) - 1 /\ w \in Seq(Entry)
    BY <1>1
  <1>3. ASSUME NEW i \in 1..Len(w) PROVE i + 1 \in 1..Len(v) /\ w[i] = v[i + 1]
    BY <1>1, <1>2
  <1> HIDE DEF w
  <1>4. Len(v) = 1 => w = <<>>
    BY <1>2
  <1>5. QED  BY <1>1, <1>2, <1>3, <1>4 DEF w

LEMMA TailSound ==
    ASSUME NEW g, NEW s, NEW v \in Seq(Entry), v # <<>>, Sound(g, v, s),
           v[1].stage \in {"ok", "error", "over"}
    PROVE  Sound(g, Tail(v), s)
  <1> DEFINE w == Tail(v)
  <1>1. /\ w \in Seq(Entry) /\ Len(v) \in Nat \ {0} /\ Len(w) = Len(v) - 1
        /\ \A i \in 1..Len(w) : i + 1 \in 1..Len(v) /\ w[i] = v[i + 1]
        /\ Len(v) = 1 => w = <<>>
    BY TailFacts
  <1> HIDE DEF w
  <1>2. Aged(g, w)
    <2> SUFFICES ASSUME NEW i \in 1..Len(w), w[i].cmd = "POST",
                        w[i].stage \in {"asked", "given", "ok"}
                 PROVE  OwnPost(g, w, i) \/ (w[i].stage = "asked" /\ Len(w) - i >= Sends(g))
      BY DEF Aged
    <2> DEFINE j == i + 1
    <2>1. j \in 1..Len(v) /\ w[i] = v[j] /\ j # 1
      BY <1>1
    <2>2. Len(v) - j = Len(w) - i /\ (j = Len(v) => i = Len(w))
      BY <1>1
    <2> HIDE DEF j
    <2>3. OwnPost(g, v, j) \/ (v[j].stage = "asked" /\ Len(v) - j >= Sends(g))
      BY <2>1 DEF Sound, Aged
    <2>4. QED  BY <2>1, <2>2, <2>3 DEF OwnPost
  <1>3. Stopped(w, s)
    <2> SUFFICES ASSUME NEW i \in 1..Len(w), w[i].cmd = "STOP", w[i].stage = "ok"
                 PROVE  FALSE
      BY DEF Stopped
    <2>1. i + 1 \in 1..Len(v) /\ w[i] = v[i + 1]
      BY <1>1
    <2>2. i + 1 = 1
      BY <2>1 DEF Sound, Stopped
    <2>3. QED  BY <2>2
  <1>4. Quiet(v) => Quiet(w)
    BY <1>1 DEF Quiet
  <1>5. Clean(v, s) => Clean(w, s)
    BY <1>1 DEF Clean
  <1>6. Accounted(g, w, s) /\ ReadsOwn(g, w)
    BY <1>1, <1>4 DEF Sound, Accounted, ReadsOwn
  <1>7. Sound(g, w, s)
    BY <1>2, <1>3, <1>5, <1>6 DEF Sound
  <1>8. QED  BY <1>7 DEF w

(* What happens to the stages of a wire when commands are given up.        *)
Fades(w, v) ==
    /\ Len(w) = Len(v)
    /\ \A i \in 1..Len(v) :
          w[i].cmd = v[i].cmd /\ (w[i] = v[i] \/ w[i].stage \in {"refused", "over"})

LEMMA EscapedFacts ==
    ASSUME IInv
    PROVE  /\ Escaped \in Seq(Entry) /\ Fades(Escaped, wire)
           /\ \A i \in 1..Len(wire) :
                 wire[i].cmd = "POST" /\ Escaped[i].stage = wire[i].stage => wire[i].stage # "asked"
  <1>1. Escaped \in Seq(Entry) /\ wire \in Seq(Entry) /\ SameCommands(Escaped, wire)
    BY MarkedCommands, RestOfIInv DEF RestOK
  <1>2. \A x \in Entry : [x EXCEPT !.stage = "refused"].stage = "refused"
    BY DEF Entry
  <1>3. ASSUME NEW i \in 1..Len(wire)
        PROVE  /\ Escaped[i] = wire[i] \/ Escaped[i].stage = "refused"
               /\ wire[i].cmd = "POST" /\ wire[i].stage = "asked" => Escaped[i].stage = "refused"
    <2> DEFINE x == wire[i]
    <2>1. x \in Entry
      BY <1>1
    <2>2. Escaped[i] = IF x.cmd \in PayloadCommand /\ x.stage = "asked"
                       THEN [x EXCEPT !.stage = "refused"] ELSE x
      BY <1>1 DEF Escaped
    <2> HIDE DEF x
    <2>3. /\ Escaped[i] = x \/ Escaped[i].stage = "refused"
          /\ x.cmd = "POST" /\ x.stage = "asked" => Escaped[i].stage = "refused"
      BY <1>2, <2>1, <2>2 DEF PayloadCommand
    <2>4. QED  BY <2>3 DEF x
  <1>4. QED  BY <1>1, <1>3 DEF SameCommands, Fades

LEMMA ExpiredFacts ==
    ASSUME IInv
    PROVE  /\ Expired \in Seq(Entry) /\ Fades(Expired, wire)
           /\ \A i \in 1..Len(wire) :
                 wire[i].cmd \in {"POST", "READ"} => Expired[i].stage \in {"refused", "over"}
  <1>1. Expired \in Seq(Entry) /\ wire \in Seq(Entry) /\ SameCommands(Expired, wire)
    BY MarkedCommands, RestOfIInv DEF RestOK
  <1>2. \A x \in Entry : [x EXCEPT !.stage = "over"].stage = "over"
    BY DEF Entry
  <1>3. ASSUME NEW i \in 1..Len(wire)
        PROVE  /\ Expired[i] = wire[i] \/ Expired[i].stage = "over"
               /\ wire[i].cmd \in {"POST", "READ"} => Expired[i].stage \in {"refused", "over"}
    <2> DEFINE x == wire[i]
    <2>1. x \in Entry
      BY <1>1
    <2>2. Expired[i] = IF x.cmd \in WaitsForUrc /\ x.stage # "refused"
                       THEN [x EXCEPT !.stage = "over"] ELSE x
      BY <1>1 DEF Expired
    <2> HIDE DEF x
    <2>3. /\ Expired[i] = x \/ Expired[i].stage = "over"
          /\ x.cmd \in {"POST", "READ"} => Expired[i].stage \in {"refused", "over"}
      BY <1>2, <2>1, <2>2 DEF WaitsForUrc
    <2>4. QED  BY <2>3 DEF x
  <1>4. QED  BY <1>1, <1>3 DEF SameCommands, Fades

LEMMA FadesSound ==
    ASSUME NEW g, NEW s, NEW v \in Seq(Entry), NEW w \in Seq(Entry), Fades(w, v)
    PROVE  /\ Aged(g, v) => Aged(g, w)
           /\ Stopped(v, s) => Stopped(w, s)
           /\ Quiet(v) => Quiet(w)
           /\ Clean(v, s) => Clean(w, s)
           /\ v = <<>> => w = <<>>
  <1>1. Aged(g, v) => Aged(g, w)
    BY DEF Fades, Aged, OwnPost
  <1>2. QED  BY <1>1 DEF Fades, Stopped, Quiet, Clean

-----------------------------------------------------------------------------
(* Every action keeps the session accounted for.                           *)
LEMMA SessionFacts ==
    ASSUME SessionInv
    PROVE  /\ PinnedInv /\ IInv /\ Pinned(h, wire, file) /\ SoundUnlessBlocked(h, wire, session)
           /\ h \in Adapter /\ AtRest(h) /\ wire \in Seq(Entry) /\ session \in Session
           /\ Len(wire) \in Nat /\ Len(wire) <= Backlog
           /\ h.verified => h.state \in Http \cup {"IDLE"}
           /\ ~h.verified => h.state \notin Http
  <1>1. PinnedInv /\ SoundUnlessBlocked(h, wire, session)
    BY DEF SessionInv
  <1>2. /\ IInv /\ Pinned(h, wire, file)
        /\ h \in Adapter /\ AtRest(h) /\ wire \in Seq(Entry)
    BY <1>1, PinnedFacts
  <1>3. session \in Session /\ Len(wire) <= Backlog /\ Len(wire) \in Nat
    BY <1>2, RestOfIInv DEF RestOK
  <1>4. QED  BY <1>1, <1>2, <1>3 DEF Pinned, Adapter

LEMMA SameClean ==
    ASSUME NEW v, NEW w, NEW s, SameCommands(w, v), Clean(v, s)
    PROVE  Clean(w, s)
  BY DEF SameCommands, Clean

LEMMA DoneOutside ==
    ASSUME NEW g \in Adapter, g.state \notin Http, NEW ok \in BOOLEAN, NEW f \in CommandDone(g, ok),
           Moves(f)
    PROVE  h'.state # "READ"
  <1>1. f \in Adapter /\ f.state \notin Http
    BY CommandDoneAdapter
  <1>2. h'.state = f.state
    BY <1>1, ClearedAdapter DEF Moves
  <1>3. QED  BY <1>1, <1>2 DEF Http

(* Before the CA is verified no request has touched the modem.             *)
LEMMA UnverifiedSession ==
    ASSUME SessionInv, ~h.verified, Next
    PROVE  SoundUnlessBlocked(h, wire, session)'
  <1>f. /\ PinnedInv /\ IInv /\ h \in Adapter /\ wire \in Seq(Entry) /\ h.state \notin Http
        /\ Clean(wire, session)
    BY SessionFacts DEF SoundUnlessBlocked
  <1>a. "READ" \in Http
    BY DEF Http
  <1>1. SUFFICES Clean(wire', session') /\ h'.state # "READ"
    BY CleanSound DEF SoundUnlessBlocked
  <1>2. CASE PrepareCa
    <2>1. PICK g \in CaSubmit(h, "CA_LIST") : Moves(g)
      BY <1>2 DEF PrepareCa
    <2>2. g \in Adapter /\ g.state \in {"CA_LIST", "IDLE"}
      BY <1>f, <2>1, SubmittedAdapter, BlockAdapter DEF CaSubmit, Ca
    <2>3. h'.state = g.state
      BY <2>1, <2>2, ClearedAdapter DEF Moves
    <2>4. QED  BY <1>2, <1>f, <2>2, <2>3 DEF PrepareCa, modem
  <1>3. CASE Post
    BY <1>3, <1>f DEF Post
  <1>4. CASE PollTrial \/ TrialEnds \/ ServerDecides
    BY <1>4, <1>f, <1>a DEF PollTrial, TrialEnds, ServerDecides, modem
  <1>5. CASE Cancel
    <2>1. h'.state = h.state
      BY <1>5, <1>f DEF Cancel, Adapter
    <2>2. QED  BY <1>5, <1>f, <1>a, <2>1 DEF Cancel, modem
  <1>6. CASE StartCommand
    <2> DEFINE x == [cmd |-> h.state, stage |-> "asked"]
               w == Append(wire, x)
    <2>1. h'.state = h.state /\ wire' = w /\ session' = session
      BY <1>6, <1>f DEF StartCommand, modem, Adapter
    <2>2. \A i \in 1..Len(w) : (w[i].cmd = h.state) \/ (i \in 1..Len(wire) /\ w[i] = wire[i])
      BY <1>f
    <2> HIDE DEF w
    <2>3. QED  BY <1>f, <1>a, <2>1, <2>2 DEF Clean
  <1>7. CASE Timeout
    <2>1. SameCommands(wire', wire) /\ session' = session
      BY <1>7, <1>f, MarkedCommands DEF Timeout, modem
    <2>2. \E g \in CommandDone(h, FALSE) : Moves(g)
      BY <1>7 DEF Timeout, Ends
    <2>3. QED  BY <1>f, <2>1, <2>2, SameClean, DoneOutside
  <1>8. CASE Prompts
    <2>1. SameCommands(wire', wire) /\ session' = session
      BY <1>8, <1>f, StagedCommands DEF Prompts, modem
    <2>2. h'.state = h.state
      BY <1>8, <1>f DEF Prompts, Adapter
    <2>3. QED  BY <1>f, <1>a, <2>1, <2>2, SameClean
  <1>9. CASE Refuses
    <2>1. SameCommands(wire', wire) /\ session' = session /\ h' = h
      BY <1>9, <1>f, StagedCommands DEF Refuses
    <2>2. QED  BY <1>f, <1>a, <2>1, SameClean
  <1>10. CASE Obeys
    <2>1. SameCommands(wire', wire) /\ wire # <<>>
      BY <1>10, <1>f, StagedCommands DEF Obeys, Ready
    <2>2. wire[1].cmd \notin Http /\ session.stage = "closed"
      <3>1. 1 \in 1..Len(wire)
        BY <1>f, <2>1
      <3>2. QED  BY <1>f, <3>1 DEF Clean
    <2>3. session' = session
      BY <1>10, <2>2 DEF Obeys, Quietly, modem, Head1, Http
    <2>4. h'.state = h.state
      <3>1. ASSUME NEW s, NEW g, g.state = h.state, Event(s, g) PROVE h'.state = h.state
        BY <3>1 DEF Event
      <3>2. \A a : /\ [h EXCEPT !.pdp_active = a].state = h.state
                   /\ [h EXCEPT !.match = a].state = h.state
                   /\ [h EXCEPT !.handle = a].state = h.state
                   /\ \A b : [h EXCEPT !.match = a, !.offset = b].state = h.state
        BY <1>f DEF Adapter
      <3>3. CASE h' = h
        BY <3>3
      <3>4. CASE \E active \in BOOLEAN : Event("PDP_QUERY", [h EXCEPT !.pdp_active = active])
        BY <3>1, <3>2, <3>4
      <3>5. CASE \E same \in {file # {}, file = AllChunks} :
                     Event("CA_LIST", [h EXCEPT !.match = same])
        BY <3>1, <3>2, <3>5
      <3>6. CASE Event("CA_OPEN", [h EXCEPT !.handle = TRUE])
        BY <3>1, <3>2, <3>6
      <3>7. CASE \E clean \in BOOLEAN :
                     Event("CA_READ", [h EXCEPT !.match = @ /\ clean /\ h.offset + 1 \in file,
                                                !.offset = IF @ < Chunks THEN @ + 1 ELSE @])
        <4>1. PICK clean \in BOOLEAN :
                     Event("CA_READ", [h EXCEPT !.match = @ /\ clean /\ h.offset + 1 \in file,
                                                !.offset = IF @ < Chunks THEN @ + 1 ELSE @])
          BY <3>7
        <4> DEFINE m == h.match /\ clean /\ h.offset + 1 \in file
                   o == IF h.offset < Chunks THEN h.offset + 1 ELSE h.offset
        <4>2. Event("CA_READ", [h EXCEPT !.match = m, !.offset = o])
          BY <4>1
        <4> HIDE DEF m, o
        <4>3. QED  BY <3>1, <3>2, <4>2
      <3>8. QED
        BY <1>10, <2>2, <3>3, <3>4, <3>5, <3>6, <3>7 DEF Obeys, Quietly, Head1, Http
    <2>5. QED  BY <1>f, <1>a, <2>1, <2>3, <2>4, SameClean
  <1>11. ASSUME wire # <<>>, wire' = Tail(wire), session' = session
         PROVE  Clean(wire', session')
    BY <1>11, <1>f, TailFacts DEF Clean
  <1>12. CASE ResultLine
    <2>1. Clean(wire', session')
      BY <1>11, <1>12 DEF ResultLine, modem
    <2>2. \/ h' = h
          \/ \E ok \in BOOLEAN : \E g \in CommandDone(h, ok) : Moves(g)
      BY <1>12 DEF ResultLine, Ends
    <2>3. QED  BY <1>f, <1>a, <2>1, <2>2, DoneOutside
  <1>13. CASE Lost
    BY <1>11, <1>13, <1>f, <1>a DEF Lost, modem
  <1>14. CASE Posted \/ ReadDone
    BY <1>14, <1>f DEF Posted, ReadDone, Clean
  <1>15. CASE Quarantine
    <2>1. SameCommands(wire', wire) /\ session' = session
      BY <1>15, <1>f, MarkedCommands DEF Quarantine, modem
    <2>2. PICK g \in Shut : Moves(g)
      BY <1>15 DEF Quarantine
    <2>3. g \in Adapter /\ g.state \notin Http
      BY <1>f, <2>2, ShutAdapter
    <2>4. h'.state = g.state
      BY <2>2, <2>3, ClearedAdapter DEF Moves
    <2>5. QED  BY <1>f, <1>a, <2>1, <2>3, <2>4, SameClean
  <1>16. CASE OnModemReset \/ AfterModemReset
    <2>1. wire' = <<>> /\ session'.stage = "closed"
      BY <1>16 DEF OnModemReset, AfterModemReset
    <2>2. \E g \in Adapter : h' = Renewed(g)
      BY <1>16, <1>f, ShutAdapter DEF OnModemReset, AfterModemReset
    <2>3. h'.state = "IDLE"
      BY <2>2, RenewedAdapter
    <2>4. QED  BY <2>1, <2>3 DEF Clean
  <1>17. QED
    BY <1>2, <1>3, <1>4, <1>5, <1>6, <1>7, <1>8, <1>9, <1>10, <1>12, <1>13, <1>14, <1>15, <1>16
       DEF Next, Poll, Modem

(* Once it is verified only requests are made, until the modem restarts.   *)
Abreast(x, g) == Pose(x, g) /\ x.blocked = g.blocked /\ x.verified = g.verified

LEMMA PoseKept ==
    ASSUME NEW x, NEW g, Abreast(x, g),
           NEW w, NEW s, SoundUnlessBlocked(g, w, s)
    PROVE  SoundUnlessBlocked(x, w, s)
  BY PoseSound DEF SoundUnlessBlocked, Abreast

LEMMA PostSession ==
    ASSUME SessionInv, Post
    PROVE  SoundUnlessBlocked(h, wire, session)'
  <1>1. /\ h \in Adapter /\ SoundUnlessBlocked(h, wire, session)
        /\ h.state = "IDLE" /\ ~h.blocked /\ h.verified
    BY SessionFacts DEF Post, Restful
  <1>2. /\ h'.state = "PDP_QUERY" /\ h'.link = "queued" /\ h'.verified = h.verified
        /\ h'.blocked = h.blocked
    BY <1>1 DEF Post, Submitted, Adapter
  <1>3. wire' = wire /\ session' = session
    BY DEF Post, modem
  <1>4. Sends(h') = 1 /\ Sends(h) = 1
    BY <1>1, <1>2 DEF Sends, Written
  <1>5. Sound(h', wire, session)
    BY <1>1, <1>2, <1>4 DEF SoundUnlessBlocked, Sound, Aged, OwnPost, Accounted, ReadsOwn
  <1>6. QED  BY <1>1, <1>2, <1>3, <1>5 DEF SoundUnlessBlocked

LEMMA StartCommandSession ==
    ASSUME SessionInv, h.verified, StartCommand
    PROVE  SoundUnlessBlocked(h, wire, session)'
  <1> DEFINE x == [cmd |-> h.state, stage |-> "asked"]
             w == Append(wire, x)
  <1>1. /\ h \in Adapter /\ wire \in Seq(Entry) /\ h.link = "queued"
        /\ SoundUnlessBlocked(h, wire, session)
    BY SessionFacts DEF StartCommand
  <1>2. /\ h'.state = h.state /\ h'.link = "sent" /\ h'.verified = h.verified
        /\ h'.blocked = h.blocked /\ h'.settings = h.settings
    BY <1>1 DEF StartCommand, Adapter
  <1>3. wire' = w /\ session' = session
    BY DEF StartCommand, modem
  <1>4. /\ Len(w) = Len(wire) + 1 /\ Len(wire) \in Nat
        /\ w[Len(w)].cmd = h.state /\ w[Len(w)].stage = "asked"
        /\ \A i \in 1..Len(wire) : w[i] = wire[i]
        /\ wire = <<>> => Len(w) = 1
    BY <1>1
  <1> HIDE DEF w
  <1>5. CASE Sound(h, wire, session)
    <2>1. Sends(h) \in Nat /\ Sends(h') <= Sends(h) + 1
      <3>1. Written(h) = 0 /\ Written(h') = 1 /\ h.settings \in Nat
        BY <1>1, <1>2 DEF Written, Adapter
      <3> HIDE DEF Written
      <3>2. QED  BY <1>1, <1>2, <3>1, EnrollmentAssumption DEF Sends
    <2>2. Aged(h', w)
      <3> SUFFICES ASSUME NEW i \in 1..Len(w), w[i].cmd = "POST",
                          w[i].stage \in {"asked", "given", "ok"}
                   PROVE  OwnPost(h', w, i) \/ (w[i].stage = "asked" /\ Len(w) - i >= Sends(h'))
        BY DEF Aged
      <3>1. CASE i = Len(w)
        BY <1>2, <1>4, <3>1 DEF OwnPost
      <3>2. CASE i \in 1..Len(wire)
        <4>1. wire[i].stage = "asked" /\ Len(wire) - i >= Sends(h)
          BY <1>1, <1>4, <1>5, <3>2 DEF Sound, Aged, OwnPost
        <4>2. Sends(h') \in Nat
          <5>1. h' \in Adapter
            BY <1>1 DEF StartCommand, Adapter
          <5>2. QED  BY <5>1, SendsFacts
        <4>3. QED  BY <1>4, <2>1, <3>2, <4>1, <4>2
      <3>3. QED  BY <1>4, <3>1, <3>2
    <2>3. Accounted(h', w, session)
      BY <1>1, <1>2, <1>4, <1>5 DEF Sound, Accounted, Quiet
    <2>4. Stopped(w, session)
      BY <1>4, <1>5 DEF Sound, Stopped
    <2>5. ReadsOwn(h', w)
      BY <1>1, <1>2, <1>4, <1>5 DEF Sound, ReadsOwn
    <2>6. QED  BY <1>2, <1>3, <2>2, <2>3, <2>4, <2>5 DEF SoundUnlessBlocked, Sound
  <1>6. QED  BY <1>1, <1>2, <1>3, <1>5 DEF SoundUnlessBlocked

(* A command that times out or fails has left nothing but what the modem   *)
(* will not obey any more, or a POST too old for it.                       *)
LEMMA TimeoutSession ==
    ASSUME SessionInv, h.verified, Timeout
    PROVE  SoundUnlessBlocked(h, wire, session)'
  <1>1. /\ h \in Adapter /\ wire \in Seq(Entry) /\ IInv
        /\ SoundUnlessBlocked(h, wire, session)
    BY SessionFacts
  <1>2. h.state \in Http /\ h.link \in {"sent", "given"}
    BY SessionFacts DEF Timeout, OnWire, AtRest, Adapter
  <1>3. session' = session
    BY DEF Timeout, modem
  <1>4. wire' \in Seq(Entry) /\ Fades(wire', wire)
    BY <1>1, EscapedFacts, ExpiredFacts DEF Timeout, Fades
  <1>5. ASSUME Sound(h, wire, session) PROVE Ended(h, FALSE, wire', session)
    <2>1. Aged(h, wire') /\ Stopped(wire', session) /\ (Quiet(wire) => Quiet(wire'))
          /\ (wire = <<>> => wire' = <<>>)
      BY <1>1, <1>4, <1>5, FadesSound DEF Sound
    <2>2. ASSUME NEW i \in 1..Len(wire'), wire'[i].cmd = "POST",
                 wire'[i].stage \in {"asked", "given", "ok"}
          PROVE  ~OwnPost(h, wire', i)
      <3>1. wire[i] = wire'[i] /\ i \in 1..Len(wire)
        BY <1>4, <2>2 DEF Fades
      <3>2. CASE h.state = "POST" /\ h.link = "sent"
        <4>1. wire' = Escaped
          BY <3>2 DEF Timeout, PayloadCommand
        <4>2. wire[i].stage # "asked"
          BY <1>1, <2>2, <3>1, <4>1, EscapedFacts
        <4>3. QED  BY <3>1, <3>2, <4>2 DEF OwnPost
      <3>3. CASE h.state = "POST" /\ h.link = "given"
        <4>1. wire' = Expired
          BY <3>3 DEF Timeout, WaitsForUrc
        <4>2. QED  BY <1>1, <2>2, <3>1, <4>1, ExpiredFacts
      <3>4. QED  BY <1>2, <3>2, <3>3 DEF OwnPost
    <2>3. ASSUME session.stage # "closed"
          PROVE  Quiet(wire') /\ h.state \in {"POST", "READ", "STOP"}
      <3>1. CASE /\ h.state = "POST" /\ h.link = "given"
                 /\ wire = <<>> \/ (Len(wire) = 1 /\ wire[1].cmd = "POST" /\ wire[1].stage = "ok")
        <4>1. wire' = Expired
          BY <3>1 DEF Timeout, WaitsForUrc
        <4>2. QED  BY <1>1, <1>4, <3>1, <4>1, ExpiredFacts DEF Quiet, Fades
      <3>2. CASE h.state = "READ"
        <4>1. wire' = Expired
          BY <3>2 DEF Timeout, WaitsForUrc, PayloadCommand
        <4>2. wire = <<>> \/ (Len(wire) = 1 /\ wire[1].cmd = "READ")
          BY <1>5, <3>2 DEF Sound, ReadsOwn
        <4>3. QED  BY <1>1, <1>4, <3>2, <4>1, <4>2, ExpiredFacts DEF Quiet, Fades
      <3>3. CASE h.state = "STOP"
        BY <1>5, <2>1, <2>3, <3>3 DEF Sound, Accounted
      <3>4. QED  BY <1>5, <2>3, <3>1, <3>2, <3>3 DEF Sound, Accounted
    <2>4. QED  BY <2>1, <2>2, <2>3 DEF Ended, Aged
  <1>6. \E g \in CommandDone(h, FALSE) : Moves(g)
    BY DEF Timeout, Ends
  <1>7. QED  BY <1>1, <1>2, <1>3, <1>4, <1>5, <1>6, DoneSound DEF SoundUnlessBlocked

LEMMA QuarantineSession ==
    ASSUME SessionInv, h.verified, Quarantine
    PROVE  SoundUnlessBlocked(h, wire, session)'
  <1>1. /\ h \in Adapter /\ wire \in Seq(Entry) /\ IInv /\ AtRest(h)
        /\ SoundUnlessBlocked(h, wire, session) /\ h.state \in Http \cup {"IDLE"}
    BY SessionFacts
  <1>2. wire' = Escaped /\ session' = session
    BY DEF Quarantine, modem
  <1>3. Escaped \in Seq(Entry) /\ Fades(Escaped, wire)
    BY <1>1, EscapedFacts
  <1>4. PICK g \in Shut : Moves(g)
    BY DEF Quarantine
  <1>5. ASSUME Sound(h, wire, session), h.link = "none" \/ h.state \notin {"POST", "READ"}
        PROVE  Sound(h, Escaped, session)
    <2>1. Aged(h, Escaped) /\ Stopped(Escaped, session) /\ (Quiet(wire) => Quiet(Escaped))
          /\ (wire = <<>> => Escaped = <<>>)
      BY <1>1, <1>3, <1>5, FadesSound DEF Sound
    <2>2. Accounted(h, Escaped, session)
      BY <1>5, <2>1 DEF Sound, Accounted
    <2>3. ReadsOwn(h, Escaped)
      BY <1>3, <1>5, <2>1 DEF Sound, ReadsOwn
    <2>4. QED  BY <2>1, <2>2, <2>3 DEF Sound
  <1>6. CASE h.link = "none"
    <2>1. g = h
      BY <1>4, <1>6 DEF Shut
    <2>2. SoundUnlessBlocked(h, Escaped, session)
      BY <1>1, <1>5, <1>6 DEF SoundUnlessBlocked
    <2>3. QED  BY <1>1, <1>2, <1>4, <2>1, <2>2, MovesSound
  <1>7. CASE h.link # "none"
    <2>1. g \in CommandDone(h, FALSE) /\ g.link = "none"
      BY <1>4, <1>7 DEF Shut
    <2>2. h.state \in Http
      BY <1>1, <1>7 DEF AtRest
    <2>3. g \in Adapter /\ g.verified /\ Leads(g, h, FALSE)
      BY <1>1, <2>1, <2>2, HttpLeads
    <2>4. ASSUME ~g.blocked PROVE Sound(g, Escaped, session)
      <3>1. g.state = "IDLE" /\ h.state \in Setup /\ ~h.blocked
        BY <2>1, <2>3, <2>4 DEF Leads
      <3>2. Sound(h, wire, session)
        BY <1>1, <3>1 DEF SoundUnlessBlocked
      <3>3. h.state \notin {"POST", "READ", "STOP"}
        BY <3>1 DEF Setup
      <3>4. Sound(h, Escaped, session)
        BY <1>5, <3>2, <3>3
      <3>5. Sends(g) = 1 /\ Sends(h) >= 1 /\ Sends(h) \in Nat
        BY <1>1, <2>3, <3>1, SendsFacts
      <3>6. Aged(g, Escaped)
        <4> SUFFICES ASSUME NEW i \in 1..Len(Escaped), Escaped[i].cmd = "POST",
                            Escaped[i].stage \in {"asked", "given", "ok"}
                     PROVE  Escaped[i].stage = "asked" /\ Len(Escaped) - i >= 1
          BY <3>5 DEF Aged
        <4>1. Escaped[i].stage = "asked" /\ Len(Escaped) - i >= Sends(h)
          BY <3>3, <3>4 DEF Sound, Aged, OwnPost
        <4>2. Len(Escaped) \in Nat
          BY <1>3
        <4>3. QED  BY <3>5, <4>1, <4>2
      <3>7. QED  BY <3>1, <3>3, <3>4, <3>6 DEF Sound, Accounted, ReadsOwn
    <2>5. SoundUnlessBlocked(g, Escaped, session)
      BY <2>3, <2>4 DEF SoundUnlessBlocked
    <2>6. QED  BY <1>2, <1>4, <2>3, <2>5, MovesSound
  <1>8. QED  BY <1>6, <1>7

LEMMA ResetSession ==
    ASSUME SessionInv, OnModemReset \/ AfterModemReset
    PROVE  SoundUnlessBlocked(h, wire, session)'
  <1>1. wire' = <<>> /\ session'.stage = "closed"
    BY DEF OnModemReset, AfterModemReset
  <1>2. \E g \in Adapter : h' = Renewed(g)
    BY SessionFacts, ShutAdapter DEF OnModemReset, AfterModemReset
  <1>3. h'.state # "READ"
    BY <1>2, RenewedAdapter
  <1>4. Clean(wire', session')
    BY <1>1 DEF Clean
  <1>5. QED  BY <1>3, <1>4, CleanSound DEF SoundUnlessBlocked

(* Only the head of the wire goes on, and only its stage changes.          *)
LEMMA StagedFacts ==
    ASSUME IInv, wire # <<>>, NEW s \in {"asked", "given", "refused", "over", "ok", "error"},
           Staged(s)
    PROVE  /\ wire' \in Seq(Entry) /\ Len(wire') = Len(wire) /\ Len(wire) \in Nat \ {0}
           /\ wire'[1].stage = s /\ wire'[1].cmd = wire[1].cmd
           /\ \A i \in 1..Len(wire) : i # 1 => wire'[i] = wire[i]
  <1>1. wire \in Seq(Entry) /\ wire' \in Seq(Entry)
    BY StagedCommands
  <1> DEFINE x == [wire[1] EXCEPT !.stage = s]
  <1>2. 1 \in 1..Len(wire) /\ wire[1] \in Entry /\ Len(wire) \in Nat \ {0}
    BY <1>1
  <1>3. x.cmd = wire[1].cmd /\ x.stage = s
    BY <1>2 DEF Entry
  <1>4. wire' = [wire EXCEPT ![1] = x]
    BY DEF Staged
  <1> HIDE DEF x
  <1>5. QED  BY <1>1, <1>2, <1>3, <1>4

(* A head that is given up or answered with an error.                      *)
LEMMA DeadHead ==
    ASSUME IInv, wire # <<>>, NEW s \in {"refused", "error"}, Staged(s), h' = h,
           session' = session, Sound(h, wire, session),
           wire[1].cmd = "POST" => wire[1].stage # "ok",
           wire[1].cmd = "READ" => s = "error"
    PROVE  Sound(h', wire', session')
  <1>1. /\ wire' \in Seq(Entry) /\ Len(wire') = Len(wire) /\ Len(wire) \in Nat \ {0}
        /\ wire'[1].stage = s /\ wire'[1].cmd = wire[1].cmd
        /\ \A i \in 1..Len(wire) : i # 1 => wire'[i] = wire[i]
    BY StagedFacts
  <1>2. Aged(h, wire')
    <2> SUFFICES ASSUME NEW i \in 1..Len(wire'), wire'[i].cmd = "POST",
                        wire'[i].stage \in {"asked", "given", "ok"}
                 PROVE  \/ OwnPost(h, wire', i)
                        \/ (wire'[i].stage = "asked" /\ Len(wire') - i >= Sends(h))
      BY DEF Aged
    <2>1. i # 1 /\ wire'[i] = wire[i] /\ i \in 1..Len(wire)
      BY <1>1
    <2>2. OwnPost(h, wire, i) \/ (wire[i].stage = "asked" /\ Len(wire) - i >= Sends(h))
      BY <2>1 DEF Sound, Aged
    <2>3. QED  BY <1>1, <2>1, <2>2 DEF OwnPost
  <1>3. Accounted(h, wire', session)
    <2>1. Quiet(wire) => Quiet(wire')
      BY <1>1 DEF Quiet
    <2>2. QED  BY <1>1, <2>1 DEF Sound, Accounted
  <1>4. Stopped(wire', session)
    BY <1>1 DEF Sound, Stopped
  <1>5. ReadsOwn(h, wire')
    BY <1>1 DEF Sound, ReadsOwn
  <1>6. QED  BY <1>2, <1>3, <1>4, <1>5 DEF Sound

LEMMA RefusesSession ==
    ASSUME SessionInv, Refuses
    PROVE  SoundUnlessBlocked(h, wire, session)'
  <1>1. IInv /\ SoundUnlessBlocked(h, wire, session)
    BY SessionFacts
  <1>2. /\ wire # <<>> /\ Staged("error") /\ h' = h /\ session' = session
        /\ wire[1].cmd = "POST" => wire[1].stage # "ok"
    BY DEF Refuses, Ready, Head1, PayloadCommand
  <1>3. Clean(wire, session) => Clean(wire', session')
    BY <1>1, <1>2, StagedCommands, SameClean
  <1>4. Sound(h, wire, session) => Sound(h', wire', session')
    BY <1>1, <1>2, DeadHead
  <1>5. QED  BY <1>1, <1>2, <1>3, <1>4 DEF SoundUnlessBlocked

(* Everything a request has to send before its own payload is behind an    *)
(* old POST: no payload command is written while it is still to come.      *)
LEMMA PromptsSession ==
    ASSUME Backlog <= Settings + 3, SessionInv, h.verified, Prompts
    PROVE  SoundUnlessBlocked(h, wire, session)'
  <1>1. /\ h \in Adapter /\ wire \in Seq(Entry) /\ IInv /\ Len(wire) \in Nat /\ Len(wire) <= Backlog
        /\ SoundUnlessBlocked(h, wire, session) /\ h.state \in Http \cup {"IDLE"}
    BY SessionFacts
  <1>2. /\ wire # <<>> /\ wire[1].cmd \in PayloadCommand /\ wire[1].stage = "asked"
        /\ session' = session
    BY DEF Prompts, Head1, modem
  <1>3. CASE h' = h /\ Staged("refused")
    <2>1. Sound(h, wire, session) => Sound(h', wire', session')
      BY <1>1, <1>2, <1>3, DeadHead DEF PayloadCommand
    <2>2. QED  BY <1>1, <1>3, <2>1 DEF SoundUnlessBlocked
  <1>4. CASE /\ h.state \in PayloadCommand /\ h.link = "sent"
             /\ h' = [h EXCEPT !.link = "given"] /\ Staged("given")
    <2>1. /\ h'.state = h.state /\ h'.link = "given" /\ h'.verified = h.verified
          /\ h'.blocked = h.blocked /\ h'.settings = h.settings
      BY <1>1, <1>4 DEF Adapter
    <2>2. /\ wire' \in Seq(Entry) /\ Len(wire') = Len(wire) /\ Len(wire) \in Nat \ {0}
          /\ wire'[1].stage = "given" /\ wire'[1].cmd = wire[1].cmd
          /\ \A i \in 1..Len(wire) : i # 1 => wire'[i] = wire[i]
      BY <1>1, <1>2, <1>4, StagedFacts
    <2>3. h.state \in {"URL", "POST"}
      BY <1>1, <1>4 DEF PayloadCommand, Http, Setup
    <2>4. Sends(h) = Settings + 3
      BY <1>1, <1>4, <2>3, SendsFacts
    <2>5. ASSUME Sound(h, wire, session), NEW i \in 1..Len(wire), wire[i].cmd = "POST",
                 wire[i].stage \in {"asked", "given", "ok"}
          PROVE  OwnPost(h, wire, i)
      <3>1. ~(Len(wire) - i >= Sends(h))
        BY <1>1, <2>4, EnrollmentAssumption
      <3>2. QED  BY <2>5, <3>1 DEF Sound, Aged
    <2>6. ASSUME Sound(h, wire, session) PROVE Sound(h', wire', session)
      <3>1. Aged(h', wire')
        <4> SUFFICES ASSUME NEW i \in 1..Len(wire'), wire'[i].cmd = "POST",
                            wire'[i].stage \in {"asked", "given", "ok"}
                     PROVE  OwnPost(h', wire', i)
          BY DEF Aged
        <4>1. i \in 1..Len(wire) /\ wire[i].cmd = "POST"
              /\ (i # 1 => wire[i].stage = wire'[i].stage)
          BY <2>2
        <4>2. wire[i].stage \in {"asked", "given", "ok"}
          BY <1>2, <4>1
        <4>3. OwnPost(h, wire, i)
          BY <2>5, <2>6, <4>1, <4>2
        <4>4. QED  BY <2>1, <2>2, <4>1, <4>3 DEF OwnPost
      <3>2. session.stage = "closed"
        BY <1>4, <2>3, <2>6 DEF Sound, Accounted
      <3>3. Stopped(wire', session)
        BY <1>2, <2>2, <2>6 DEF Sound, Stopped
      <3>4. QED  BY <2>1, <2>3, <3>1, <3>2, <3>3 DEF Sound, Accounted, ReadsOwn
    <2>7. QED  BY <1>1, <1>2, <2>1, <2>6 DEF SoundUnlessBlocked
  <1>5. QED  BY <1>3, <1>4 DEF Prompts

LEMMA ObeysSession ==
    ASSUME SessionInv, h.verified, Obeys
    PROVE  SoundUnlessBlocked(h, wire, session)'
  <1>1. /\ h \in Adapter /\ wire \in Seq(Entry) /\ IInv
        /\ SoundUnlessBlocked(h, wire, session)
    BY SessionFacts
  <1>2. /\ wire # <<>> /\ Staged("ok")
        /\ wire[1].stage = IF wire[1].cmd \in PayloadCommand THEN "given" ELSE "asked"
    BY DEF Obeys, Ready, Head1
  <1>3. /\ wire' \in Seq(Entry) /\ Len(wire') = Len(wire) /\ Len(wire) \in Nat \ {0}
        /\ wire'[1].stage = "ok" /\ wire'[1].cmd = wire[1].cmd
        /\ \A i \in 1..Len(wire) : i # 1 => wire'[i] = wire[i]
    BY <1>1, <1>2, StagedFacts
  <1>4. Abreast(h', h)
    <2>1. Abreast(h, h)
          /\ \A a : /\ Abreast([h EXCEPT !.pdp_active = a], h)
                    /\ Abreast([h EXCEPT !.body = a], h)
                    /\ Abreast([h EXCEPT !.match = a], h)
                    /\ Abreast([h EXCEPT !.handle = a], h)
                    /\ \A b : Abreast([h EXCEPT !.match = a, !.offset = b], h)
      BY <1>1 DEF Abreast, Pose, Adapter
    <2>2. ASSUME NEW s, NEW g, Abreast(g, h), Event(s, g) PROVE Abreast(h', h)
      BY <2>1, <2>2 DEF Event
    <2>3. CASE h' = h
      BY <2>1, <2>3
    <2>4. CASE \E active \in BOOLEAN : Event("PDP_QUERY", [h EXCEPT !.pdp_active = active])
      BY <2>1, <2>2, <2>4
    <2>5. CASE \E body \in {session.answer, "part"} : Event("READ", [h EXCEPT !.body = body])
      BY <2>1, <2>2, <2>5
    <2>6. CASE \E same \in {file # {}, file = AllChunks} :
                   Event("CA_LIST", [h EXCEPT !.match = same])
      BY <2>1, <2>2, <2>6
    <2>7. CASE Event("CA_OPEN", [h EXCEPT !.handle = TRUE])
      BY <2>1, <2>2, <2>7
    <2>8. CASE \E clean \in BOOLEAN :
                   Event("CA_READ", [h EXCEPT !.match = @ /\ clean /\ h.offset + 1 \in file,
                                              !.offset = IF @ < Chunks THEN @ + 1 ELSE @])
      <3>1. PICK clean \in BOOLEAN :
                   Event("CA_READ", [h EXCEPT !.match = @ /\ clean /\ h.offset + 1 \in file,
                                              !.offset = IF @ < Chunks THEN @ + 1 ELSE @])
        BY <2>8
      <3> DEFINE m == h.match /\ clean /\ h.offset + 1 \in file
                 o == IF h.offset < Chunks THEN h.offset + 1 ELSE h.offset
      <3>2. Event("CA_READ", [h EXCEPT !.match = m, !.offset = o])
        BY <3>1
      <3> HIDE DEF m, o
      <3>3. QED  BY <2>1, <2>2, <3>2
    <2>9. QED  BY <2>3, <2>4, <2>5, <2>6, <2>7, <2>8 DEF Obeys, Quietly
  <1>5. ASSUME Sound(h, wire, session) PROVE Sound(h, wire', session')
    <2>1. Aged(h, wire')
      <3> SUFFICES ASSUME NEW i \in 1..Len(wire'), wire'[i].cmd = "POST",
                          wire'[i].stage \in {"asked", "given", "ok"}
                   PROVE  \/ OwnPost(h, wire', i)
                          \/ (wire'[i].stage = "asked" /\ Len(wire') - i >= Sends(h))
        BY DEF Aged
      <3>1. /\ i \in 1..Len(wire) /\ wire[i].cmd = "POST"
            /\ wire[i].stage \in {"asked", "given", "ok"}
            /\ (i = 1 => wire[i].stage = "given") /\ (i # 1 => wire'[i] = wire[i])
        BY <1>2, <1>3 DEF PayloadCommand
      <3>2. OwnPost(h, wire, i) \/ (wire[i].stage = "asked" /\ Len(wire) - i >= Sends(h))
        BY <1>5, <3>1 DEF Sound, Aged
      <3>3. QED  BY <1>3, <3>1, <3>2 DEF OwnPost
    <2>2. CASE wire[1].cmd = "POST" /\ session'.stage = "posting" /\ session.stage = "closed"
      <3>1. 1 \in 1..Len(wire) /\ wire[1].stage = "given"
        BY <1>2, <1>3, <2>2 DEF PayloadCommand
      <3>2. h.state = "POST" /\ h.link = "given" /\ Len(wire) = 1
        BY <1>5, <2>2, <3>1 DEF Sound, Aged, OwnPost
      <3>3. Accounted(h, wire', session') /\ ReadsOwn(h, wire')
        BY <1>3, <2>2, <3>2 DEF Accounted, ReadsOwn
      <3>4. Stopped(wire', session')
        BY <1>3, <2>2, <3>2 DEF Stopped
      <3>5. QED  BY <2>1, <3>3, <3>4 DEF Sound
    <2>3. CASE wire[1].cmd = "READ" /\ session.stage = "posted" /\ session'.stage = "reading"
      <3>1. ~Quiet(wire)
        BY <1>2, <1>3, <2>3 DEF Quiet, PayloadCommand
      <3>2. h.state = "READ"
        BY <1>5, <2>3, <3>1 DEF Sound, Accounted
      <3>3. Len(wire) = 1 /\ h.link \in {"sent", "given"}
        BY <1>2, <1>5, <3>2 DEF Sound, ReadsOwn
      <3>4. Accounted(h, wire', session') /\ ReadsOwn(h, wire')
        BY <1>3, <2>3, <3>2, <3>3 DEF Accounted, ReadsOwn
      <3>5. Stopped(wire', session')
        BY <1>3, <2>3, <3>3 DEF Stopped
      <3>6. QED  BY <2>1, <3>4, <3>5 DEF Sound
    <2>4. CASE wire[1].cmd = "STOP" /\ session'.stage = "closed"
      <3>1. Stopped(wire', session')
        BY <1>3, <1>5, <2>4 DEF Sound, Stopped
      <3>2. ReadsOwn(h, wire')
        BY <1>2, <1>5, <2>4 DEF Sound, ReadsOwn
      <3>3. QED  BY <2>1, <2>4, <3>1, <3>2 DEF Sound, Accounted
    <2>5. CASE wire[1].cmd \notin {"POST", "READ", "STOP"} /\ session' = session
      <3>1. Stopped(wire', session')
        BY <1>3, <1>5, <2>5 DEF Sound, Stopped
      <3>2. ReadsOwn(h, wire')
        BY <1>2, <1>5, <2>5 DEF Sound, ReadsOwn
      <3>3. ~Quiet(wire)
        BY <1>2, <1>3, <2>5 DEF Quiet
      <3>4. Accounted(h, wire', session')
        BY <1>2, <1>5, <2>5, <3>3 DEF Sound, Accounted
      <3>5. QED  BY <2>1, <3>1, <3>2, <3>4 DEF Sound
    <2>6. /\ [session EXCEPT !.stage = "reading"].stage = "reading"
          /\ \A a : [stage |-> "posting", answer |-> a].stage = "posting"
          /\ [stage |-> "closed", answer |-> "none"].stage = "closed"
      BY SessionFacts DEF Session
    <2>7. \/ /\ wire[1].cmd = "POST" /\ session.stage = "closed"
             /\ \E answer \in Answer : session' = [stage |-> "posting", answer |-> answer]
          \/ /\ wire[1].cmd = "READ" /\ session.stage = "posted"
             /\ session' = [session EXCEPT !.stage = "reading"]
          \/ wire[1].cmd = "STOP" /\ session' = [stage |-> "closed", answer |-> "none"]
          \/ wire[1].cmd \notin {"POST", "READ", "STOP"} /\ session' = session
      BY DEF Obeys, Quietly, modem, Head1
    <2>8. CASE /\ wire[1].cmd = "POST" /\ session.stage = "closed"
               /\ \E answer \in Answer : session' = [stage |-> "posting", answer |-> answer]
      BY <2>2, <2>6, <2>8
    <2>9. CASE /\ wire[1].cmd = "READ" /\ session.stage = "posted"
               /\ session' = [session EXCEPT !.stage = "reading"]
      BY <2>3, <2>6, <2>9
    <2>10. CASE wire[1].cmd = "STOP" /\ session' = [stage |-> "closed", answer |-> "none"]
      BY <2>4, <2>6, <2>10
    <2>11. QED  BY <2>5, <2>7, <2>8, <2>9, <2>10
  <1>6. SoundUnlessBlocked(h, wire', session')
    BY <1>1, <1>5 DEF SoundUnlessBlocked
  <1>7. QED  BY <1>4, <1>6, PoseKept

LEMMA ResultLineSession ==
    ASSUME SessionInv, h.verified, ResultLine
    PROVE  SoundUnlessBlocked(h, wire, session)'
  <1> DEFINE ok == Head1.stage = "ok"
             w == Tail(wire)
  <1>1. /\ h \in Adapter /\ wire \in Seq(Entry) /\ IInv /\ wire # <<>>
        /\ SoundUnlessBlocked(h, wire, session) /\ wire[1].stage \in {"ok", "error"}
    BY SessionFacts DEF ResultLine, Head1
  <1>2. w \in Seq(Entry) /\ Len(wire) \in Nat \ {0} /\ Len(w) = Len(wire) - 1
        /\ (Len(wire) = 1 => w = <<>>)
    BY <1>1, TailFacts
  <1>3. Sound(h, wire, session) => Sound(h, w, session)
    BY <1>1, TailSound
  <1>4. wire' = w /\ session' = session
    BY DEF ResultLine, modem
  <1>5. CASE Taken(ok)
    <2>1. Ends(ok)
      BY <1>5 DEF ResultLine
    <2>2. h.state \in Http /\ h.link \in {"sent", "given"}
      BY <1>5, SessionFacts DEF Taken, OnWire, AtRest, Adapter
    <2>3. ok => h.state \notin {"POST", "READ"}
      BY <1>5 DEF Taken, WaitsForUrc
    <2>4. (ok <=> wire[1].stage = "ok") /\ ok \in BOOLEAN
      BY DEF Head1
    <2> HIDE DEF ok, w
    <2>5. ASSUME Sound(h, wire, session) PROVE Ended(h, ok, w, session)
      <3>1. Sound(h, w, session)
        BY <1>3, <2>5
      <3>2. ASSUME NEW i \in 1..Len(w), w[i].cmd = "POST", w[i].stage \in {"asked", "given", "ok"}
            PROVE  w[i].stage = "asked" /\ (h.state \in {"POST", "READ"} \/ Len(w) - i >= Sends(h))
        <4>1. OwnPost(h, w, i) \/ (w[i].stage = "asked" /\ Len(w) - i >= Sends(h))
          BY <3>1, <3>2 DEF Sound, Aged
        <4>2. CASE OwnPost(h, w, i)
          <5>1. i + 1 \in 1..Len(wire) /\ w[i] = wire[i + 1] /\ i + 1 # 1
            BY <1>1, TailFacts DEF w
          <5>2. \/ OwnPost(h, wire, i + 1)
                \/ wire[i + 1].stage = "asked"
            BY <2>5, <3>2, <5>1 DEF Sound, Aged
          <5>3. QED  BY <4>2, <5>1, <5>2 DEF OwnPost
        <4>3. QED  BY <4>1, <4>2
      <3>3. ASSUME session.stage # "closed"
            PROVE  Quiet(w) /\ ~ok /\ h.state \in {"POST", "READ", "STOP"}
        <4>1. CASE /\ h.state = "POST"
                   /\ wire = <<>> \/ (Len(wire) = 1 /\ wire[1].stage = "ok")
          BY <1>1, <2>3, <2>4, <4>1
        <4>2. CASE h.state = "READ"
          <5>1. w = <<>>
            BY <1>1, <1>2, <2>5, <4>2 DEF Sound, ReadsOwn
          <5>2. QED  BY <2>3, <4>2, <5>1 DEF Quiet
        <4>3. CASE h.state = "STOP" /\ Quiet(wire)
          <5>1. 1 \in 1..Len(wire)
            BY <1>2
          <5>2. ok => wire[1].cmd = "STOP" /\ wire[1].stage = "ok"
            BY <2>4, <4>3, <5>1 DEF Quiet
          <5>3. ~ok
            BY <2>5, <3>3, <5>1, <5>2 DEF Sound, Stopped
          <5>4. Quiet(w)
            BY <3>1, <3>3, <4>3 DEF Sound, Accounted
          <5>5. QED  BY <4>3, <5>3, <5>4
        <4>4. QED  BY <2>5, <3>3, <4>1, <4>2, <4>3 DEF Sound, Accounted
      <3>4. QED  BY <2>3, <3>1, <3>2, <3>3 DEF Ended, Sound
    <2>6. \E g \in CommandDone(h, ok) : Moves(g)
      BY <2>1 DEF Ends
    <2>7. SoundUnlessBlocked(h', w, session)
      BY <1>1, <1>2, <2>2, <2>4, <2>5, <2>6, DoneSound DEF SoundUnlessBlocked
    <2>8. QED  BY <1>4, <2>7
  <1>6. CASE ~Taken(ok)
    <2>1. h' = h
      BY <1>6 DEF ResultLine
    <2>2. SoundUnlessBlocked(h, w, session)
      BY <1>1, <1>3 DEF SoundUnlessBlocked
    <2>3. QED  BY <1>4, <2>1, <2>2
  <1>7. QED  BY <1>5, <1>6

LEMMA LostSession ==
    ASSUME SessionInv, h.verified, Lost
    PROVE  SoundUnlessBlocked(h, wire, session)'
  <1>1. /\ wire \in Seq(Entry) /\ wire # <<>> /\ wire[1].stage \in {"ok", "error", "over"}
        /\ SoundUnlessBlocked(h, wire, session)
    BY SessionFacts DEF Lost, Head1
  <1>2. h' = h /\ wire' = Tail(wire) /\ session' = session
    BY DEF Lost, modem
  <1>3. SoundUnlessBlocked(h, Tail(wire), session)
    BY <1>1, TailSound DEF SoundUnlessBlocked
  <1>4. QED  BY <1>2, <1>3

(* The +QHTTP answers of the modem end its own commands.                   *)
LEMMA ReportedTwin ==
    ASSUME NEW g \in Adapter, NEW a \in Answer \cup {"none"}, NEW fits \in BOOLEAN
    PROVE  LET x == [g EXCEPT !.status = a, !.fits = fits] IN x \in Adapter /\ Twin(x, g)
  <1>1. [g EXCEPT !.status = a, !.fits = fits] \in Adapter
    BY DEF Adapter
  <1>2. QED  BY <1>1 DEF Adapter, Twin

LEMMA PostedSession ==
    ASSUME SessionInv, h.verified, Posted
    PROVE  SoundUnlessBlocked(h, wire, session)'
  <1>1. /\ h \in Adapter /\ wire \in Seq(Entry) /\ IInv /\ session \in Session
        /\ SoundUnlessBlocked(h, wire, session)
    BY SessionFacts
  <1>2. PICK ok \in BOOLEAN, fits \in BOOLEAN :
          /\ session' = IF ok THEN [session EXCEPT !.stage = "posted"]
                        ELSE [stage |-> "closed", answer |-> "none"]
          /\ IF h.state = "POST" /\ OnWire
             THEN UrcEnds(IF ok THEN [h EXCEPT !.status = session.answer, !.fits = fits] ELSE h, ok)
             ELSE UNCHANGED <<e, h, gate, trial>>
    BY DEF Posted
  <1>3. wire' = wire /\ session.stage = "posting" /\ Behind("POST")
    BY DEF Posted
  <1>4. session'.stage = IF ok THEN "posted" ELSE "closed"
    BY <1>1, <1>2 DEF Session
  <1>5. CASE h.state = "POST" /\ OnWire
    <2> DEFINE g == IF ok THEN [h EXCEPT !.status = session.answer, !.fits = fits] ELSE h
    <2>1. g \in Adapter /\ Twin(g, h)
      <3>1. session.answer \in Answer \cup {"none"} /\ h \in Adapter
        BY <1>1 DEF Session
      <3> DEFINE x == [h EXCEPT !.status = session.answer, !.fits = fits]
      <3>2. x \in Adapter /\ Twin(x, h)
        BY <3>1, ReportedTwin
      <3>3. Twin(h, h)
        BY DEF Twin
      <3>4. g = x \/ g = h
        OBVIOUS
      <3> HIDE DEF x, g
      <3>5. QED  BY <3>1, <3>2, <3>3, <3>4
    <2>2. \E f \in CommandDone(g, ok) : Moves(f)
      BY <1>2, <1>5 DEF UrcEnds
    <2>3. h.link \in {"sent", "given"} /\ h.state \in Http
      BY <1>1, <1>5 DEF OnWire, Adapter, Http
    <2> HIDE DEF g
    <2>4. ASSUME Sound(h, wire, session) PROVE Ended(g, ok, wire, session')
      <3>1. wire = <<>> \/ (Len(wire) = 1 /\ wire[1].cmd = "POST" /\ wire[1].stage = "ok")
        BY <1>3, <1>5, <2>4 DEF Sound, Accounted
      <3>2. wire = <<>>
        BY <1>1, <1>3, <3>1 DEF Behind
      <3>3. QED  BY <1>4, <1>5, <2>1, <3>2 DEF Ended, Quiet, Stopped, Twin
    <2>5. SoundUnlessBlocked(h', wire, session')
      <3>1. g.state \in Http /\ g.link \in {"sent", "given"} /\ g.verified
        BY <2>1, <2>3 DEF Twin
      <3>2. g.blocked \/ Ended(g, ok, wire, session')
        BY <1>1, <2>1, <2>4 DEF SoundUnlessBlocked, Twin
      <3>3. QED  BY <1>1, <2>1, <2>2, <3>1, <3>2, DoneSound
    <2>6. QED  BY <1>3, <2>5
  <1>6. CASE ~(h.state = "POST" /\ OnWire)
    <2>1. h' = h
      BY <1>2, <1>6
    <2>2. ASSUME Sound(h, wire, session) PROVE Sound(h, wire, session')
      <3>1. h.state = "STOP" /\ Quiet(wire)
        BY <1>3, <1>6, <2>2 DEF Sound, Accounted, OnWire
      <3>2. Stopped(wire, session')
        BY <1>3, <2>2 DEF Sound, Stopped
      <3>3. QED  BY <2>2, <3>1, <3>2 DEF Sound, Accounted
    <2>3. QED  BY <1>1, <1>3, <2>1, <2>2 DEF SoundUnlessBlocked
  <1>7. QED  BY <1>5, <1>6

LEMMA ReadDoneSession ==
    ASSUME SessionInv, h.verified, ReadDone
    PROVE  SoundUnlessBlocked(h, wire, session)'
  <1>1. /\ h \in Adapter /\ wire \in Seq(Entry) /\ IInv /\ session \in Session
        /\ SoundUnlessBlocked(h, wire, session)
    BY SessionFacts
  <1>2. PICK ok \in BOOLEAN :
          /\ session' = IF ok THEN [stage |-> "closed", answer |-> "none"]
                        ELSE [session EXCEPT !.stage = "posted"]
          /\ IF h.state = "READ" /\ OnWire THEN UrcEnds(h, ok)
             ELSE UNCHANGED <<e, h, gate, trial>>
    BY DEF ReadDone
  <1>3. wire' = wire /\ session.stage = "reading" /\ Behind("READ")
    BY DEF ReadDone
  <1>4. session'.stage = IF ok THEN "closed" ELSE "posted"
    BY <1>1, <1>2 DEF Session
  <1>5. CASE h.state = "READ" /\ OnWire
    <2>1. \E f \in CommandDone(h, ok) : Moves(f)
      BY <1>2, <1>5 DEF UrcEnds
    <2>2. h.link \in {"sent", "given"} /\ h.state \in Http
      BY <1>1, <1>5 DEF OnWire, Adapter, Http
    <2>3. ASSUME Sound(h, wire, session) PROVE Ended(h, ok, wire, session')
      <3>1. wire = <<>> \/ (Len(wire) = 1 /\ wire[1].cmd = "READ" /\ wire[1].stage # "over")
        BY <1>5, <2>3 DEF Sound, ReadsOwn
      <3>2. wire = <<>>
        BY <1>1, <1>3, <3>1 DEF Behind
      <3>3. QED  BY <1>4, <1>5, <3>2 DEF Ended, Quiet, Stopped
    <2>4. SoundUnlessBlocked(h', wire, session')
      BY <1>1, <2>1, <2>2, <2>3, DoneSound DEF SoundUnlessBlocked
    <2>5. QED  BY <1>3, <2>4
  <1>6. CASE ~(h.state = "READ" /\ OnWire)
    <2>1. h' = h
      BY <1>2, <1>6
    <2>2. ASSUME Sound(h, wire, session) PROVE Sound(h, wire, session')
      <3>1. Stopped(wire, session')
        BY <1>3, <2>2 DEF Sound, Stopped
      <3>2. Accounted(h, wire, session')
        BY <1>3, <1>4, <2>2 DEF Sound, Accounted
      <3>3. QED  BY <2>2, <3>1, <3>2 DEF Sound
    <2>3. QED  BY <1>1, <1>3, <2>1, <2>2 DEF SoundUnlessBlocked
  <1>7. QED  BY <1>5, <1>6

LEMMA StepSession ==
    ASSUME Backlog <= Settings + 3, SessionInv, [Next]_vars
    PROVE  SessionInv'
  <1>1. PinnedInv' /\ SoundUnlessBlocked(h, wire, session)
    BY StepPinned DEF SessionInv
  <1>2. SUFFICES SoundUnlessBlocked(h, wire, session)'
    BY <1>1 DEF SessionInv
  <1>3. CASE UNCHANGED <<wire, session>> /\ Abreast(h', h)
    BY <1>1, <1>3, PoseKept
  <1>4. CASE UNCHANGED vars \/ PollTrial \/ TrialEnds \/ ServerDecides
    <2>1. UNCHANGED <<h, wire, session>>
      BY <1>4 DEF vars, modem, PollTrial, TrialEnds, ServerDecides
    <2>2. QED  BY <1>3, <2>1 DEF Abreast, Pose
  <1>5. CASE Cancel
    <2>1. Abreast(h', h) /\ UNCHANGED <<wire, session>>
      BY <1>5, SessionFacts DEF Cancel, modem, Abreast, Pose, Adapter
    <2>2. QED  BY <1>3, <2>1
  <1>6. CASE ~h.verified /\ Next
    BY <1>6, UnverifiedSession
  <1>7. CASE h.verified /\ (PrepareCa \/ Post \/ StartCommand \/ Timeout)
    BY <1>7, PostSession, StartCommandSession, TimeoutSession DEF PrepareCa
  <1>8. CASE h.verified /\ Modem
    BY <1>8, PromptsSession, RefusesSession, ObeysSession, ResultLineSession, LostSession,
       PostedSession, ReadDoneSession DEF Modem
  <1>9. CASE h.verified /\ (Quarantine \/ OnModemReset \/ AfterModemReset)
    BY <1>9, QuarantineSession, ResetSession
  <1>10. QED  BY <1>4, <1>5, <1>6, <1>7, <1>8, <1>9 DEF Next, Poll

LEMMA InitSession == Init => SessionInv
  <1> SUFFICES ASSUME Init PROVE SoundUnlessBlocked(h, wire, session)
    BY InitPinned DEF SessionInv
  <1>1. h.state = "IDLE" /\ wire = <<>> /\ session.stage = "closed"
    BY DEF Init
  <1>2. Clean(wire, session)
    BY <1>1 DEF Clean
  <1>3. QED  BY <1>1, <1>2, CleanSound DEF SoundUnlessBlocked

(* A new request can be made only when the last one has left no HTTP       *)
(* session open in the modem (stop_http, finish), however many answers     *)
(* come late, as long as the modem owes no more of them than the commands  *)
(* that lead from one POST to the next.                                    *)
THEOREM NoSessionIsLeftOpen ==
    ASSUME Backlog <= Settings + 3
    PROVE  Spec => []SessionClosed
  <1>1. SessionInv => SessionClosed
    <2> SUFFICES ASSUME SessionInv, Restful PROVE session.stage = "closed"
      BY DEF SessionClosed
    <2>1. Sound(h, wire, session) /\ h.state = "IDLE"
      BY SessionFacts DEF Restful, SoundUnlessBlocked
    <2>2. QED  BY <2>1 DEF Sound, Accounted
  <1>2. QED  BY <1>1, InitSession, StepSession, PTL DEF Spec
=============================================================================
