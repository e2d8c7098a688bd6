-------------------------- MODULE ConfigTrialProofs --------------------------
(***************************************************************************)
(* What ConfigTrial keeps for every set of configurations and every number *)
(* of trials.  The handlers work on the pair of the trial and its slot, so *)
(* the invariant is stated of such a pair: what Poll, React and Event make *)
(* of it is proved once, and each action cites that.                       *)
(***************************************************************************)
EXTENDS ConfigTrial, TLAPS

TrialType == [state : State, session : Session, active : Choice, candidate : Choice]
Undoing == {"restoring", "restore_failed", "failed"}
Candidate == {"connecting", "subscribing", "verifying", "committing", "committed"}
Reported == {"accepted", "prepared", "connected", "subscribed", "proved", "restored", "error"}

(* An action that waits or is at work belongs to the state of its trial.   *)
Waits(t, q) ==
    /\ q.session <= t.session
    /\ q.action # "none" /\ q.session = t.session =>
          /\ t.state \in StateOf(q.action)
          /\ q.config = IF q.action = "restore" THEN t.active ELSE t.candidate
Works(t, q) ==
    /\ work.session <= t.session
    /\ work.action = "restore" /\ work.session = t.session =>
          t.state \in Undoing /\ work.config = t.active
    /\ work.action = "commit" /\ work.session = t.session =>
          /\ t.state \in {"committing", "committed"} \cup Undoing
          /\ q.session = t.session => q.action \in {"none", "restore"}

(* What a trial is about.                                                  *)
Sane(t) ==
    /\ t.session = 0 <=> t.state = "idle"
    /\ running(t) => t.candidate \in Config /\ t.candidate # t.active
    /\ t.state = "committed" => t.active = t.candidate

(* The connection the trial believes in.                                   *)
Drives(t, q) ==
    /\ t.state \in Candidate => net.config = t.candidate
    /\ t.state = "preparing" => HasPending(t, q) \/ net.config = t.candidate
    /\ t.state \in {"wait_accept", "failed"} => net.config = t.active
    /\ t.state = "idle" => net.config = stored

Sound(t, q) ==
    /\ t \in TrialType /\ q \in Work
    /\ Waits(t, q) /\ Works(t, q) /\ Sane(t) /\ Drives(t, q)

Flash ==
    /\ trial.state \notin {"idle", "restoring", "restore_failed"} => stored = trial.active
    /\ trial.state \in {"restoring", "restore_failed"} => stored \in {trial.active, Damaged}
    /\ trial.state = "idle" => stored \in Choice

ProofAccepted == trial.state = "committing" => proved = trial.candidate

IInv == TypeOK /\ Sound(trial, slot) /\ Flash /\ ProofAccepted
-----------------------------------------------------------------------------
(* What a call leaves of a trial: the same session about the same          *)
(* configurations, further along, or undone.                               *)
Same(t, u) == /\ u.session = t.session /\ u.active = t.active /\ u.candidate = t.candidate
Moves(t, u, event) ==
    /\ u.state \notin Undoing => u.state = t.state \/ (running(t) /\ running(u))
    /\ u.state = "restoring" => running(t) \/ t.state = "restoring"
    /\ u.state = "restore_failed" => running(t) \/ t.state \in {"restoring", "restore_failed"}
    /\ u.state = "failed" =>
          t.state = "failed" \/ (event = "restored" /\ (running(t) \/ t.state = "restoring"))
    /\ u.state = "committing" =>
          t.state = "committing" \/ (t.state = "verifying" /\ event = "proved")

(* An action belongs to the states that asked for it.                      *)
LEMMA ActionStates ==
    /\ StateOf("prepare") = {"preparing"} /\ StateOf("connect") = {"connecting"}
    /\ StateOf("subscribe") = {"subscribing"} /\ StateOf("verify") = {"verifying"}
    /\ StateOf("commit") = {"committing"} /\ StateOf("restore") = Undoing
BY DEF StateOf, Undoing

(* A running trial that is undone is sound.                                *)
LEMMA RestoreSound ==
    ASSUME NEW t, NEW q, Sound(t, q), running(t), NEW event
    PROVE  /\ Restore(t) = <<Restore(t)[1], Restore(t)[2]>>
           /\ Restore(t)[1].state = "restoring" /\ Restore(t)[2].action = "restore"
           /\ Sound(Restore(t)[1], Restore(t)[2])
           /\ Same(t, Restore(t)[1]) /\ Moves(t, Restore(t)[1], event)
<1> DEFINE u == [t EXCEPT !.state = "restoring"]
           e == Entry(t, "restore")
<1>1. Restore(t) = <<u, e>> /\ Restore(t)[1] = u /\ Restore(t)[2] = e
  BY DEF Restore
<1>2. u \in TrialType /\ u.state = "restoring" /\ Same(t, u)
  BY DEF Sound, TrialType, State, Same
<1>3. e \in Work /\ e.action = "restore" /\ e.session = t.session /\ e.config = t.active
  BY DEF Sound, TrialType, Work, Action, Entry
<1>4. Waits(u, e)
  BY <1>2, <1>3, ActionStates DEF Waits, Same, Undoing, TrialType, Session
<1>5. Works(u, e)
  BY <1>2, <1>3 DEF Sound, Works, Same, Undoing, running
<1>6. Sane(u) /\ Drives(u, e)
  BY <1>2 DEF Sound, Sane, Drives, Same, running, Candidate
<1>7. Moves(t, u, event)
  BY <1>2 DEF Moves, Undoing
<1> QED
  BY <1>1, <1>2, <1>3, <1>4, <1>5, <1>6, <1>7 DEF Sound

(* Poll keeps a sound pair sound.                                          *)
LEMMA PollSound ==
    ASSUME NEW t, NEW q, Sound(t, q), NEW p \in Poll(t, q), NEW event
    PROVE  /\ p = <<p[1], p[2]>>
           /\ Sound(p[1], p[2]) /\ Same(t, p[1]) /\ Moves(t, p[1], event)
           /\ p[1].state \notin Undoing => p = <<t, q>>
<1>1. CASE p = <<t, q>>
  BY <1>1 DEF Same, Moves, Undoing
<1>2. CASE timed(t) /\ p = Restore(t)
  <2>1. running(t)
    BY <1>2 DEF timed
  <2> QED
    BY <1>2, <2>1, RestoreSound DEF Undoing
<1>3. CASE t.state = "restoring" /\ p = <<[t EXCEPT !.state = "restore_failed"], q>>
  <2> DEFINE u == [t EXCEPT !.state = "restore_failed"]
  <2>1. u \in TrialType /\ u.state = "restore_failed" /\ Same(t, u)
    BY <1>3 DEF Sound, TrialType, State, Same
  <2>2. Waits(u, q)
    BY <1>3, <2>1, ActionStates DEF Sound, Waits, Same, Work, Action, StateOf, Undoing
  <2>3. Works(u, q) /\ Sane(u) /\ Drives(u, q)
    BY <1>3, <2>1 DEF Sound, Works, Sane, Drives, Same, Undoing, running, Candidate
  <2> QED
    BY <1>3, <2>1, <2>2, <2>3 DEF Sound, Moves, Undoing
<1> QED
  BY <1>1, <1>2, <1>3 DEF Poll

(* Enter: the next state and its action, or a restoration.                 *)
LEMMA EnterSound ==
    ASSUME NEW t, NEW q, Sound(t, q), running(t),
           NEW event \in {"accepted", "prepared", "connected", "subscribed", "proved"},
           t.state = Successor(event)[1]
    PROVE  LET p == Enter(t, q, Successor(event)[2], Successor(event)[3])
           IN  /\ p = <<p[1], p[2]>>
               /\ Sound(p[1], p[2]) /\ Same(t, p[1]) /\ Moves(t, p[1], event)
<1> DEFINE next == Successor(event)[2]
           action == Successor(event)[3]
           p == Enter(t, q, next, action)
           u == [t EXCEPT !.state = next]
           e == Entry(t, action)
<1>1. CASE ~Accepts(q, action)
  BY <1>1, RestoreSound DEF Enter
<1>2. CASE Accepts(q, action)
  <2>1. p = <<u, e>>
    BY <1>2 DEF Enter
  <2>2. /\ <<t.state, next, action>> \in {<<"wait_accept", "preparing", "prepare">>,
              <<"preparing", "connecting", "connect">>, <<"connecting", "subscribing", "subscribe">>,
              <<"subscribing", "verifying", "verify">>, <<"verifying", "committing", "commit">>}
        /\ next = "committing" => event = "proved"
    BY DEF Successor
  <2>3. q.action = "none"
    BY <1>2, <2>2 DEF Accepts
  <2>4. u \in TrialType /\ u.state = next /\ Same(t, u)
    BY <2>2 DEF Sound, TrialType, State, Same
  <2>5. e \in Work /\ e.action = action /\ e.session = t.session /\ e.config = t.candidate
    BY <2>2 DEF Sound, TrialType, Work, Action, Entry
  <2>6. Waits(u, e)
    BY <2>2, <2>4, <2>5, ActionStates DEF Waits, Same, TrialType, Session
  <2>7. Works(u, e) /\ Sane(u)
    BY <2>2, <2>4 DEF Sound, Works, Sane, Same, running, Undoing
  <2>8. Drives(u, e)
    BY <2>2, <2>3, <2>4, <2>5 DEF Sound, Drives, Same, HasPending, Candidate
  <2>9. Moves(t, u, event)
    BY <2>2, <2>4 DEF Moves, Undoing, running
  <2> QED
    BY <2>1, <2>4, <2>5, <2>6, <2>7, <2>8, <2>9 DEF Sound
<1> QED
  BY <1>1, <1>2

(* React keeps a sound pair sound.                                         *)
LEMMA ReactSound ==
    ASSUME NEW t, NEW q, Sound(t, q), NEW event \in Reported, NEW own,
           event = "restored" => net.config = t.active
    PROVE  LET p == React(t, q, event, own)
           IN  /\ p = <<p[1], p[2]>>
               /\ Sound(p[1], p[2]) /\ Same(t, p[1]) /\ Moves(t, p[1], event)
<1> DEFINE p == React(t, q, event, own)
<1>1. CASE p = <<t, q>>
  BY <1>1 DEF Same, Moves
<1>2. CASE t.state = "restoring" /\ event \in {"restored", "error"}
  <2> DEFINE end == IF event = "restored" THEN "failed" ELSE "restore_failed"
             u == [t EXCEPT !.state = end]
  <2>1. p = <<u, q>>
    <3>1. CASE event = "restored"
      BY <1>2, <3>1 DEF React, running
    <3>2. CASE event = "error"
      BY <1>2, <3>2 DEF React, running
    <3> QED
      BY <1>2, <3>1, <3>2
  <2>2. u \in TrialType /\ Same(t, u)
        /\ u.state = end
    BY <1>2 DEF Sound, TrialType, State, Same
  <2>3. Waits(u, q)
    BY <1>2, <2>2, ActionStates DEF Sound, Waits, Same, Work, Action, StateOf, Undoing
  <2>4. Works(u, q) /\ Sane(u) /\ Drives(u, q)
    BY <1>2, <2>2 DEF Sound, Works, Sane, Drives, Same, Undoing, running, Candidate
  <2>5. Moves(t, u, event)
    BY <1>2, <2>2 DEF Moves, Undoing
  <2> QED
    BY <2>1, <2>2, <2>3, <2>4, <2>5 DEF Sound
<1>3. CASE running(t) /\ event = "error"
  <2>1. p = Restore(t)
    BY <1>3 DEF React, running
  <2> QED
    BY <1>3, <2>1, RestoreSound
<1>4. CASE /\ running(t) /\ event \notin {"error", "restored"}
           /\ t.state = Successor(event)[1]
           /\ p = Enter(t, q, Successor(event)[2], Successor(event)[3])
  BY <1>4, EnterSound DEF Reported
<1>5. t.state = "restoring" => ~running(t)
  BY DEF running
<1>6. event # "saved"
  BY DEF Reported
<1> QED
  BY <1>1, <1>2, <1>3, <1>4, <1>5, <1>6 DEF React

(* So does Event, for the present session and for an old one.              *)
LEMMA EventSound ==
    ASSUME NEW t, NEW q, Sound(t, q), NEW session, NEW event \in Reported, NEW own,
           event = "restored" => net.config = t.active,
           NEW p \in Event(t, q, session, event, own)
    PROVE  /\ p = <<p[1], p[2]>>
           /\ Sound(p[1], p[2]) /\ Same(t, p[1]) /\ Moves(t, p[1], event)
<1>1. CASE p = <<t, q>>
  BY <1>1 DEF Same, Moves
<1>2. CASE \E r \in Poll(t, q) : p = React(r[1], r[2], event, own)
  <2>1. PICK r \in Poll(t, q) : p = React(r[1], r[2], event, own)
    BY <1>2
  <2>2. Sound(r[1], r[2]) /\ Same(t, r[1]) /\ Moves(t, r[1], event)
        /\ (r[1].state \notin Undoing => r = <<t, q>>)
    BY <2>1, PollSound
  <2>3. p = <<p[1], p[2]>> /\ Sound(p[1], p[2]) /\ Same(r[1], p[1]) /\ Moves(r[1], p[1], event)
    BY <2>1, <2>2, ReactSound DEF Same
  <2>4. Same(t, p[1])
    BY <2>2, <2>3 DEF Same
  <2>5. Moves(t, p[1], event)
    BY <2>2, <2>3 DEF Moves, Undoing, running
  <2> QED
    BY <2>3, <2>4, <2>5
<1> QED
  BY <1>1, <1>2 DEF Event

-----------------------------------------------------------------------------
(* The initial states satisfy the invariant.                               *)
LEMMA InitIInv == Init => IInv
<1> SUFFICES ASSUME Init PROVE IInv
  OBVIOUS
<1>1. TypeOK /\ trial.state = "idle" /\ trial.session = 0
  BY TrialAssumption DEF Init, TypeOK, NoWork, Work, Action, Session, Choice, State, NetState
<1>2. Sound(trial, slot)
  BY <1>1 DEF Init, TypeOK, Sound, TrialType, Waits, Works, Sane, Drives, NoWork, running,
              Candidate, Choice
<1>3. Flash /\ ProofAccepted
  BY <1>1 DEF Flash, ProofAccepted, Init, Choice
<1> QED
  BY <1>1, <1>2, <1>3 DEF IInv

(* A call that writes nothing keeps what is in Flash in step with the      *)
(* trial.                                                                  *)
LEMMA MovesKeep ==
    ASSUME IInv, NEW u, Same(trial, u), NEW event, Moves(trial, u, event), trial' = u,
           event = "restored" => stored = trial.active,
           (trial.state = "idle" <=> u.state = "idle"),
           stored' = stored,
           proved' \in {proved, trial.candidate},
           u.state = "committing" => trial.state = "committing" \/ proved' = trial.candidate
    PROVE  Flash' /\ ProofAccepted'
<1>1. Flash'
  BY DEF IInv, Flash, Moves, Same, Undoing, running
<1>2. ProofAccepted'
  BY DEF IInv, ProofAccepted, Moves, Same
<1> QED
  BY <1>1, <1>2

(* A pair that is sound for the present network and work is a typed state. *)
LEMMA SoundTypes ==
    ASSUME NEW u, NEW e, Sound(u, e) PROVE u \in TrialType /\ e \in Work
BY DEF Sound

(* An event of the product.                                                *)
LEMMA ReportKeeps ==
    ASSUME IInv, NEW session, NEW event \in Reported, NEW own, Report(session, event, own),
           event = "restored" => net.config = trial.active /\ stored = trial.active
    PROVE  IInv'
<1>1. PICK p \in Event(trial, slot, session, event, own) :
         /\ Becomes(p)
         /\ proved' = IF p[1].state = "committing" /\ trial.state = "verifying"
                      THEN trial.candidate ELSE proved
  BY DEF Report
<1>2. Sound(p[1], p[2]) /\ Same(trial, p[1]) /\ Moves(trial, p[1], event)
  BY <1>1, EventSound DEF IInv
<1>3. trial' = p[1] /\ slot' = p[2] /\ UNCHANGED <<work, net, proofs, stored>>
  BY <1>1 DEF Becomes, Report
<1>4. TypeOK'
  <2>1. trial \in TrialType /\ trial.candidate \in Choice /\ proved \in Choice
    BY DEF IInv, TypeOK, TrialType
  <2> QED
    BY <1>1, <1>2, <1>3, <2>1, SoundTypes DEF IInv, TypeOK, TrialType
<1>5. Sound(trial, slot)'
  BY <1>2, <1>3 DEF Sound, Works, Drives
<1>6. trial.state = "idle" <=> p[1].state = "idle"
  BY <1>2 DEF Sound, Sane, Same, IInv
<1>7. Flash' /\ ProofAccepted'
  BY <1>1, <1>2, <1>3, <1>6, MovesKeep DEF Moves
<1> QED
  BY <1>4, <1>5, <1>7 DEF IInv

(* The product starts a trial.                                             *)
LEMMA StartKeeps ==
    ASSUME IInv, NEW c \in Config, Start(c) \/ StartFirst(c)
    PROVE  IInv'
<1>1. /\ trial \in TrialType /\ trial.session + 1 \in Session /\ trial.session \in Session
      /\ trial.session + 1 # trial.session /\ trial.session < trial.session + 1
  BY TrialAssumption DEF Start, StartFirst, MayStart, IInv, TypeOK, TrialType, Session
<1>2. stored = trial.active \/ trial.state = "idle"
  BY DEF IInv, Flash, Start, StartFirst, MayStart
<1>3. net.config = stored
  <2>1. trial.state \in {"idle", "committed", "failed"}
    BY DEF IInv, TypeOK, State, Start, StartFirst, MayStart, running
  <2> QED
    BY <1>2, <2>1 DEF IInv, Sound, Drives, Sane, Candidate
<1>4. stored \in Choice
  BY <1>1, <1>2 DEF IInv, Flash, TrialType
<1>5. slot.session <= trial.session /\ work.session <= trial.session
      /\ slot.session \in Session /\ work.session \in Session
  BY DEF IInv, Sound, Waits, Works, TypeOK, Work
<1>6. CASE Start(c)
  <2> DEFINE u == NewTrial("wait_accept", stored, c)
  <2>1. u \in TrialType /\ u.state = "wait_accept" /\ u.session = trial.session + 1
        /\ u.active = stored /\ u.candidate = c
    BY <1>1, <1>4 DEF NewTrial, TrialType, State, Choice
  <2>2. trial' = u /\ UNCHANGED <<slot, work, net, proofs, stored>> /\ proved' = NoConfig
        /\ c # stored
    BY <1>6 DEF Start
  <2>3. slot.session < u.session /\ work.session < u.session
    BY <1>1, <1>5, <2>1 DEF Session
  <2>4. Sound(u, slot)
    BY <1>1, <1>3, <1>5, <2>1, <2>2, <2>3
       DEF Sound, Waits, Works, Sane, Drives, running, Candidate, IInv, TypeOK, Session
  <2>5. Sound(trial, slot)' /\ TypeOK'
    BY <2>1, <2>2, <2>4 DEF Sound, Works, Drives, IInv, TypeOK, TrialType, Choice
  <2>6. Flash' /\ ProofAccepted'
    BY <2>1, <2>2 DEF Flash, ProofAccepted
  <2> QED
    BY <2>5, <2>6 DEF IInv
<1>7. CASE StartFirst(c)
  <2> DEFINE t == NewTrial("preparing", NoConfig, c)
             p == Enter(t, slot, "preparing", "prepare")
  <2>1. t \in TrialType /\ t.state = "preparing" /\ t.session = trial.session + 1
        /\ t.active = NoConfig /\ t.candidate = c
    BY <1>1 DEF NewTrial, TrialType, State, Choice
  <2>2. trial' = p[1] /\ slot' = p[2] /\ UNCHANGED <<work, net, proofs, stored>>
        /\ proved' = NoConfig /\ stored = NoConfig
    BY <1>7 DEF StartFirst, Becomes
  <2>3. \E state \in {"preparing", "restoring"} :
           p = <<[t EXCEPT !.state = state],
                 Entry(t, IF state = "preparing" THEN "prepare" ELSE "restore")>>
    <3>1. p = <<[t EXCEPT !.state = "preparing"], Entry(t, "prepare")>>
          \/ p = <<[t EXCEPT !.state = "restoring"], Entry(t, "restore")>>
      BY DEF Enter, Restore
    <3> QED
      BY <3>1
  <2>4. PICK state \in {"preparing", "restoring"} :
           p = <<[t EXCEPT !.state = state],
                 Entry(t, IF state = "preparing" THEN "prepare" ELSE "restore")>>
    BY <2>3
  <2> DEFINE u == [t EXCEPT !.state = state]
             action == IF state = "preparing" THEN "prepare" ELSE "restore"
             e == Entry(t, action)
  <2>5. trial' = u /\ slot' = e
    BY <2>2, <2>4
  <2>6. u \in TrialType /\ u.state = state /\ u.session = trial.session + 1
        /\ u.active = NoConfig /\ u.candidate = c
    BY <2>1 DEF TrialType, State
  <2>7. e \in Work /\ e.action = action /\ e.session = u.session
        /\ e.config = IF action = "restore" THEN u.active ELSE u.candidate
    BY <1>1, <2>1, <2>6 DEF Entry, Work, Action, Choice
  <2>8. work.session < u.session
    BY <1>1, <1>5, <2>6 DEF Session
  <2>9. Waits(u, e) /\ Works(u, e)
    BY <1>1, <2>6, <2>7, <2>8, <1>5, ActionStates DEF Waits, Works, Undoing, Session
  <2>10. Sane(u) /\ Drives(u, e)
    BY <1>1, <2>6, <2>7, TrialAssumption DEF Sane, Drives, running, HasPending, Candidate, Session
  <2>11. Sound(trial, slot)' /\ TypeOK'
    BY <2>2, <2>5, <2>6, <2>7, <2>9, <2>10
       DEF Sound, Works, Drives, IInv, TypeOK, TrialType, Choice
  <2>12. Flash' /\ ProofAccepted'
    BY <2>2, <2>5, <2>6 DEF Flash, ProofAccepted
  <2> QED
    BY <2>11, <2>12 DEF IInv
<1> QED
  BY <1>6, <1>7

(* The product gives up, or has put the old configuration back.            *)
LEMMA CancelKeeps ==
    ASSUME IInv, Cancel PROVE IInv'
<1>1. running(trial) /\ Sound(trial, slot) /\ UNCHANGED <<work, net, proofs, stored, proved>>
  BY DEF Cancel, IInv
<1>2. CASE trial.state = "wait_accept"
  <2>1. trial' = [trial EXCEPT !.state = "failed"] /\ slot' = slot
    BY <1>2 DEF Cancel
  <2>2. trial' \in TrialType /\ trial'.state = "failed" /\ Same(trial, trial')
    BY <1>1, <2>1 DEF Sound, TrialType, State, Same
  <2>3. Waits(trial', slot)
    BY <1>1, <1>2, <2>2, ActionStates DEF Sound, Waits, Same, Undoing, Work, Action, StateOf
  <2>4. Sound(trial, slot)'
    BY <1>1, <1>2, <2>1, <2>2, <2>3
       DEF Sound, Works, Sane, Drives, Same, Undoing, running, Candidate, Waits
  <2>5. TypeOK'
    BY <1>1, <2>1, <2>2 DEF IInv, TypeOK, TrialType
  <2>6. Flash' /\ ProofAccepted'
    BY <1>1, <1>2, <2>2 DEF IInv, Flash, ProofAccepted, Same
  <2> QED
    BY <2>4, <2>5, <2>6 DEF IInv
<1>3. CASE trial.state # "wait_accept"
  <2>1. trial' = Restore(trial)[1] /\ slot' = Restore(trial)[2]
    BY <1>3 DEF Cancel, Becomes
  <2>2. /\ Sound(trial', slot') /\ Same(trial, trial') /\ Moves(trial, trial', "error")
        /\ trial'.state = "restoring"
    BY <1>1, <2>1, RestoreSound
  <2>3. Sound(trial, slot)'
    BY <1>1, <2>2 DEF Sound, Works, Drives
  <2>4. TypeOK'
    BY <1>1, <2>2, SoundTypes DEF IInv, TypeOK, TrialType
  <2>5. trial.state # "idle"
    BY <1>1 DEF running
  <2>6. Flash' /\ ProofAccepted'
    BY <1>1, <2>2, <2>5, MovesKeep
  <2> QED
    BY <2>3, <2>4, <2>6 DEF IInv
<1> QED
  BY <1>2, <1>3

LEMMA RecoveryKeeps ==
    ASSUME IInv, RecoveryComplete PROVE IInv'
<1>1. /\ trial.state = "restore_failed" /\ trial' = [trial EXCEPT !.state = "failed"]
      /\ stored' = trial.active /\ net' = [config |-> trial.active, state |-> "down"]
      /\ work' = NoWork /\ UNCHANGED <<slot, proofs, proved>>
  BY DEF RecoveryComplete
<1>2. trial' \in TrialType /\ trial'.state = "failed" /\ Same(trial, trial') /\ trial.active \in Choice
  BY <1>1 DEF IInv, Sound, TrialType, State, Same
<1>3. Waits(trial', slot)
  BY <1>1, <1>2, ActionStates DEF IInv, Sound, Waits, Same, Undoing, Work, Action, StateOf
<1>4. Works(trial, slot)' /\ work' \in Work
  BY <1>1, <1>2, TrialAssumption DEF Works, NoWork, Work, Action, Session, Choice, TrialType
<1>5. Sane(trial') /\ Drives(trial, slot)'
  BY <1>1, <1>2 DEF IInv, Sound, Sane, Drives, Same, running, Candidate
<1>6. Sound(trial, slot)'
  BY <1>1, <1>2, <1>3, <1>4, <1>5 DEF IInv, Sound, Waits, Sane, running
<1>7. TypeOK'
  BY <1>1, <1>2, <1>4 DEF IInv, TypeOK, TrialType, Choice, NetState
<1>8. Flash' /\ ProofAccepted'
  BY <1>1, <1>2 DEF Flash, ProofAccepted, Same
<1> QED
  BY <1>6, <1>7, <1>8 DEF IInv

(* The owner takes the action that waits, or finds the deadline passed.    *)
LEMMA MaintenanceKeeps ==
    ASSUME IInv, MaintenancePoll
    PROVE  IInv' /\ Same(trial, trial') /\ Moves(trial, trial', "error")
<1>1. PICK p \in Poll(trial, slot) :
         \/ /\ ~HasPending(p[1], p[2]) /\ Becomes(<<p[1], NoWork>>)
            /\ UNCHANGED <<work, net, proofs>>
         \/ /\ HasPending(p[1], p[2]) /\ Becomes(<<p[1], NoWork>>) /\ Begun(p[2])
         \/ /\ HasPending(p[1], p[2]) /\ Becomes(React(p[1], NoWork, "error", FALSE))
            /\ UNCHANGED <<work, net, proofs>>
  BY DEF MaintenancePoll
<1> DEFINE t == p[1]
           q == p[2]
<1>2. Sound(t, q) /\ Same(trial, t) /\ Moves(trial, t, "error")
  BY PollSound DEF IInv
<1>3. UNCHANGED <<stored, proved>>
  BY DEF MaintenancePoll
<1>4. NoWork \in Work /\ Waits(t, NoWork)
  BY <1>2, TrialAssumption DEF NoWork, Work, Action, Session, Choice, Sound, TrialType, Waits
<1>5. trial.state = "idle" <=> t.state = "idle"
  BY <1>2 DEF Sound, Sane, Same, IInv
<1>6. ASSUME trial' = t PROVE Flash' /\ ProofAccepted'
  <2>1. t.state = "committing" => trial.state = "committing"
    BY <1>2 DEF Moves
  <2> HIDE DEF t
  <2> QED
    BY <1>2, <1>3, <1>5, <1>6, <2>1, MovesKeep
<1>7. CASE ~HasPending(t, q) /\ Becomes(<<t, NoWork>>) /\ UNCHANGED <<work, net, proofs>>
  <2>1. trial' = t /\ slot' = NoWork
    BY <1>7 DEF Becomes
  <2>2. Drives(t, NoWork)
    BY <1>2, <1>7 DEF Sound, Drives
  <2>3. Sound(trial, slot)' /\ TypeOK'
    BY <1>2, <1>3, <1>4, <1>7, <2>1, <2>2 DEF NoWork, Sound, Works, Drives, IInv, TypeOK, TrialType
  <2> QED
    BY <1>2, <1>6, <2>1, <2>3 DEF IInv
<1>8. CASE HasPending(t, q) /\ Becomes(<<t, NoWork>>) /\ Begun(q)
  <2>1. trial' = t /\ slot' = NoWork /\ work' = q
    BY <1>8 DEF Becomes, Begun
  <2>2. /\ q \in Work /\ q.session = t.session /\ t.state \in StateOf(q.action)
        /\ q.action # "none"
        /\ q.config = IF q.action = "restore" THEN t.active ELSE t.candidate
    BY <1>2, <1>8 DEF Sound, HasPending, Waits
  <2>3. /\ net'.config = IF q.action \in {"prepare", "restore"} THEN q.config ELSE net.config
        /\ net' \in [config : Choice, state : NetState]
    BY <1>8, <2>2 DEF Begun, IInv, TypeOK, Work, NetState
  <2>4. proofs' \subseteq Session
    BY <1>8, <2>2 DEF Begun, IInv, TypeOK, Work
  <2>5. Works(t, NoWork)'
    BY <1>2, <2>1, <2>2, ActionStates DEF NoWork, Works, Sound, TrialType, Session
  <2>6. Drives(t, NoWork)'
    <3>1. CASE q.action = "restore"
      BY <2>2, <2>3, <3>1, ActionStates DEF Drives, Undoing, Candidate
    <3>2. CASE q.action = "prepare"
      BY <2>2, <2>3, <3>2, ActionStates DEF Drives, Candidate
    <3>3. CASE q.action \notin {"restore", "prepare"}
      <4>1. t.state \in Candidate \ {"committed"}
        BY <2>2, <3>3, ActionStates DEF Work, Action, Candidate
      <4> QED
        BY <1>2, <2>3, <3>3, <4>1 DEF Sound, Drives, Candidate
    <3> QED
      BY <3>1, <3>2, <3>3
  <2>7. Sound(trial, slot)' /\ TypeOK'
    BY <1>2, <1>3, <1>4, <2>1, <2>2, <2>3, <2>4, <2>5, <2>6
       DEF Sound, Works, Drives, IInv, TypeOK, TrialType
  <2> QED
    BY <1>2, <1>6, <2>1, <2>7 DEF IInv
<1>9. CASE /\ HasPending(t, q) /\ Becomes(React(t, NoWork, "error", FALSE))
           /\ UNCHANGED <<work, net, proofs>>
  <2> DEFINE r == React(t, NoWork, "error", FALSE)
  <2>1. \/ running(t) /\ r = Restore(t)
        \/ t.state = "restoring" /\ r = <<[t EXCEPT !.state = "restore_failed"], NoWork>>
        \/ ~running(t) /\ t.state # "restoring" /\ r = <<t, NoWork>>
    BY DEF React, running
  <2>2. trial' = r[1] /\ slot' = r[2]
    BY <1>9 DEF Becomes
  <2> DEFINE stuck == [t EXCEPT !.state = "restore_failed"]
  <2>3. CASE running(t) /\ r = Restore(t)
    <3>1. Sound(r[1], r[2]) /\ Same(t, r[1]) /\ Moves(t, r[1], "error") /\ r[1].state = "restoring"
      BY <1>2, <2>3, RestoreSound
    <3>2. Same(trial, r[1]) /\ Moves(trial, r[1], "error")
      BY <1>2, <3>1 DEF Same, Moves, Undoing, running
    <3>3. Sound(trial, slot)' /\ TypeOK'
      BY <1>3, <1>9, <2>2, <3>1, SoundTypes DEF Sound, Works, Drives, IInv, TypeOK, TrialType
    <3>4. trial.state # "idle"
      BY <1>5, <2>3 DEF running
    <3> DEFINE u == r[1]
    <3>5. trial' = u /\ u.state = "restoring" /\ Same(trial, u) /\ Moves(trial, u, "error")
      BY <2>2, <3>1, <3>2
    <3> HIDE DEF u
    <3>6. Flash' /\ ProofAccepted'
      BY <1>3, <3>4, <3>5, MovesKeep
    <3> QED
      BY <3>3, <3>5, <3>6 DEF IInv
  <2>4. CASE t.state = "restoring" /\ r = <<stuck, NoWork>>
    <3>1. /\ trial' \in TrialType /\ trial'.state = "restore_failed" /\ Same(t, trial')
          /\ slot' = NoWork
      <4>1. trial' = stuck /\ slot' = NoWork
        <5> HIDE DEF r, stuck, t
        <5> QED BY <2>2, <2>4
      <4>2. t \in TrialType
        BY <1>2 DEF Sound
      <4> QED
        BY <4>1, <4>2 DEF TrialType, State, Same
    <3>2. Same(trial, trial') /\ Moves(trial, trial', "error")
      BY <1>2, <2>4, <3>1 DEF Same, Moves, Undoing, running
    <3>3. Sound(trial, slot)'
      BY <1>2, <1>4, <1>9, <2>4, <3>1
         DEF Sound, Waits, Works, Sane, Drives, Same, Undoing, running, Candidate, NoWork, TrialType, Session
    <3>4. TypeOK'
      BY <1>3, <1>4, <1>9, <3>1 DEF IInv, TypeOK, TrialType
    <3>5. Flash' /\ ProofAccepted'
      BY <1>3, <1>5, <2>4, <3>1, <3>2, MovesKeep
    <3> QED
      BY <3>2, <3>3, <3>4, <3>5 DEF IInv
  <2>5. CASE ~running(t) /\ t.state # "restoring" /\ r = <<t, NoWork>>
    <3>1. trial' = t /\ slot' = NoWork
      <4> HIDE DEF r, t
      <4> QED BY <2>2, <2>5
    <3>2. Drives(t, NoWork)
      BY <1>2, <2>5 DEF Sound, Drives, running
    <3>3. Sound(trial, slot)' /\ TypeOK'
      BY <1>2, <1>3, <1>4, <1>9, <3>1, <3>2 DEF NoWork, Sound, Works, Drives, IInv, TypeOK, TrialType
    <3> QED
      BY <1>2, <1>6, <3>1, <3>3 DEF IInv
  <2> QED
    BY <2>1, <2>3, <2>4, <2>5
<1> QED
  BY <1>1, <1>7, <1>8, <1>9

(* A step that only moves the trial, while the runtime stays with the      *)
(* configuration it drives.                                                *)
LEMMA MoveKeeps ==
    ASSUME IInv, NEW u, NEW e, Sound(u, e), Same(trial, u),
           NEW event \in Reported \ {"restored"}, Moves(trial, u, event),
           event # "proved", trial' = u, slot' = e,
           net' \in [config : Choice, state : NetState], net'.config = net.config,
           proofs' \subseteq Session, UNCHANGED <<work, stored, proved>>
    PROVE  IInv'
<1>1. TypeOK'
  BY SoundTypes DEF IInv, TypeOK, TrialType
<1>2. Sound(trial, slot)'
  BY DEF Sound, Works, Drives
<1>3. trial.state = "idle" <=> u.state = "idle"
  BY DEF Sound, Sane, Same, IInv
<1>4. Flash' /\ ProofAccepted'
  BY <1>3, MovesKeep DEF Moves
<1> QED
  BY <1>1, <1>2, <1>4 DEF IInv

(* What the runtime reports moves the trial, or restores it.               *)
LEMMA RuntimeMoves ==
    ASSUME IInv, NEW event \in {"prepared", "connected", "subscribed"},
           NEW state \in {"connecting", "subscribing", "verifying"}, NEW action,
           RuntimeEvent(event, state, action)
    PROVE  \E u, e : /\ trial' = u /\ slot' = e /\ Sound(u, e) /\ Same(trial, u)
                     /\ Moves(trial, u, event)
<1>1. PICK p \in Event(trial, slot, trial.session, event, FALSE) :
         IF p[1].state = state /\ HasPending(p[1], p[2])
         THEN Becomes(IF p[2].action = action THEN <<p[1], NoWork>>
                      ELSE React(p[1], NoWork, "error", FALSE))
         ELSE Becomes(p)
  BY DEF RuntimeEvent
<1> DEFINE t == p[1]
           q == p[2]
           r == React(t, NoWork, "error", FALSE)
<1>2. Sound(t, q) /\ Same(trial, t) /\ Moves(trial, t, event)
  <2>1. p \in Event(trial, slot, trial.session, event, FALSE) /\ event \in Reported
        /\ event # "restored" /\ Sound(trial, slot)
    BY <1>1 DEF IInv, Reported
  <2> QED
    BY <2>1, EventSound
<1>3. CASE trial' = t /\ slot' = q
  BY <1>2, <1>3
<1>4. ASSUME t.state = state PROVE Sound(t, NoWork)
  <2>1. NoWork \in Work /\ Waits(t, NoWork)
    BY <1>2, TrialAssumption DEF NoWork, Work, Action, Session, Choice, Sound, TrialType, Waits
  <2>2. Drives(t, NoWork)
    BY <1>2, <1>4 DEF Sound, Drives
  <2> QED
    BY <1>2, <2>1, <2>2 DEF NoWork, Works, Sound
<1>5. CASE t.state = state /\ trial' = t /\ slot' = NoWork
  BY <1>2, <1>4, <1>5
<1>6. CASE t.state = state /\ trial' = r[1] /\ slot' = r[2]
  <2>1. Sound(r[1], r[2]) /\ Same(t, r[1]) /\ r = Restore(t) /\ r[1].state = "restoring"
    <3>1. running(t) /\ t.state # "restoring"
      BY <1>6 DEF running
    <3>2. r = Restore(t)
      BY <3>1 DEF React
    <3> QED
      BY <1>4, <1>6, <3>1, <3>2, RestoreSound
  <2>2. Same(trial, r[1])
    BY <1>2, <2>1 DEF Same
  <2>3. running(trial)
    BY <1>2, <1>6 DEF Moves, Undoing, running
  <2>4. Moves(trial, r[1], event)
    BY <2>1, <2>3 DEF Moves, Undoing
  <2> QED
    BY <1>6, <2>1, <2>2, <2>4
<1>7. CASE t.state = state /\ HasPending(t, q) /\ q.action = action
  BY <1>1, <1>5, <1>7 DEF Becomes
<1>8. CASE t.state = state /\ HasPending(t, q) /\ q.action # action
  <2>1. Becomes(r)
    BY <1>1, <1>8
  <2>2. trial' = r[1] /\ slot' = r[2]
    BY <2>1 DEF Becomes
  <2> QED
    BY <1>6, <1>8, <2>2
<1>9. CASE ~(t.state = state /\ HasPending(t, q))
  BY <1>1, <1>3, <1>9 DEF Becomes
<1> QED
  BY <1>7, <1>8, <1>9

(* The runtime gets on, fails, or starts over.                             *)
LEMMA RuntimeKeeps ==
    ASSUME IInv, Runtime
    PROVE  /\ IInv' /\ Same(trial, trial')
           /\ \E event \in Reported \ {"restored", "proved"} : Moves(trial, trial', event)
<1>1. trial \in TrialType /\ trial.session \in Session
      /\ net \in [config : Choice, state : NetState] /\ proofs \subseteq Session
  BY DEF IInv, TypeOK, TrialType
<1>2. ASSUME NEW from \in NetState, NEW to \in NetState,
             NEW event \in {"prepared", "connected", "subscribed"},
             NEW state \in {"connecting", "subscribing", "verifying"}, NEW action,
             NetStep(from, to, event, state, action), proofs' \subseteq Session
      PROVE  IInv' /\ Same(trial, trial') /\ Moves(trial, trial', event)
  <2>1. PICK u, e : /\ trial' = u /\ slot' = e /\ Sound(u, e) /\ Same(trial, u)
                    /\ Moves(trial, u, event)
    BY <1>2, RuntimeMoves DEF NetStep
  <2>2. /\ net' \in [config : Choice, state : NetState] /\ net'.config = net.config
        /\ UNCHANGED <<work, stored, proved>>
    BY <1>1, <1>2 DEF NetStep
  <2> QED
    BY <1>2, <2>1, <2>2, MoveKeeps DEF Reported
<1>3. CASE NetPrepared
  <2>1. proofs' \subseteq Session
    BY <1>1, <1>3 DEF NetPrepared
  <2> QED
    BY <1>2, <1>3, <2>1 DEF NetPrepared, NetState, Reported
<1>4. CASE NetConnected
  <2>1. proofs' \subseteq Session
    BY <1>1, <1>4 DEF NetConnected
  <2> QED
    BY <1>2, <1>4, <2>1 DEF NetConnected, NetState, Reported
<1>5. CASE NetReady
  <2>1. proofs' \subseteq Session
    BY <1>1, <1>5 DEF NetReady
  <2> QED
    BY <1>2, <1>5, <2>1 DEF NetReady, NetState, Reported
<1>6. CASE NetFails
  <2>1. PICK p \in Event(trial, slot, trial.session, "error", FALSE) : trial' = p[1] /\ slot' = p[2]
    BY <1>6 DEF NetFails, Becomes
  <2>2. Sound(p[1], p[2]) /\ Same(trial, p[1]) /\ Moves(trial, p[1], "error")
    BY <2>1, EventSound DEF IInv, Reported
  <2>3. /\ net' \in [config : Choice, state : NetState] /\ net'.config = net.config
        /\ UNCHANGED <<work, proofs, stored, proved>>
    BY <1>1, <1>6 DEF NetFails, NetState
  <2> QED
    BY <1>1, <2>1, <2>2, <2>3, MoveKeeps DEF Reported
<1>7. CASE NetRestarts
  <2>1. /\ net' \in [config : Choice, state : NetState] /\ net'.config = net.config
        /\ UNCHANGED <<trial, slot, work, proofs, stored, proved>>
    BY <1>1, <1>7 DEF NetRestarts, NetState
  <2>2. Sound(trial, slot) /\ Same(trial, trial) /\ Moves(trial, trial, "error")
    BY DEF IInv, Same, Moves
  <2> QED
    BY <1>1, <2>1, <2>2, MoveKeeps DEF Reported
<1> QED
  BY <1>3, <1>4, <1>5, <1>6, <1>7 DEF Runtime

(* What a commit makes of the trial and of the Flash.                      *)
LEMMA CommitCases ==
    ASSUME IInv, Commit
    PROVE  /\ running(trial) /\ trial.state = "committing" /\ trial.candidate \in Config
           /\ trial.candidate # trial.active /\ proved = trial.candidate
           /\ stored = trial.active
           /\ work' = NoWork /\ UNCHANGED <<net, proofs, proved>>
           /\ \/ /\ trial' = Restore(trial)[1] /\ slot' = Restore(trial)[2]
                 /\ stored' \in {trial.active, Damaged}
              \/ /\ trial' = [trial EXCEPT !.state = "committed", !.active = trial.candidate]
                 /\ slot' = slot /\ stored' = trial.candidate
<1>1. trial.state = "committing" /\ running(trial) /\ work' = NoWork
      /\ UNCHANGED <<net, proofs, proved>>
  BY DEF Commit, running
<1>2. trial.candidate \in Config /\ trial.candidate # trial.active /\ proved = trial.candidate
      /\ stored = trial.active
  BY <1>1 DEF IInv, Sound, Sane, ProofAccepted, Flash
<1>3. PICK p \in Poll(trial, slot) :
         IF p[1].state # "committing"
         THEN Becomes(p) /\ UNCHANGED stored
         ELSE \E written \in StoreCommit(trial.candidate, trial.active) :
                 /\ stored' = written
                 /\ \E r \in Saved(trial, slot, written = trial.candidate) : Becomes(r)
  BY DEF Commit
<1>4. CASE p[1].state # "committing"
  <2>1. p = Restore(trial)
    BY <1>1, <1>4 DEF Poll
  <2> QED
    BY <1>1, <1>2, <1>3, <1>4, <2>1 DEF Becomes
<1>5. CASE p[1].state = "committing"
  <2>1. PICK written \in {trial.candidate, trial.active, Damaged} :
           /\ stored' = written
           /\ \E r \in Saved(trial, slot, written = trial.candidate) : Becomes(r)
    BY <1>3, <1>5 DEF StoreCommit
  <2>2. CASE written = trial.candidate
    <3>1. Becomes(React(trial, slot, "saved", FALSE))
      BY <2>1, <2>2 DEF Saved
    <3> DEFINE u == [trial EXCEPT !.state = "committed", !.active = trial.candidate]
    <3>2. React(trial, slot, "saved", FALSE) = <<u, slot>>
      BY <1>1 DEF React, running
    <3>3. trial' = u /\ slot' = slot
      <4> DEFINE r == React(trial, slot, "saved", FALSE)
      <4>1. trial' = r[1] /\ slot' = r[2] /\ r = <<u, slot>>
        BY <3>1, <3>2 DEF Becomes
      <4> HIDE DEF r, u
      <4> QED BY <4>1
    <3> QED
      BY <1>1, <1>2, <2>1, <2>2, <3>3
  <2>3. CASE written # trial.candidate
    <3>1. Becomes(React(trial, slot, "error", FALSE))
      BY <2>1, <2>3 DEF Saved
    <3>2. React(trial, slot, "error", FALSE) = Restore(trial)
      BY <1>1 DEF React, running
    <3> QED
      BY <1>1, <1>2, <2>1, <2>3, <3>1, <3>2 DEF Becomes
  <2> QED
    BY <2>2, <2>3
<1> QED
  BY <1>4, <1>5

LEMMA CommitKeeps ==
    ASSUME IInv, Commit PROVE IInv'
<1>1. /\ running(trial) /\ trial.state = "committing" /\ trial.candidate \in Config
      /\ work' = NoWork /\ UNCHANGED <<net, proofs, proved>>
  BY CommitCases
<1>2. Sound(trial, slot) /\ TypeOK /\ NoWork \in Work
  BY TrialAssumption DEF IInv, NoWork, Work, Action, Session, Choice
<1>3. CASE /\ trial' = Restore(trial)[1] /\ slot' = Restore(trial)[2]
           /\ stored' \in {trial.active, Damaged}
  <2>1. /\ Sound(trial', slot') /\ Same(trial, trial') /\ trial'.state = "restoring"
    BY <1>1, <1>2, <1>3, RestoreSound
  <2>2. Works(trial, slot)'
    BY <1>1, <2>1 DEF Works, NoWork, Sound, TrialType, Session
  <2>3. Sound(trial, slot)'
    BY <1>1, <2>1, <2>2 DEF Sound, Drives
  <2>4. TypeOK'
    BY <1>1, <1>2, <1>3, <2>1 DEF TypeOK, Sound, TrialType, Choice
  <2>5. Flash' /\ ProofAccepted'
    BY <1>3, <2>1 DEF Flash, ProofAccepted, Same
  <2> QED
    BY <2>3, <2>4, <2>5 DEF IInv
<1>4. CASE /\ trial' = [trial EXCEPT !.state = "committed", !.active = trial.candidate]
           /\ slot' = slot /\ stored' = trial.candidate
  <2>1. /\ trial' \in TrialType /\ trial'.state = "committed" /\ trial'.session = trial.session
        /\ trial'.active = trial.candidate /\ trial'.candidate = trial.candidate
    BY <1>1, <1>2, <1>4 DEF Sound, TrialType, State, Choice
  <2>2. Waits(trial', slot')
    <3>1. slot.session = trial.session => slot.action = "none"
      BY <1>1, <1>2, ActionStates DEF Sound, Waits, Works, Commit, Undoing
    <3> QED
      BY <1>2, <1>4, <2>1, <3>1 DEF Sound, Waits
  <2>3. Works(trial, slot)'
    BY <1>1, <1>2, <2>1 DEF Works, NoWork, Sound, TrialType, Session
  <2>4. Sane(trial') /\ Drives(trial, slot)'
    BY <1>1, <1>2, <2>1 DEF Sound, Sane, Drives, running, Candidate
  <2>5. Sound(trial, slot)' /\ TypeOK'
    BY <1>1, <1>2, <1>4, <2>1, <2>2, <2>3, <2>4 DEF Sound, Sane, running, Waits, TypeOK, TrialType, Choice
  <2>6. Flash' /\ ProofAccepted'
    BY <1>4, <2>1 DEF Flash, ProofAccepted
  <2> QED
    BY <2>5, <2>6 DEF IInv
<1> QED
  BY CommitCases, <1>3, <1>4

(* Rewriting the old configuration touches only the Flash.                 *)
LEMMA RewriteKeeps ==
    ASSUME IInv, Rewrite PROVE IInv'
<1>1. /\ work.action = "restore" /\ trial.state = "restoring" /\ work.session = trial.session
      /\ stored' \in {work.config, Damaged} /\ UNCHANGED <<trial, slot, work, net, proofs, proved>>
  BY DEF Rewrite
<1>2. work.config = trial.active /\ trial.active \in Choice
  BY <1>1 DEF IInv, Sound, Works, TrialType
<1>3. TypeOK' /\ Sound(trial, slot)'
  BY <1>1, <1>2 DEF IInv, TypeOK, Sound, Works, Drives
<1>4. Flash' /\ ProofAccepted'
  BY <1>1, <1>2 DEF Flash, ProofAccepted
<1> QED
  BY <1>3, <1>4 DEF IInv

(* RESTORED is reported of the action at work, with the old configuration  *)
(* running and stored.                                                     *)
LEMMA RestoredKeeps ==
    ASSUME IInv, ReportRestored
    PROVE  /\ IInv' /\ net.config = trial.active /\ stored = trial.active
           /\ trial.state \in Undoing
<1>1. /\ work.action = "restore" /\ work.session = trial.session
      /\ stored = work.config /\ net.config = work.config
      /\ Report(work.session, "restored", FALSE)
  BY DEF ReportRestored
<1>2. work.config = trial.active /\ trial.state \in Undoing
  BY <1>1 DEF IInv, Sound, Works
<1> QED
  BY <1>1, <1>2, ReportKeeps DEF Reported

(* Every event the product may report of a session.                        *)
LEMMA EventKeeps ==
    ASSUME IInv, NEW s,
           ReportAccepted(s) \/ ReportError(s) \/ ReportProved(s) \/ ReportOther(s)
    PROVE  IInv' /\ \E event \in Reported \ {"restored"}, own \in BOOLEAN : Report(s, event, own)
<1>1. PICK event \in Reported \ {"restored"}, own \in BOOLEAN : Report(s, event, own)
  BY DEF ReportAccepted, ReportError, ReportProved, ReportOther, Reported
<1> QED
  BY <1>1, ReportKeeps

(* Every step keeps the invariant.                                         *)
THEOREM Step == IInv /\ [Next]_vars => IInv'
<1> SUFFICES ASSUME IInv, [Next]_vars PROVE IInv'
  OBVIOUS
<1>1. CASE Product
  <2>1. CASE \E c \in Config : Start(c) \/ StartFirst(c)
    BY <2>1, StartKeeps
  <2>2. CASE \E s \in 1..trial.session :
                ReportAccepted(s) \/ ReportError(s) \/ ReportProved(s) \/ ReportOther(s)
    BY <2>2, EventKeeps
  <2> QED
    BY <1>1, <2>1, <2>2, RestoredKeeps, CancelKeeps, RecoveryKeeps, RewriteKeeps, CommitKeeps
       DEF Product
<1>2. CASE UNCHANGED vars
  BY <1>2 DEF vars, IInv, TypeOK, Sound, Works, Waits, Sane, Drives, Flash, ProofAccepted,
              running, HasPending
<1> QED
  BY <1>1, <1>2, RuntimeKeeps, MaintenanceKeeps DEF Next

THEOREM Invariance == Spec => []IInv
<1> QED
  BY InitIInv, Step, PTL DEF Spec

(* Every variable keeps its type.                                          *)
THEOREM TypeCorrect == Spec => []TypeOK
<1>1. IInv => TypeOK
  BY DEF IInv
<1> QED
  BY <1>1, Invariance, PTL

(* From CONNECTING on the connection the trial is told about is the        *)
(* candidate's, and after a failed trial it is the old one's               *)
(* (RuntimeEvent, Event, RecoveryComplete).                                *)
THEOREM ConnectionIsTheTrials == Spec => []NetInStep
<1>1. IInv => NetInStep
  BY DEF IInv, NetInStep, Sound, Drives, Candidate
<1> QED
  BY <1>1, Invariance, PTL

-----------------------------------------------------------------------------
(* No action is handed out that its trial does not ask for any more        *)
(* (HasPending, Take, enqueue).                                            *)
THEOREM NoLateAction == Spec => ActionInTime
<1> DEFINE A == work' # work /\ work' # NoWork =>
                   work'.session = trial.session /\ trial'.state \in StateOf(work'.action)
<1>1. ASSUME IInv, [Next]_vars PROVE [A]_vars
  <2>1. CASE MaintenancePoll
    <3>1. PICK p \in Poll(trial, slot) :
             work' = work \/ (HasPending(p[1], p[2]) /\ Becomes(<<p[1], NoWork>>) /\ Begun(p[2]))
      BY <2>1 DEF MaintenancePoll
    <3>2. CASE work' = work
      BY <3>2
    <3>3. CASE HasPending(p[1], p[2]) /\ Becomes(<<p[1], NoWork>>) /\ Begun(p[2])
      <4>1. Sound(p[1], p[2]) /\ Same(trial, p[1]) /\ Moves(trial, p[1], "error")
        BY <1>1, <3>1, PollSound DEF IInv
      <4>2. trial' = p[1] /\ work' = p[2]
        BY <3>3 DEF Becomes, Begun
      <4>3. p[2].session = p[1].session /\ p[1].state \in StateOf(p[2].action)
        BY <3>3, <4>1 DEF Sound, Waits, HasPending
      <4> QED
        BY <4>1, <4>2, <4>3 DEF Same
    <3> QED
      BY <3>1, <3>2, <3>3
  <2>2. CASE work' = work
    BY <2>2
  <2>3. CASE Commit \/ RecoveryComplete
    BY <2>3 DEF Commit, RecoveryComplete
  <2>4. CASE Runtime
    <3>1. work' = work
      BY <2>4 DEF Runtime, NetPrepared, NetConnected, NetReady, NetStep, NetFails, NetRestarts
    <3> QED
      BY <3>1
  <2>5. CASE Product /\ ~Commit /\ ~RecoveryComplete
    <3>1. work' = work
      BY <2>5 DEF Product, Start, StartFirst, Report, ReportAccepted, ReportError, ReportProved,
                  ReportOther, ReportRestored, Cancel, Rewrite
    <3> QED
      BY <3>1
  <2> QED
    BY <1>1, <2>1, <2>2, <2>3, <2>4, <2>5 DEF Next, vars
<1>2. Spec => [][A]_vars
  BY <1>1, Invariance, PTL DEF Spec
<1> QED
  BY <1>2 DEF ActionInTime

-----------------------------------------------------------------------------
(* The refinement: what a trial's moves are to a switch of configurations. *)
Phase(t) == IF running(t) THEN "trying" ELSE IF t.state = "restoring" THEN "undoing"
            ELSE IF t.state = "restore_failed" THEN "stuck" ELSE "settled"
Current == IF trial.session = 0 THEN stored ELSE trial.active

(* A call that moves the trial and writes nothing to Flash.                *)
LEMMA MoveSwitches ==
    ASSUME IInv, NEW u, u \in TrialType, Same(trial, u), Sane(u), NEW event, Moves(trial, u, event),
           trial' = u, stored' = stored,
           event = "restored" => stored = trial.active /\ trial.state \in Undoing,
           proved' = proved \/ (/\ proved' = trial.candidate /\ trial.state = "verifying"
                                /\ u.state = "committing")
    PROVE  [Switch!Next]_(Switch!vars)
<1>1. Current' = Current /\ stored' = stored
  BY DEF Current, Same
<1>2. CASE proved' = trial.candidate /\ trial.state = "verifying" /\ u.state = "committing"
  <2>1. /\ trial.candidate \in Config /\ trial.candidate # trial.active
        /\ trial.session # 0 /\ running(trial) /\ running(u)
    BY <1>2 DEF IInv, Sound, Sane, running
  <2>2. Switch!Prove(trial.candidate)
    BY <1>1, <1>2, <2>1 DEF Switch!Prove, Current
  <2> QED
    BY <2>1, <2>2 DEF Switch!Next
<1>3. CASE proved' = proved
  <2>1. CASE Phase(u) = Phase(trial)
    BY <1>1, <1>3, <2>1 DEF Switch!vars, Current, Phase
  <2>2. CASE running(trial) /\ u.state \in {"restoring", "restore_failed"}
    <3>1. ~running(u)
      BY <2>2 DEF running
    <3>2. Switch!Undo
      BY <1>1, <1>3, <2>2, <3>1 DEF Switch!Undo, Current
    <3> QED
      BY <3>2 DEF Switch!Next
  <2>3. CASE trial.state = "restoring" /\ u.state = "failed"
    <3>1. event = "restored" /\ ~running(trial) /\ ~running(u) /\ stored = trial.active
      BY <2>3 DEF Moves, running
    <3>2. Switch!Undone
      BY <1>1, <1>3, <2>3, <3>1 DEF Switch!Undone, Current
    <3> QED
      BY <3>2 DEF Switch!Next
  <2>4. CASE trial.state = "restoring" /\ u.state = "restore_failed"
    <3>1. ~running(trial) /\ ~running(u)
      BY <2>4 DEF running
    <3>2. Switch!Stick
      BY <1>1, <1>3, <2>4, <3>1 DEF Switch!Stick, Current
    <3> QED
      BY <3>2 DEF Switch!Next
  <2> QED
    BY <2>1, <2>2, <2>3, <2>4 DEF Moves, Phase, Undoing, running, TrialType, State
<1> QED
  BY <1>2, <1>3

(* Every step of a trial is a step of the switch, or leaves it alone.      *)
LEMMA StepSwitches ==
    ASSUME IInv, [Next]_vars PROVE [Switch!Next]_(Switch!vars)
<1> DEFINE Settled == trial.state \in {"idle", "committed", "failed"}
<1>1. IInv' /\ trial \in TrialType /\ Sane(trial) /\ trial' \in TrialType /\ Sane(trial')
  BY Step DEF IInv, Sound
<1>2. ASSUME NEW c \in Config, Start(c) \/ StartFirst(c) PROVE Switch!Begin
  <2>1. /\ ~running(trial) /\ trial.state \notin {"restoring", "restore_failed"}
        /\ proved' = NoConfig /\ stored' = stored
    BY <1>2 DEF Start, StartFirst, MayStart
  <2>2. stored = Current
    BY <1>1, <2>1 DEF IInv, Flash, Current, Sane
  <2>3. trial'.session # 0 /\ trial'.active = stored /\ (running(trial') \/ trial'.state = "restoring")
    <3>1. trial.session + 1 # 0
      BY <1>1, TrialAssumption DEF TrialType, Session
    <3>2. CASE Start(c)
      BY <3>1, <3>2 DEF Start, NewTrial, running
    <3>3. CASE StartFirst(c)
      <4> DEFINE t == NewTrial("preparing", NoConfig, c)
                 p == Enter(t, slot, "preparing", "prepare")
      <4>1. trial' = p[1] /\ stored = NoConfig
        BY <3>3 DEF StartFirst, Becomes
      <4>2. p[1] = [t EXCEPT !.state = "preparing"] \/ p[1] = [t EXCEPT !.state = "restoring"]
        BY DEF Enter, Restore
      <4> QED
        BY <3>1, <4>1, <4>2 DEF NewTrial, running
    <3> QED
      BY <1>2, <3>2, <3>3
  <2>4. trial'.state = "restoring" => ~running(trial')
    BY DEF running
  <2> QED
    BY <2>1, <2>2, <2>3, <2>4 DEF Switch!Begin, Current
<1>3. ASSUME NEW session, NEW event \in Reported, NEW own, Report(session, event, own),
             event = "restored" => /\ net.config = trial.active /\ stored = trial.active
                                   /\ trial.state \in Undoing
      PROVE  [Switch!Next]_(Switch!vars)
  <2>1. PICK p \in Event(trial, slot, session, event, own) :
           /\ Becomes(p)
           /\ proved' = IF p[1].state = "committing" /\ trial.state = "verifying"
                        THEN trial.candidate ELSE proved
    BY <1>3 DEF Report
  <2>2. Sound(p[1], p[2]) /\ Same(trial, p[1]) /\ Moves(trial, p[1], event)
    BY <1>3, <2>1, EventSound DEF IInv
  <2>3. trial' = p[1] /\ stored' = stored
    BY <1>3, <2>1 DEF Becomes, Report
  <2> QED
    BY <1>1, <1>3, <2>1, <2>2, <2>3, MoveSwitches
<1>4. ASSUME ReportRestored PROVE [Switch!Next]_(Switch!vars)
  <2>1. /\ net.config = trial.active /\ stored = trial.active /\ trial.state \in Undoing
        /\ Report(work.session, "restored", FALSE)
    BY <1>4, RestoredKeeps DEF ReportRestored
  <2> QED
    BY <1>3, <2>1 DEF Reported
<1>5. ASSUME NEW s, ReportAccepted(s) \/ ReportError(s) \/ ReportProved(s) \/ ReportOther(s)
      PROVE  [Switch!Next]_(Switch!vars)
  <2>1. PICK event \in Reported \ {"restored"}, own \in BOOLEAN : Report(s, event, own)
    BY <1>5, EventKeeps
  <2> QED
    BY <1>3, <2>1
<1>6. ASSUME Cancel PROVE [Switch!Next]_(Switch!vars)
  <2>1. running(trial) /\ Sound(trial, slot) /\ UNCHANGED <<stored, proved>>
    BY <1>6 DEF Cancel, IInv
  <2>2. Current' = Current \/ trial'.session # trial.session \/ trial'.active # trial.active
    BY <2>1 DEF Current
  <2>3. CASE trial.state = "wait_accept"
    <3>1. trial'.state = "failed" /\ Same(trial, trial') /\ ~running(trial')
      BY <1>1, <1>6, <2>3 DEF Cancel, TrialType, Same, running
    <3>2. Switch!GiveUp
      BY <2>1, <2>2, <3>1 DEF Switch!GiveUp, Same, Current
    <3> QED
      BY <3>2 DEF Switch!Next
  <2>4. CASE trial.state # "wait_accept"
    <3>1. /\ Same(trial, trial') /\ Moves(trial, trial', "error")
          /\ trial'.state = "restoring"
      BY <1>6, <2>1, <2>4, RestoreSound DEF Cancel, Becomes
    <3> QED
      BY <1>1, <2>1, <3>1, MoveSwitches
  <2> QED
    BY <2>3, <2>4
<1>7. ASSUME RecoveryComplete PROVE Switch!Attest
  <2>1. /\ trial.state = "restore_failed" /\ trial' = [trial EXCEPT !.state = "failed"]
        /\ stored' = trial.active /\ proved' = proved
    BY <1>7 DEF RecoveryComplete
  <2>2. /\ trial'.state = "failed" /\ trial'.session = trial.session /\ trial'.active = trial.active
        /\ trial.session # 0 /\ ~running(trial) /\ ~running(trial')
    BY <1>1, <2>1 DEF TrialType, Sane, running
  <2> QED
    BY <2>1, <2>2 DEF Switch!Attest, Current
<1>8. ASSUME Commit PROVE [Switch!Next]_(Switch!vars)
  <2>1. /\ running(trial) /\ trial.candidate \in Config /\ proved = trial.candidate
        /\ stored = trial.active /\ proved' = proved /\ trial.session # 0
    BY <1>1, <1>8, CommitCases DEF Sane, running
  <2>2. CASE /\ trial' = Restore(trial)[1] /\ slot' = Restore(trial)[2]
             /\ stored' \in {trial.active, Damaged}
    <3>1. Same(trial, trial') /\ trial'.state = "restoring"
      BY <2>1, <2>2, RestoreSound DEF IInv
    <3>2. ~running(trial')
      BY <3>1 DEF running
    <3>3. Switch!Undo
      BY <2>1, <2>2, <3>1, <3>2, TrialAssumption DEF Switch!Undo, Same, Current
    <3> QED
      BY <3>3 DEF Switch!Next
  <2>3. CASE /\ trial' = [trial EXCEPT !.state = "committed", !.active = trial.candidate]
             /\ stored' = trial.candidate
    <3>1. /\ trial'.state = "committed" /\ trial'.active = trial.candidate
          /\ trial'.session = trial.session /\ ~running(trial')
      BY <1>1, <2>3 DEF TrialType, running
    <3>2. Switch!Commit
      BY <2>1, <2>3, <3>1, TrialAssumption DEF Switch!Commit, Current
    <3> QED
      BY <3>2 DEF Switch!Next
  <2> QED
    BY <1>8, <2>2, <2>3, CommitCases
<1>9. ASSUME Rewrite PROVE Switch!Repair
  <2>1. /\ work.config = trial.active /\ trial.session # 0 /\ ~running(trial)
        /\ trial.state = "restoring" /\ stored' \in {work.config, Damaged}
        /\ trial' = trial /\ proved' = proved
    BY <1>1, <1>9 DEF Rewrite, IInv, Sound, Works, Sane, running
  <2> QED
    BY <2>1 DEF Switch!Repair, Current
<1>10. CASE MaintenancePoll
  <2>1. Same(trial, trial') /\ Moves(trial, trial', "error") /\ UNCHANGED <<stored, proved>>
    BY <1>10, MaintenanceKeeps DEF MaintenancePoll
  <2> QED
    BY <1>1, <2>1, MoveSwitches
<1>11. CASE Runtime
  <2>1. PICK event \in Reported \ {"restored", "proved"} : Moves(trial, trial', event)
    BY <1>11, RuntimeKeeps
  <2>2. Same(trial, trial') /\ UNCHANGED <<stored, proved>>
    BY <1>11, RuntimeKeeps
       DEF Runtime, NetPrepared, NetConnected, NetReady, NetStep, NetFails, NetRestarts
  <2> QED
    BY <1>1, <2>1, <2>2, MoveSwitches
<1>12. CASE UNCHANGED vars
  BY <1>12 DEF vars, Switch!vars, running
<1> QED
  <2>1. CASE Product
    BY <1>2, <1>4, <1>5, <1>6, <1>7, <1>8, <1>9, <2>1 DEF Product, Switch!Next
  <2> QED
    BY <1>10, <1>11, <1>12, <2>1 DEF Next

LEMMA InitSwitches == Init => Switch!Init
BY DEF Init, Switch!Init, running

(* The configuration in use and the one in Flash change together, and only *)
(* to a candidate whose own proof was accepted, whatever comes late, is    *)
(* refused, fails or expires (Event, MaintenanceService_Commit,            *)
(* ConfigStore_Commit).                                                    *)
THEOREM TrialSwitchesOrLeaves == Spec => ImplementsConfigSwitch
<1>1. Spec => [][Switch!Next]_(Switch!vars)
  BY StepSwitches, Invariance, PTL DEF Spec
<1> QED
  BY <1>1, InitSwitches, PTL DEF Spec, ImplementsConfigSwitch, Switch!Spec
=============================================================================
