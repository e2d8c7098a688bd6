------------------------------ MODULE OtaTrials ------------------------------
(***************************************************************************)
(* The trials of OtaLifecycle with their history: what really failed while *)
(* a candidate was tried, against what the record counts.                  *)
(***************************************************************************)
EXTENDS OtaLifecycle

VARIABLE causes       \* faults and watchdog resets of the candidate on trial, up to the limit

trialvars == <<vars, causes>>

OnTrial == rec # NoRecord /\ rec.state = "TRIAL"

(* A new candidate starts with a clean history.                            *)
CandidateInstalled == pc = "program" /\ pc' = "jump_save" /\ r.state = "INSTALLING"

CandidateFailed == OnTrial /\ pc = "app" /\ pc' = "init"
                     /\ (mailbox' # mailbox \/ rcc' # rcc)

TrialInit == Init /\ causes = 0

TrialNext ==
    /\ Next
    /\ causes' = IF CandidateInstalled THEN 0
                 ELSE IF CandidateFailed /\ causes < TRIAL_FAILURE_LIMIT THEN causes + 1
                 ELSE causes

TrialSpec == TrialInit /\ [][TrialNext]_trialvars /\ Fairness

Abandoned == OnTrial /\ rec' # rec /\ rec'.state = "ROLLBACK"

(* A candidate is given up only after it failed at least twice: a failure  *)
(* the Boot has counted is never counted again, whatever resets follow.    *)
(* One of the three may not be its own: a Boot that could not hear its     *)
(* TRIAL save succeed tries the candidate under the reset reason the       *)
(* previous App left behind.                                               *)
FailuresAreItsOwn == [][Abandoned => causes >= TRIAL_FAILURE_LIMIT - 1]_trialvars
=============================================================================
