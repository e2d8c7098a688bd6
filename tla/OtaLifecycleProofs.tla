-------------------------- MODULE OtaLifecycleProofs --------------------------
(***************************************************************************)
(* The Boot and the App never leave a device without an image to run, for  *)
(* any set of images and any number of faults, as long as the product asks *)
(* IsReady before Start and releases images under the version they report; *)
(* and a download records an image only while its file is whole and the    *)
(* modem has nothing left to do to it.                                     *)
(***************************************************************************)
EXTENDS OtaTrials, UfsDownload, TLAPS

Staged == {"INSTALL_PENDING", "INSTALLING", "TRIAL"}

(* What a record may claim of the Flash and of the slots at any instant:   *)
(* it holds of the current record and of the one about to be saved, so it  *)
(* does not matter which of the two a failing save leaves behind.          *)
RecordSound(s) ==
    /\ s \in Record
    /\ s.state # "NORMAL"
    /\ s.stable_image \in Image /\ s.stable_named
    /\ ufs[s.stable_slot] = s.stable_image
    /\ s.state \in Staged => /\ s.candidate_slot # s.stable_slot
                             /\ s.image \in Image /\ s.image_named
                             /\ ufs[s.candidate_slot] = s.image
    /\ s.state \in {"CONFIRMED", "TRIAL"} => flash = s.image
    /\ s.state \in {"CONFIRMED", "INSTALL_PENDING"} => flash = s.stable_image

RecordInv == /\ rec = NoRecord => flash \in Image
             /\ rec # NoRecord => RecordSound(rec)

Saving == pc \in {"trial_save", "begin_save", "preflight", "erase", "program",
                  "jump_save", "plain_save"}

(* The Boot's copy of the record at each of its steps.                     *)
BootInv ==
    /\ Saving => /\ rec # NoRecord
                 /\ RecordSound(r)
                 /\ r.stable_image = rec.stable_image
                 /\ rec.state = "ROLLBACK" => r.state = "ROLLBACK"
    /\ pc = "trial_save" => rec.state = "TRIAL" /\ r.state \in {"TRIAL", "ROLLBACK"}
    /\ pc = "begin_save" => /\ rec.state \in {"INSTALL_PENDING", "INSTALLING"}
                            /\ r.state = "INSTALLING"
    /\ pc \in {"preflight", "erase", "program"} =>
           rec = r /\ r.state \in {"INSTALLING", "ROLLBACK"}
    /\ pc = "jump_save" => /\ r.state \in {"CONFIRMED", "TRIAL", "ROLLBACK"}
                           /\ r.state = "ROLLBACK" => flash = r.stable_image
    /\ pc = "plain_save" => /\ rec.state \in {"INSTALLING", "ROLLBACK"}
                            /\ r.state = "ROLLBACK"

(* A download touches a slot that nothing in the record needs, and a seed  *)
(* is made only while there is no record.                                  *)
AppInv ==
    Busy => /\ pc = "app"
            /\ Settled
            /\ app.want \in Image /\ app.named
            /\ rec = NoRecord => app.seeding /\ app.want = flash
            /\ rec # NoRecord => ~app.seeding /\ app.slot # rec.stable_slot
            /\ app.phase = "verified" => ufs[app.slot] = app.want

IInv == /\ TypeOK
        /\ RecordInv
        /\ BootInv
        /\ AppInv
        /\ RunsRecordedImage
        /\ ErasedOnlyInInstall

-----------------------------------------------------------------------------
(* The records the code builds: each is a record, with these fields.       *)
LEMMA RecordFields ==
    ASSUME NEW s \in Record
    PROVE  /\ s.state \in States
           /\ s.stable_slot \in Slot /\ s.candidate_slot \in Slot
           /\ s.trial_fail_count \in 0..TRIAL_FAILURE_LIMIT
           /\ s.image \in Image \cup {NoImage}
           /\ s.stable_image \in Image \cup {NoImage}
           /\ s.image_named \in BOOLEAN /\ s.stable_named \in BOOLEAN
           /\ s.rollback_report_pending \in BOOLEAN /\ s.rollback_installed \in BOOLEAN
BY DEF Record

(* What no step of the Boot touches.                                       *)
SameStable(s, t) == /\ s.stable_slot = t.stable_slot
                    /\ s.stable_image = t.stable_image
                    /\ s.stable_named = t.stable_named
SameCandidate(s, t) == /\ s.candidate_slot = t.candidate_slot
                       /\ s.image = t.image
                       /\ s.image_named = t.image_named

LEMMA StableAgainFields ==
    ASSUME NEW s \in Record
    PROVE  /\ StableAgain(s) \in Record
           /\ SameStable(StableAgain(s), s)
           /\ StableAgain(s).state = "CONFIRMED"
           /\ StableAgain(s).image = s.stable_image
BY DEF Record, StableAgain, SameStable, States

LEMMA TrialRecords ==
    ASSUME rec \in Record
    PROVE  /\ FailedAgain \in Record /\ GivenUp \in Record
           /\ SameStable(FailedAgain, rec) /\ SameStable(GivenUp, rec)
           /\ SameCandidate(FailedAgain, rec)
           /\ FailedAgain.state = rec.state
           /\ GivenUp.state = "ROLLBACK"
<1>1. FailuresCounted \in 0..TRIAL_FAILURE_LIMIT
  BY RecordFields DEF FailuresCounted, TRIAL_FAILURE_LIMIT
<1> QED
  BY <1>1 DEF Record, FailedAgain, GivenUp, SameStable, SameCandidate, States

LEMMA InstallRecords ==
    ASSUME rec \in Record
    PROVE  /\ Installing \in Record
           /\ SameStable(Installing, rec) /\ SameCandidate(Installing, rec)
           /\ Installing.state = "INSTALLING"
BY DEF Record, Installing, SameStable, SameCandidate, States

LEMMA InstallerRecords ==
    ASSUME r \in Record
    PROVE  /\ InstallFailed \in Record /\ SameStable(InstallFailed, r)
           /\ InstallFailed.state = "ROLLBACK"
           /\ RolledBack \in Record /\ SameStable(RolledBack, r)
           /\ RolledBack.state = r.state
           /\ OnTrialNow \in Record /\ SameStable(OnTrialNow, r)
           /\ SameCandidate(OnTrialNow, r)
           /\ OnTrialNow.state = "TRIAL"
<1>1. /\ InstallFailed \in Record /\ SameStable(InstallFailed, r)
      /\ InstallFailed.state = "ROLLBACK"
  BY DEF Record, InstallFailed, SameStable, States
<1>2. /\ RolledBack \in Record /\ SameStable(RolledBack, r)
      /\ RolledBack.state = r.state
  BY DEF Record, RolledBack, SameStable
<1>3. /\ OnTrialNow \in Record /\ SameStable(OnTrialNow, r)
      /\ SameCandidate(OnTrialNow, r)
      /\ OnTrialNow.state = "TRIAL"
  <2>1. 0 \in 0..TRIAL_FAILURE_LIMIT
    BY DEF TRIAL_FAILURE_LIMIT
  <2>2. OnTrialNow \in Record
    BY <2>1 DEF Record, OnTrialNow, States
  <2> QED
    BY <2>2 DEF Record, OnTrialNow, SameStable, SameCandidate
<1> QED
  BY <1>1, <1>2, <1>3

LEMMA AppRecords ==
    ASSUME rec \in Record
    PROVE  /\ ConfirmedRecord \in Record
           /\ ConfirmedRecord.state = "CONFIRMED"
           /\ ConfirmedRecord.stable_slot = rec.candidate_slot
           /\ ConfirmedRecord.stable_image = rec.image
           /\ ConfirmedRecord.stable_named = rec.image_named
           /\ ConfirmedRecord.image = rec.image
           /\ AcknowledgedRecord \in Record
           /\ AcknowledgedRecord.state = "CONFIRMED"
           /\ SameStable(AcknowledgedRecord, rec)
           /\ AcknowledgedRecord.image = rec.stable_image
<1>1. /\ ConfirmedRecord \in Record
      /\ ConfirmedRecord.state = "CONFIRMED"
      /\ ConfirmedRecord.stable_slot = rec.candidate_slot
      /\ ConfirmedRecord.stable_image = rec.image
      /\ ConfirmedRecord.stable_named = rec.image_named
      /\ ConfirmedRecord.image = rec.image
  <2>1. 0 \in 0..TRIAL_FAILURE_LIMIT
    BY DEF TRIAL_FAILURE_LIMIT
  <2> QED
    BY <2>1 DEF Record, ConfirmedRecord, States
<1>2. /\ AcknowledgedRecord \in Record
      /\ AcknowledgedRecord.state = "CONFIRMED"
      /\ SameStable(AcknowledgedRecord, rec)
      /\ AcknowledgedRecord.image = rec.stable_image
  <2> DEFINE s == StableAgain(rec)
  <2>1. s \in Record /\ SameStable(s, rec) /\ s.state = "CONFIRMED" /\ s.image = rec.stable_image
    BY StableAgainFields
  <2>2. AcknowledgedRecord = [s EXCEPT !.rollback_report_pending = FALSE,
                                       !.rollback_installed = FALSE]
    BY DEF AcknowledgedRecord
  <2> HIDE DEF s
  <2> QED
    BY <2>1, <2>2 DEF Record, SameStable
<1> QED
  BY <1>1, <1>2

LEMMA LoadedRecord == rec \in Record \cup {NoRecord} => Loaded \in Record
BY DEF Loaded, ZeroRecord, Record, States, Slot, TRIAL_FAILURE_LIMIT

LEMMA CommitRecords ==
    ASSUME rec \in Record \cup {NoRecord}, app \in AppContext
    PROVE  /\ CommitRecord \in Record
           /\ CommitRecord.image = app.want /\ CommitRecord.image_named = app.named
           /\ CommitRecord.candidate_slot = app.slot
           /\ app.seeding => /\ CommitRecord.state = "CONFIRMED"
                             /\ CommitRecord.stable_slot = app.slot
                             /\ CommitRecord.stable_image = app.want
                             /\ CommitRecord.stable_named = app.named
           /\ ~app.seeding => /\ CommitRecord.state = "INSTALL_PENDING"
                              /\ SameStable(CommitRecord, Loaded)
<1>1. Loaded \in Record
  BY LoadedRecord
<1> QED
  BY <1>1 DEF CommitRecord, Record, SameStable, States, AppContext

LEMMA Distinct ==
    /\ NoImage \notin Image /\ Bad \notin Image /\ NoImage # Bad
    /\ NoRecord \notin Record
    /\ Factory \in Image
BY OtaAssumption DEF OtaAssumption

LEMMA FaultsBounded ==
    ASSUME TypeOK, Fault \/ UNCHANGED faults
    PROVE  faults' \in 0..MaxFaults
BY OtaAssumption DEF TypeOK, Fault, OtaAssumption

LEMMA InitIInv == Init => IInv
<1> SUFFICES ASSUME Init PROVE IInv
  OBVIOUS
<1>1. TypeOK
  <2>1. 0 \in 0..MaxFaults
    BY OtaAssumption DEF OtaAssumption
  <2>2. app \in AppContext
    BY DEF Init, AppInit, AppContext, AppPhase, Slot
  <2> QED
    BY <2>1, <2>2, Distinct DEF Init, TypeOK
<1>2. RecordInv /\ RunsRecordedImage /\ ErasedOnlyInInstall
  BY Distinct DEF Init, RecordInv, RunsRecordedImage, ErasedOnlyInInstall
<1>3. BootInv /\ AppInv
  BY DEF Init, BootInv, Saving, AppInv, Busy, AppInit
<1> QED
  BY <1>1, <1>2, <1>3 DEF IInv

-----------------------------------------------------------------------------
(* What the steps have in common.                                          *)
LEMMA InitialApp == AppInit \in AppContext
BY DEF AppInit, AppContext, AppPhase, Slot

(* A reset at any instant finds a sound record.                            *)
LEMMA RestartKeeps ==
    ASSUME IInv, Restart, UNCHANGED <<rec, flash, ufs>>,
           mailbox' \in BOOLEAN, rcc' \in {"iwdg", "other"}, faults' \in 0..MaxFaults
    PROVE  IInv'
<1>1. TypeOK'
  BY InitialApp DEF IInv, TypeOK, Restart
<1>2. RecordInv' /\ ErasedOnlyInInstall'
  BY DEF IInv, RecordInv, RecordSound, ErasedOnlyInInstall
<1>3. BootInv' /\ AppInv' /\ RunsRecordedImage'
  BY DEF Restart, BootInv, Saving, AppInv, AppInit, Busy, RunsRecordedImage
<1> QED
  BY <1>1, <1>2, <1>3 DEF IInv

(* The Boot goes on: only its own copy of the record is left to look at.   *)
LEMMA BootKeeps ==
    ASSUME IInv, pc # "app", pc' # "app", UNCHANGED app,
           TypeOK', RecordInv', BootInv', ErasedOnlyInInstall'
    PROVE  IInv'
<1>1. AppInv'
  BY DEF IInv, AppInv, Busy
<1>2. RunsRecordedImage'
  BY DEF RunsRecordedImage
<1> QED
  BY <1>1, <1>2 DEF IInv

(* The Boot reads the record again, or hands over to the App.              *)
LEMMA LoopKeeps ==
    ASSUME IInv, pc # "app", NextLoop,
           rec' \in Record \cup {NoRecord}, flash' \in Image \cup {Bad}, UNCHANGED <<ufs, rcc>>,
           mailbox' \in BOOLEAN, faults' \in 0..MaxFaults,
           RecordInv', ErasedOnlyInInstall'
    PROVE  IInv'
<1>1. TypeOK'
  BY DEF IInv, TypeOK, NextLoop
<1>2. BootInv'
  BY DEF NextLoop, BootInv, Saving
<1> QED
  BY <1>1, <1>2, BootKeeps DEF NextLoop

LEMMA JumpKeeps ==
    ASSUME IInv, Jump,
           rec' \in Record \cup {NoRecord}, UNCHANGED <<flash, ufs, rcc>>,
           mailbox' \in BOOLEAN, faults' \in 0..MaxFaults,
           RecordInv', ErasedOnlyInInstall', RunsRecordedImage'
    PROVE  IInv'
<1>1. TypeOK'
  BY InitialApp DEF IInv, TypeOK, Jump
<1>2. BootInv' /\ AppInv'
  BY DEF Jump, BootInv, Saving, AppInv, AppInit, Busy
<1> QED
  BY <1>1, <1>2 DEF IInv

(* The App goes on without touching the record or the slots.               *)
LEMMA AppKeeps ==
    ASSUME IInv, InApp, UNCHANGED <<shared, rec>>,
           app' \in AppContext, faults' \in 0..MaxFaults, AppInv'
    PROVE  IInv'
<1>1. TypeOK'
  BY DEF IInv, TypeOK, InApp, shared
<1>2. RecordInv' /\ ErasedOnlyInInstall' /\ RunsRecordedImage'
  BY DEF IInv, InApp, shared, RecordInv, RecordSound, ErasedOnlyInInstall,
         RunsRecordedImage, StableKnown
<1>3. BootInv'
  BY DEF InApp, BootInv, Saving
<1> QED
  BY <1>1, <1>2, <1>3 DEF IInv

LEMMA BootSave ==
    ASSUME TypeOK, SaveOk(r) \/ SaveFails(r)
    PROVE  rec' \in {rec, r} /\ faults' \in 0..MaxFaults
BY FaultsBounded DEF SaveOk, SaveFails

-----------------------------------------------------------------------------
(* The steps of the Boot.                                                  *)
LEMMA BootInitStep == IInv /\ BootInit => IInv'
<1> SUFFICES ASSUME IInv, BootInit PROVE IInv'
  OBVIOUS
<1>1. TypeOK' /\ RecordInv' /\ ErasedOnlyInInstall'
  BY DEF IInv, BootInit, TypeOK, RecordInv, RecordSound, ErasedOnlyInInstall
<1>2. BootInv'
  BY DEF BootInit, BootInv, Saving
<1> QED
  BY <1>1, <1>2, BootKeeps DEF BootInit

LEMMA HandOverStep ==
    IInv /\ (BootWithoutRecord \/ BootConfirmed \/ TrialRuns \/ RollbackInstalled) => IInv'
<1> SUFFICES ASSUME IInv, BootWithoutRecord \/ BootConfirmed \/ TrialRuns \/ RollbackInstalled
             PROVE  IInv'
  OBVIOUS
<1>1. Jump /\ UNCHANGED <<rec, flash, ufs, mailbox, rcc, faults>>
  BY DEF BootWithoutRecord, BootConfirmed, TrialRuns, RollbackInstalled
<1>2. RecordInv' /\ ErasedOnlyInInstall'
  BY <1>1 DEF IInv, RecordInv, RecordSound, ErasedOnlyInInstall
<1>3. RunsRecordedImage'
  <2>1. CASE rec = NoRecord
    BY <1>1, <2>1 DEF IInv, RecordInv, RunsRecordedImage, Jump
  <2>2. CASE rec # NoRecord
    BY <1>1, <2>2, Distinct
       DEF IInv, TypeOK, RecordInv, RecordSound, RunsRecordedImage, Staged, InState,
           BootWithoutRecord, BootConfirmed, TrialRuns, RollbackInstalled, TrialBad, ErasedOnlyInInstall
  <2> QED
    BY <2>1, <2>2
<1> QED
  BY <1>1, <1>2, <1>3, JumpKeeps DEF IInv, TypeOK

LEMMA TrialFailedStep == IInv /\ TrialFailed => IInv'
<1> SUFFICES ASSUME IInv, TrialFailed PROVE IInv'
  OBVIOUS
<1>1. rec \in Record /\ rec.state = "TRIAL" /\ RecordSound(rec)
  BY DEF IInv, TypeOK, RecordInv, TrialFailed, InState
<1>2. r' = FailedAgain \/ r' = GivenUp
  BY DEF TrialFailed
<1>3. /\ r' \in Record /\ SameStable(r', rec)
      /\ r'.state = "TRIAL" => SameCandidate(r', rec)
      /\ r'.state \in {"TRIAL", "ROLLBACK"}
  BY <1>1, <1>2, TrialRecords
<1>4. TypeOK' /\ RecordInv' /\ ErasedOnlyInInstall'
  BY <1>3 DEF IInv, TrialFailed, TypeOK, RecordInv, RecordSound, ErasedOnlyInInstall
<1>5. RecordSound(r)'
  BY <1>1, <1>3 DEF TrialFailed, RecordSound, SameStable, SameCandidate, Staged
<1>6. BootInv'
  BY <1>1, <1>3, <1>5 DEF TrialFailed, BootInv, Saving, SameStable, InState
<1> QED
  BY <1>4, <1>6, BootKeeps DEF TrialFailed, InState

LEMMA TrialSaveStep == IInv /\ TrialSave => IInv'
<1> SUFFICES ASSUME IInv, TrialSave PROVE IInv'
  OBVIOUS
<1>1. /\ rec # NoRecord /\ RecordSound(rec) /\ rec.state = "TRIAL"
      /\ RecordSound(r) /\ r.state \in {"TRIAL", "ROLLBACK"}
  BY DEF IInv, RecordInv, BootInv, Saving, TrialSave
<1>2. rec' \in {rec, r} /\ faults' \in 0..MaxFaults
  BY BootSave DEF IInv, TrialSave
<1>3. rec' \in Record /\ rec' # NoRecord
  BY <1>1, <1>2, Distinct DEF RecordSound
<1>4. RecordInv'
  BY <1>1, <1>2, <1>3 DEF RecordInv, RecordSound, TrialSave
<1>5. ErasedOnlyInInstall'
  BY <1>1, <1>3, Distinct DEF TrialSave, ErasedOnlyInInstall, RecordSound, Staged
<1>6. CASE r.state = "TRIAL" /\ flash = r.image
  <2>1. RunsRecordedImage'
    BY <1>1, <1>2, <1>6, <1>3 DEF TrialSave, RunsRecordedImage, RecordSound, Staged
  <2> QED
    BY <1>2, <1>3, <1>4, <1>5, <1>6, <2>1, JumpKeeps DEF TrialSave, IInv, TypeOK
<1>7. CASE ~(r.state = "TRIAL" /\ flash = r.image)
  BY <1>2, <1>3, <1>4, <1>5, <1>7, LoopKeeps DEF TrialSave, IInv, TypeOK
<1> QED
  BY <1>6, <1>7

LEMMA InstallBeginStep == IInv /\ InstallBegin => IInv'
<1> SUFFICES ASSUME IInv, InstallBegin PROVE IInv'
  OBVIOUS
<1>1. /\ rec \in Record /\ rec.state \in {"INSTALL_PENDING", "INSTALLING"}
      /\ RecordSound(rec)
  BY DEF IInv, TypeOK, RecordInv, InstallBegin, InState
<1>2. /\ r' \in Record /\ SameStable(r', rec) /\ SameCandidate(r', rec)
      /\ r'.state = "INSTALLING"
  BY <1>1, InstallRecords DEF InstallBegin
<1>3. TypeOK' /\ RecordInv' /\ ErasedOnlyInInstall'
  BY <1>2 DEF IInv, InstallBegin, TypeOK, RecordInv, RecordSound, ErasedOnlyInInstall
<1>4. RecordSound(r)'
  BY <1>1, <1>2 DEF InstallBegin, RecordSound, SameStable, SameCandidate, Staged
<1>5. BootInv'
  BY <1>1, <1>2, <1>4 DEF InstallBegin, BootInv, Saving, SameStable, InState
<1> QED
  BY <1>3, <1>5, BootKeeps DEF InstallBegin, InState

LEMMA InstallBeginSaveStep == IInv /\ InstallBeginSave => IInv'
<1> SUFFICES ASSUME IInv, InstallBeginSave PROVE IInv'
  OBVIOUS
<1>1. /\ rec # NoRecord /\ RecordSound(rec)
      /\ rec.state \in {"INSTALL_PENDING", "INSTALLING"}
      /\ r \in Record /\ RecordSound(r) /\ r.state = "INSTALLING"
      /\ r.stable_image = rec.stable_image
  BY DEF IInv, RecordInv, RecordSound, BootInv, Saving, InstallBeginSave
<1>2. rec' \in {rec, r} /\ faults' \in 0..MaxFaults
  BY BootSave DEF IInv, InstallBeginSave
<1>3. rec' \in Record /\ rec' # NoRecord
  BY <1>1, <1>2, Distinct DEF RecordSound
<1>4. RecordInv'
  BY <1>1, <1>2, <1>3 DEF RecordInv, RecordSound, InstallBeginSave
<1>5. ErasedOnlyInInstall'
  BY <1>1, <1>2, <1>3 DEF InstallBeginSave, IInv, ErasedOnlyInInstall
<1>6. CASE SaveOk(r) /\ pc' = "preflight" /\ UNCHANGED <<r, reset_reason, attempted, app>>
  <2>1. TypeOK'
    BY <1>2, <1>3, <1>6 DEF IInv, TypeOK, InstallBeginSave
  <2>2. BootInv'
    BY <1>1, <1>3, <1>4, <1>6 DEF SaveOk, BootInv, Saving, RecordInv
  <2> QED
    BY <1>4, <1>5, <1>6, <2>1, <2>2, BootKeeps DEF InstallBeginSave
<1>7. CASE /\ StableInFlash /\ r' = StableAgain(r) /\ pc' = "jump_save"
           /\ UNCHANGED <<reset_reason, attempted, app>>
  <2>1. /\ r' \in Record /\ SameStable(r', r) /\ r'.state = "CONFIRMED"
        /\ r'.image = r.stable_image
    BY <1>1, <1>7, StableAgainFields
  <2>2. TypeOK'
    BY <1>2, <1>3, <1>7, <2>1 DEF IInv, TypeOK, InstallBeginSave
  <2>3. RecordSound(r)'
    BY <1>1, <1>7, <2>1 DEF RecordSound, SameStable, StableInFlash, Staged, InstallBeginSave
  <2>4. BootInv'
    BY <1>1, <1>2, <1>3, <1>7, <2>1, <2>3 DEF BootInv, Saving, SameStable
  <2> QED
    BY <1>4, <1>5, <1>7, <2>2, <2>4, BootKeeps DEF InstallBeginSave
<1>8. CASE NextLoop
  BY <1>2, <1>3, <1>4, <1>5, <1>8, LoopKeeps DEF InstallBeginSave, IInv, TypeOK
<1> QED
  BY <1>6, <1>7, <1>8 DEF InstallBeginSave

LEMMA RollbackBeginStep == IInv /\ RollbackBegin => IInv'
<1> SUFFICES ASSUME IInv, RollbackBegin PROVE IInv'
  OBVIOUS
<1>1. rec \in Record /\ rec.state = "ROLLBACK" /\ RecordSound(rec)
  BY DEF IInv, TypeOK, RecordInv, RollbackBegin, InState
<1>2. TypeOK' /\ RecordInv' /\ ErasedOnlyInInstall' /\ RecordSound(r)'
  BY <1>1 DEF IInv, RollbackBegin, TypeOK, RecordInv, RecordSound, ErasedOnlyInInstall
<1>3. BootInv'
  BY <1>1, <1>2 DEF RollbackBegin, BootInv, Saving, InState
<1> QED
  BY <1>2, <1>3, BootKeeps DEF RollbackBegin, InState

(* The installer works on the record it saved, or on a rollback's record.  *)
LEMMA InstallerContext ==
    ASSUME IInv, pc \in {"preflight", "erase", "program"}
    PROVE  /\ rec \in Record /\ rec # NoRecord /\ r \in Record
           /\ RecordSound(rec) /\ RecordSound(r) /\ rec = r
           /\ r.state \in {"INSTALLING", "ROLLBACK"}
BY DEF IInv, RecordInv, RecordSound, BootInv, Saving

(* A failed install leaves a record that rolls back.                       *)
LEMMA InstallFailedKeeps ==
    ASSUME IInv, pc \in {"preflight", "erase", "program"},
           r' = InstallFailed, pc' = "plain_save",
           flash' \in {flash, Bad}, Fault \/ UNCHANGED faults,
           UNCHANGED <<rec, ufs, mailbox, rcc, reset_reason, attempted, app>>
    PROVE  IInv'
<1>1. /\ rec \in Record /\ rec # NoRecord /\ RecordSound(rec) /\ RecordSound(r) /\ rec = r
      /\ r \in Record /\ r.state \in {"INSTALLING", "ROLLBACK"}
  BY InstallerContext
<1>2. r' \in Record /\ SameStable(r', r) /\ r'.state = "ROLLBACK"
  BY <1>1, InstallerRecords
<1>3. TypeOK'
  BY <1>2, FaultsBounded DEF IInv, TypeOK
<1>4. RecordInv' /\ ErasedOnlyInInstall'
  BY <1>1 DEF RecordInv, RecordSound, ErasedOnlyInInstall
<1>5. RecordSound(r)'
  BY <1>1, <1>2 DEF RecordSound, SameStable, Staged
<1>6. BootInv'
  BY <1>1, <1>2, <1>5 DEF BootInv, Saving, SameStable
<1> QED
  BY <1>3, <1>4, <1>6, BootKeeps

LEMMA PreflightStep == IInv /\ Preflight => IInv'
<1> SUFFICES ASSUME IInv, Preflight PROVE IInv'
  OBVIOUS
<1>1. TypeOK' /\ RecordInv' /\ ErasedOnlyInInstall'
  BY DEF IInv, Preflight, TypeOK, RecordInv, RecordSound, ErasedOnlyInInstall
<1>2. BootInv'
  BY DEF IInv, Preflight, BootInv, Saving, RecordSound
<1> QED
  BY <1>1, <1>2, BootKeeps DEF Preflight

LEMMA PreflightFailsStep == IInv /\ PreflightFails => IInv'
<1> SUFFICES ASSUME IInv, PreflightFails PROVE IInv'
  OBVIOUS
<1>1. CASE r' = InstallFailed /\ pc' = "plain_save"
  BY <1>1, InstallFailedKeeps DEF PreflightFails
<1>2. CASE r.state = "INSTALLING" /\ StableInFlash /\ r' = StableAgain(r) /\ pc' = "jump_save"
  <2>1. /\ rec \in Record /\ rec # NoRecord /\ RecordSound(rec) /\ RecordSound(r) /\ rec = r
        /\ r \in Record
    BY InstallerContext DEF PreflightFails
  <2>2. /\ r' \in Record /\ SameStable(r', r) /\ r'.state = "CONFIRMED"
        /\ r'.image = r.stable_image
    BY <1>2, <2>1, StableAgainFields
  <2>3. TypeOK'
    BY <1>2, <2>2, FaultsBounded DEF IInv, TypeOK, PreflightFails
  <2>4. RecordInv' /\ ErasedOnlyInInstall'
    BY DEF IInv, RecordInv, RecordSound, ErasedOnlyInInstall, PreflightFails
  <2>5. RecordSound(r)'
    BY <1>2, <2>1, <2>2 DEF RecordSound, SameStable, StableInFlash, Staged, PreflightFails
  <2>6. BootInv'
    BY <1>2, <2>1, <2>2, <2>5 DEF BootInv, Saving, SameStable, PreflightFails
  <2> QED
    BY <1>2, <2>3, <2>4, <2>6, BootKeeps DEF PreflightFails
<1> QED
  BY <1>1, <1>2 DEF PreflightFails

LEMMA EraseAppStep == IInv /\ EraseApp => IInv'
<1> SUFFICES ASSUME IInv, EraseApp PROVE IInv'
  OBVIOUS
<1>1. /\ rec \in Record /\ rec # NoRecord /\ RecordSound(rec) /\ rec = r
      /\ r.state \in {"INSTALLING", "ROLLBACK"}
  BY InstallerContext DEF EraseApp
<1>2. TypeOK'
  BY DEF IInv, TypeOK, EraseApp
<1>3. RecordInv' /\ ErasedOnlyInInstall' /\ RecordSound(r)'
  BY <1>1 DEF RecordInv, RecordSound, ErasedOnlyInInstall, EraseApp
<1>4. BootInv'
  BY <1>1, <1>3 DEF BootInv, Saving, EraseApp
<1> QED
  BY <1>2, <1>3, <1>4, BootKeeps DEF EraseApp

LEMMA EraseAppFailsStep == IInv /\ EraseAppFails => IInv'
BY InstallFailedKeeps DEF EraseAppFails

LEMMA ProgramAppFailsStep == IInv /\ ProgramAppFails => IInv'
BY InstallFailedKeeps DEF ProgramAppFails

LEMMA ProgramAppStep == IInv /\ ProgramApp => IInv'
<1> SUFFICES ASSUME IInv, ProgramApp PROVE IInv'
  OBVIOUS
<1>1. /\ rec \in Record /\ rec # NoRecord /\ RecordSound(rec) /\ RecordSound(r) /\ rec = r
      /\ r \in Record /\ r.state \in {"INSTALLING", "ROLLBACK"}
  BY InstallerContext DEF ProgramApp
<1>2. flash' \in Image
  BY <1>1 DEF ProgramApp, InstallImage, RecordSound, Staged
<1>3. RecordInv' /\ ErasedOnlyInInstall'
  BY <1>1, <1>2 DEF ProgramApp, RecordInv, RecordSound, ErasedOnlyInInstall
<1>4. CASE r.state = "ROLLBACK"
  <2>1. r' \in Record /\ SameStable(r', r) /\ r'.state = "ROLLBACK" /\ mailbox' = mailbox
    BY <1>1, <1>4, InstallerRecords DEF ProgramApp
  <2>2. TypeOK'
    BY <1>2, <2>1 DEF IInv, TypeOK, ProgramApp
  <2>3. RecordSound(r)' /\ flash' = r'.stable_image
    BY <1>1, <1>4, <2>1 DEF RecordSound, SameStable, Staged, ProgramApp, InstallImage
  <2>4. BootInv'
    BY <1>1, <2>1, <2>3 DEF BootInv, Saving, SameStable, ProgramApp
  <2> QED
    BY <1>3, <2>2, <2>4, BootKeeps DEF ProgramApp
<1>5. CASE r.state = "INSTALLING"
  <2>1. /\ r' \in Record /\ SameStable(r', r) /\ SameCandidate(r', r)
        /\ r'.state = "TRIAL" /\ mailbox' = FALSE
    BY <1>1, <1>5, InstallerRecords DEF ProgramApp
  <2>2. TypeOK'
    BY <1>2, <2>1 DEF IInv, TypeOK, ProgramApp
  <2>3. RecordSound(r)'
    BY <1>1, <1>5, <2>1
       DEF RecordSound, SameStable, SameCandidate, Staged, ProgramApp, InstallImage
  <2>4. BootInv'
    BY <1>1, <1>5, <2>1, <2>3 DEF BootInv, Saving, SameStable, ProgramApp
  <2> QED
    BY <1>3, <2>2, <2>4, BootKeeps DEF ProgramApp
<1> QED
  BY <1>1, <1>4, <1>5

(* The two saves that end a step of the Boot.                              *)
LEMMA JumpSaveStep == IInv /\ JumpSave => IInv'
<1> SUFFICES ASSUME IInv, JumpSave PROVE IInv'
  OBVIOUS
<1>1. /\ rec # NoRecord /\ RecordSound(rec) /\ RecordSound(r)
      /\ r.state \in {"CONFIRMED", "TRIAL", "ROLLBACK"}
      /\ r.state = "ROLLBACK" => flash = r.stable_image
  BY DEF IInv, RecordInv, BootInv, Saving, JumpSave
<1>2. rec' \in {rec, r} /\ faults' \in 0..MaxFaults
  BY BootSave DEF IInv, JumpSave
<1>3. rec' \in Record /\ rec' # NoRecord
  BY <1>1, <1>2, Distinct DEF RecordSound
<1>4. RecordInv'
  BY <1>1, <1>2, <1>3 DEF RecordInv, RecordSound, JumpSave
<1>5. flash \in Image
  BY <1>1 DEF RecordSound, Staged
<1>6. ErasedOnlyInInstall'
  BY <1>5, Distinct DEF JumpSave, ErasedOnlyInInstall
<1>7. CASE SaveOk(r) /\ Jump
  <2>1. RunsRecordedImage'
    BY <1>1, <1>3, <1>5, <1>7 DEF JumpSave, SaveOk, RunsRecordedImage, RecordSound
  <2> QED
    BY <1>2, <1>3, <1>4, <1>6, <1>7, <2>1, JumpKeeps DEF JumpSave, IInv, TypeOK
<1>8. CASE NextLoop
  BY <1>2, <1>3, <1>4, <1>6, <1>8, LoopKeeps DEF JumpSave, IInv, TypeOK
<1> QED
  BY <1>7, <1>8 DEF JumpSave

LEMMA PlainSaveStep == IInv /\ PlainSave => IInv'
<1> SUFFICES ASSUME IInv, PlainSave PROVE IInv'
  OBVIOUS
<1>1. /\ rec # NoRecord /\ RecordSound(rec) /\ RecordSound(r)
      /\ rec.state \in {"INSTALLING", "ROLLBACK"} /\ r.state = "ROLLBACK"
  BY DEF IInv, RecordInv, BootInv, Saving, PlainSave
<1>2. rec' \in {rec, r} /\ faults' \in 0..MaxFaults
  BY BootSave DEF IInv, PlainSave
<1>3. rec' \in Record /\ rec' # NoRecord
  BY <1>1, <1>2, Distinct DEF RecordSound
<1>4. RecordInv'
  BY <1>1, <1>2, <1>3 DEF RecordInv, RecordSound, PlainSave
<1>5. ErasedOnlyInInstall'
  BY <1>1, <1>2, <1>3 DEF ErasedOnlyInInstall
<1> QED
  BY <1>2, <1>3, <1>4, <1>5, LoopKeeps DEF PlainSave, IInv, TypeOK

LEMMA BootStep == IInv /\ Boot => IInv'
BY BootInitStep, HandOverStep, TrialFailedStep, TrialSaveStep, InstallBeginStep,
   InstallBeginSaveStep, RollbackBeginStep, PreflightStep, PreflightFailsStep,
   EraseAppStep, EraseAppFailsStep, ProgramAppStep, ProgramAppFailsStep,
   JumpSaveStep, PlainSaveStep
   DEF Boot

-----------------------------------------------------------------------------
(* The steps of the App.  A staging context that is not busy claims nothing. *)
LEMMA StagingStep ==
    IInv /\ (Provisioned \/ Reprovision \/ DownloadFails \/ ModemReset) => IInv'
<1> SUFFICES ASSUME IInv, Provisioned \/ Reprovision \/ DownloadFails \/ ModemReset
             PROVE  IInv'
  OBVIOUS
<1>1. /\ InApp /\ UNCHANGED <<shared, rec>> /\ (Fault \/ UNCHANGED faults)
      /\ app' \in AppContext /\ app'.phase \notin {"stop", "fill", "verified"}
  BY DEF IInv, TypeOK, AppContext, AppPhase, Failed,
         Provisioned, Reprovision, DownloadFails, ModemReset
<1>2. AppInv'
  BY <1>1 DEF AppInv, Busy
<1> QED
  BY <1>1, <1>2, FaultsBounded, AppKeeps DEF IInv

LEMMA StableCheckStep == IInv /\ StableCheck => IInv'
<1> SUFFICES ASSUME IInv, StableCheck PROVE IInv'
  OBVIOUS
<1>1. flash \in Image
  BY DEF IInv, StableCheck, InApp, RunsRecordedImage
<1>2. app' \in AppContext
  BY <1>1 DEF IInv, TypeOK, StableCheck, AppContext, AppPhase, Slot
<1>3. CASE NeedsSeed
  <2>1. /\ app'.phase = "stop" /\ app'.seeding /\ app'.slot = 0
        /\ app'.want = flash /\ app'.named
    BY <1>3 DEF StableCheck, IInv, TypeOK, AppContext
  <2>2. rec = NoRecord
    <3>1. SUFFICES ASSUME rec # NoRecord PROVE FALSE
      OBVIOUS
    <3>2. RecordSound(rec) /\ rec.state = "CONFIRMED"
      BY <3>1 DEF StableCheck, Settled, Loaded, IInv, RecordInv, RecordSound
    <3> QED
      BY <1>3, <3>1, <3>2 DEF NeedsSeed, Loaded, RecordSound
  <2>3. AppInv'
    BY <1>1, <2>1, <2>2
       DEF AppInv, Busy, StableCheck, InApp, shared, Settled, Loaded
  <2> QED
    BY <1>2, <2>3, AppKeeps DEF StableCheck, IInv, TypeOK
<1>4. CASE ~NeedsSeed
  <2>1. app'.phase = "idle"
    BY <1>4 DEF StableCheck, IInv, TypeOK, AppContext
  <2>2. AppInv'
    BY <2>1 DEF AppInv, Busy
  <2> QED
    BY <1>2, <2>2, AppKeeps DEF StableCheck, IInv, TypeOK
<1> QED
  BY <1>3, <1>4

(* The only step that leans on the product: it asked IsReady before, and   *)
(* the version it was given is the one the image reports.                  *)
LEMMA StartStep ==
    ASSUME ReadyGate, Misnamed = {}, NEW image \in Image, IInv, Start(image)
    PROVE  IInv'
<1>1. rec # NoRecord /\ RecordSound(rec) /\ Loaded = rec
  BY DEF Start, IsReady, IInv, RecordInv, Loaded
<1>2. /\ app'.phase = "stop" /\ ~app'.seeding /\ app'.want = image /\ app'.named
      /\ app'.slot = IF rec.stable_slot = 0 THEN 1 ELSE 0
  BY <1>1 DEF Start, OtherSlot, IInv, TypeOK, AppContext
<1>3. app'.slot # rec.stable_slot
  BY <1>2
<1>4. app' \in AppContext
  BY DEF Start, OtherSlot, IInv, TypeOK, AppContext, AppPhase, Slot
<1>5. AppInv'
  BY <1>1, <1>2, <1>3 DEF AppInv, Busy, Start, InApp, shared, Settled, Loaded
<1> QED
  BY <1>4, <1>5, AppKeeps DEF Start, IInv, TypeOK

(* A transfer writes one slot, which no sound record needs.                *)
LEMMA TransferKeeps ==
    ASSUME IInv, Busy, InApp,
           NEW content \in Image \cup {Bad}, ufs' = [ufs EXCEPT ![app.slot] = content],
           app' \in AppContext,
           app'.slot = app.slot, app'.want = app.want,
           app'.named = app.named, app'.seeding = app.seeding,
           app'.phase = "verified" => content = app.want,
           UNCHANGED <<rec, flash, mailbox, rcc, bootvars, faults>>
    PROVE  IInv'
<1>1. TypeOK'
  BY DEF IInv, TypeOK, AppContext, InApp, bootvars
<1>2. app.slot \in Slot /\ ufs'[app.slot] = content
  BY DEF IInv, TypeOK, AppContext
<1>3. RecordInv'
  <2> SUFFICES ASSUME rec # NoRecord PROVE RecordSound(rec)'
    BY DEF IInv, RecordInv
  <2>1. RecordSound(rec) /\ rec.state = "CONFIRMED" /\ app.slot # rec.stable_slot
    BY DEF IInv, RecordInv, RecordSound, AppInv, Settled, Loaded
  <2>2. rec.stable_slot \in Slot
    BY <2>1, RecordFields DEF RecordSound
  <2>3. ufs'[rec.stable_slot] = ufs[rec.stable_slot]
    BY <2>1, <2>2 DEF IInv, TypeOK
  <2> QED
    BY <2>1, <2>3 DEF RecordSound, Staged
<1>4. BootInv'
  BY DEF InApp, BootInv, Saving
<1>5. AppInv'
  BY <1>2 DEF IInv, AppInv, Busy, InApp, Settled, Loaded
<1>6. RunsRecordedImage' /\ ErasedOnlyInInstall'
  BY DEF IInv, InApp, RunsRecordedImage, ErasedOnlyInInstall, StableKnown
<1> QED
  BY <1>1, <1>3, <1>4, <1>5, <1>6 DEF IInv

LEMMA OpenFileStep == IInv /\ OpenFile => IInv'
<1> SUFFICES ASSUME IInv, OpenFile PROVE IInv'
  OBVIOUS
<1>1. /\ app' \in AppContext /\ app'.phase = "fill"
      /\ app'.slot = app.slot /\ app'.want = app.want
      /\ app'.named = app.named /\ app'.seeding = app.seeding
  BY DEF OpenFile, IInv, TypeOK, AppContext, AppPhase
<1> QED
  BY <1>1, TransferKeeps DEF OpenFile, Busy

LEMMA FileVerifiedStep == IInv /\ FileVerified => IInv'
<1> SUFFICES ASSUME IInv, FileVerified PROVE IInv'
  OBVIOUS
<1>1. /\ app' \in AppContext
      /\ app'.slot = app.slot /\ app'.want = app.want
      /\ app'.named = app.named /\ app'.seeding = app.seeding
  BY DEF FileVerified, IInv, TypeOK, AppContext, AppPhase
<1>2. app.want \in Image /\ Busy
  BY DEF FileVerified, IInv, AppInv, Busy
<1> QED
  BY <1>1, <1>2, TransferKeeps DEF FileVerified

(* The App saves a record that is sound already: it makes no difference    *)
(* whether a failing save took effect.                                     *)
LEMMA AppSaveKeeps ==
    ASSUME IInv, pc = "app", UNCHANGED <<pc, shared>>,
           RecordSound(rec)', rec' # NoRecord, faults' \in 0..MaxFaults,
           flash \in Image,
           rec'.state = "CONFIRMED" \/ rec'.state = "INSTALL_PENDING",
           app' \in AppContext, ~Busy'
    PROVE  IInv'
<1>1. TypeOK'
  BY DEF IInv, TypeOK, shared, RecordSound
<1>2. RecordInv' /\ BootInv' /\ AppInv'
  BY DEF RecordInv, BootInv, Saving, AppInv
<1>3. RunsRecordedImage' /\ ErasedOnlyInInstall'
  BY Distinct DEF RunsRecordedImage, ErasedOnlyInInstall, RecordSound, shared
<1> QED
  BY <1>1, <1>2, <1>3 DEF IInv

LEMMA CommitStep == IInv /\ Commit => IInv'
<1> SUFFICES ASSUME IInv, Commit PROVE IInv'
  OBVIOUS
<1>1. /\ flash \in Image /\ Settled /\ app.want \in Image /\ app.named
      /\ rec = NoRecord => app.seeding /\ app.want = flash
      /\ rec # NoRecord => ~app.seeding /\ app.slot # rec.stable_slot
      /\ ufs[app.slot] = app.want
      /\ rec \in Record \cup {NoRecord} /\ app \in AppContext
  BY DEF IInv, TypeOK, AppInv, Busy, Commit, InApp, RunsRecordedImage
<1>2. /\ app' \in AppContext /\ app'.phase \notin {"stop", "fill", "verified"}
      /\ faults' \in 0..MaxFaults
  <2>1. app' \in AppContext /\ app'.phase \in {"idle", "error"}
    BY <1>1 DEF Commit, AppContext, AppPhase, Failed
  <2>2. faults' \in 0..MaxFaults
    BY FaultsBounded DEF Commit, SaveOk, SaveFails, IInv
  <2> QED
    BY <2>1, <2>2
<1>3. rec' = CommitRecord \/ rec' = rec
  BY DEF Commit, SaveOk, SaveFails
<1>4. CASE rec' = rec
  <2>1. AppInv'
    BY <1>2 DEF AppInv, Busy
  <2> QED
    BY <1>2, <1>4, <2>1, AppKeeps DEF Commit
<1>5. CASE rec' = CommitRecord
  <2>1. rec' \in Record /\ rec' # NoRecord
    BY <1>1, <1>5, CommitRecords, Distinct
  <2>2. CASE app.seeding
    <3>1. RecordSound(rec)' /\ rec'.state = "CONFIRMED"
      BY <1>1, <1>5, <2>1, <2>2, CommitRecords
         DEF RecordSound, Staged, Commit, shared
    <3> QED
      BY <1>1, <1>2, <2>1, <3>1, AppSaveKeeps DEF Commit, InApp, Busy
  <2>3. CASE ~app.seeding
    <3>1. rec # NoRecord /\ RecordSound(rec) /\ Loaded = rec /\ rec.state = "CONFIRMED"
      BY <1>1, <2>3 DEF IInv, RecordInv, RecordSound, Settled, Loaded
    <3>2. RecordSound(rec)' /\ rec'.state = "INSTALL_PENDING"
      BY <1>1, <1>5, <2>1, <2>3, <3>1, CommitRecords
         DEF RecordSound, SameStable, Staged, Commit, shared
    <3> QED
      BY <1>1, <1>2, <2>1, <3>2, AppSaveKeeps DEF Commit, InApp, Busy
  <2> QED
    BY <2>2, <2>3
<1> QED
  BY <1>3, <1>4, <1>5

(* No transfer is under way in the states Confirm and AcknowledgeRollback  *)
(* leave.                                                                  *)
LEMMA ConfirmStep == IInv /\ Confirm => IInv'
<1> SUFFICES ASSUME IInv, Confirm PROVE IInv'
  OBVIOUS
<1>1. /\ rec \in Record /\ RecordSound(rec) /\ rec.state = "TRIAL" /\ ~Busy
      /\ rec.image \in Image /\ flash = rec.image
  BY DEF IInv, TypeOK, RecordInv, RecordSound, AppInv, Settled, Loaded, Confirm, Staged
<1>2. app' \in AppContext /\ faults' \in 0..MaxFaults /\ ~Busy'
  BY <1>1, FaultsBounded DEF IInv, TypeOK, Confirm, SaveOk, SaveFails, Busy
<1>3. CASE rec' = rec
  BY <1>2, <1>3, AppKeeps DEF Confirm, AppInv
<1>4. CASE rec' = ConfirmedRecord
  <2>1. /\ rec' \in Record /\ rec' # NoRecord /\ rec'.state = "CONFIRMED"
        /\ rec'.stable_slot = rec.candidate_slot
        /\ rec'.stable_image = rec.image /\ rec'.stable_named = rec.image_named
        /\ rec'.image = rec.image
    BY <1>1, <1>4, AppRecords, Distinct
  <2>2. RecordSound(rec)'
    BY <1>1, <2>1 DEF RecordSound, Staged, Confirm, shared
  <2> QED
    BY <1>1, <1>2, <2>1, <2>2, AppSaveKeeps DEF Confirm, InApp
<1> QED
  BY <1>3, <1>4 DEF Confirm, SaveOk, SaveFails

LEMMA AcknowledgeRollbackStep == IInv /\ AcknowledgeRollback => IInv'
<1> SUFFICES ASSUME IInv, AcknowledgeRollback PROVE IInv'
  OBVIOUS
<1>1. /\ rec \in Record /\ RecordSound(rec) /\ rec.state = "ROLLBACK" /\ ~Busy
      /\ flash \in Image /\ flash = rec.stable_image
  BY DEF IInv, TypeOK, RecordInv, RecordSound, RunsRecordedImage, AppInv, Settled, Loaded,
         AcknowledgeRollback, InApp
<1>2. app' \in AppContext /\ faults' \in 0..MaxFaults /\ ~Busy'
  BY <1>1, FaultsBounded DEF IInv, TypeOK, AcknowledgeRollback, SaveOk, SaveFails, Busy
<1>3. CASE rec' = rec
  BY <1>2, <1>3, AppKeeps DEF AcknowledgeRollback, AppInv
<1>4. CASE rec' = AcknowledgedRecord
  <2>1. /\ rec' \in Record /\ rec' # NoRecord /\ rec'.state = "CONFIRMED"
        /\ SameStable(rec', rec) /\ rec'.image = rec.stable_image
    BY <1>1, <1>4, AppRecords, Distinct
  <2>2. RecordSound(rec)'
    BY <1>1, <2>1 DEF RecordSound, Staged, SameStable, AcknowledgeRollback, shared
  <2> QED
    BY <1>1, <1>2, <2>1, <2>2, AppSaveKeeps DEF AcknowledgeRollback, InApp
<1> QED
  BY <1>3, <1>4 DEF AcknowledgeRollback, SaveOk, SaveFails

(* Whatever resets the processor.                                          *)
LEMMA ResetStep ==
    IInv /\ (InstallRestart \/ AppFaults \/ AppHangs \/ PinReset \/ PowerLoss) => IInv'
<1> SUFFICES ASSUME IInv, InstallRestart \/ AppFaults \/ AppHangs \/ PinReset \/ PowerLoss
             PROVE  IInv'
  OBVIOUS
<1>1. /\ Restart /\ UNCHANGED <<rec, flash, ufs>> /\ (Fault \/ UNCHANGED faults)
      /\ mailbox' \in BOOLEAN /\ rcc' \in {"iwdg", "other"}
  BY DEF IInv, TypeOK, InstallRestart, AppFaults, AppHangs, PinReset, PowerLoss, MayFail
<1> QED
  BY <1>1, FaultsBounded, RestartKeeps DEF IInv

LEMMA NextIInv == ReadyGate /\ Misnamed = {} => (IInv /\ [Next]_vars => IInv')
<1> SUFFICES ASSUME ReadyGate, Misnamed = {}, IInv, [Next]_vars PROVE IInv'
  OBVIOUS
<1>1. CASE Boot
  BY <1>1, BootStep
<1>2. CASE App
  BY <1>2, StagingStep, StableCheckStep, StartStep, OpenFileStep, FileVerifiedStep,
     CommitStep, ConfirmStep, AcknowledgeRollbackStep, ResetStep DEF App
<1>3. CASE PinReset \/ PowerLoss
  BY <1>3, ResetStep
<1>4. CASE UNCHANGED vars
  <2>1. TypeOK' /\ RecordInv' /\ RunsRecordedImage' /\ ErasedOnlyInInstall'
    BY <1>4 DEF IInv, vars, TypeOK, RecordInv, RecordSound, RunsRecordedImage,
                ErasedOnlyInInstall, StableKnown
  <2>2. BootInv' /\ AppInv'
    BY <1>4 DEF IInv, vars, BootInv, Saving, RecordSound, AppInv, Busy, Settled, Loaded
  <2> QED
    BY <2>1, <2>2 DEF IInv
<1> QED
  BY <1>1, <1>2, <1>3, <1>4 DEF Next

-----------------------------------------------------------------------------
(* For a product that asks IsReady before Start and whose images report    *)
(* the version they are released under, every state satisfies IInv.        *)
THEOREM LifecycleInvariant ==
    ASSUME ReadyGate, Misnamed = {}
    PROVE  Spec => []IInv
<1>1. IInv /\ [Next]_vars => IInv'
  BY NextIInv
<1> QED
  BY InitIInv, <1>1, PTL DEF Spec

(* TypeOK: the record, the Flash, the slots and both programs' variables.  *)
THEOREM LifecycleTypes ==
    ASSUME ReadyGate, Misnamed = {}
    PROVE  Spec => []TypeOK
<1>1. IInv => TypeOK
  BY DEF IInv
<1> QED
  BY LifecycleInvariant, <1>1, PTL

(* RunsRecordedImage: the App that runs is whole, and the one on record.   *)
THEOREM AppIsRecorded ==
    ASSUME ReadyGate, Misnamed = {}
    PROVE  Spec => []RunsRecordedImage
<1>1. IInv => RunsRecordedImage
  BY DEF IInv
<1> QED
  BY LifecycleInvariant, <1>1, PTL

(* ErasedOnlyInInstall: the Flash is erased only under a record that says  *)
(* so, at whatever instant the power fails.                                *)
THEOREM EraseIsJournalled ==
    ASSUME ReadyGate, Misnamed = {}
    PROVE  Spec => []ErasedOnlyInInstall
<1>1. IInv => ErasedOnlyInInstall
  BY DEF IInv
<1> QED
  BY LifecycleInvariant, <1>1, PTL

(* SlotsIntact: no transfer, stale or interrupted, touches a file the Boot *)
(* may still have to install.                                              *)
THEOREM SlotsStayIntact ==
    ASSUME ReadyGate, Misnamed = {}
    PROVE  Spec => []SlotsIntact
<1>1. IInv => SlotsIntact
  BY DEF IInv, RecordInv, RecordSound, SlotsIntact, StableSlotIntact, CandidateSlotIntact, Staged
<1> QED
  BY LifecycleInvariant, <1>1, PTL

(* NotStranded: the Boot always has an image to go to.                     *)
THEOREM NeverStranded ==
    ASSUME ReadyGate, Misnamed = {}
    PROVE  Spec => []NotStranded
<1>1. IInv => NotStranded
  BY Distinct DEF IInv, RecordInv, RecordSound, NotStranded, StableKnown
<1> QED
  BY LifecycleInvariant, <1>1, PTL

-----------------------------------------------------------------------------
(* Who changes the record.                                                 *)
LEMMA RecordWriters ==
    ASSUME Next, rec' # rec
    PROVE  \/ pc \in {"trial_save", "begin_save", "jump_save", "plain_save"} /\ rec' = r
           \/ Commit /\ rec' = CommitRecord
           \/ Confirm /\ rec' = ConfirmedRecord
           \/ AcknowledgeRollback /\ rec' = AcknowledgedRecord
<1>1. CASE Boot
  BY <1>1 DEF Boot, BootInit, BootWithoutRecord, BootConfirmed, TrialRuns, TrialFailed,
     TrialSave, InstallBegin, InstallBeginSave, RollbackInstalled, RollbackBegin, Preflight,
     PreflightFails, EraseApp, EraseAppFails, ProgramApp, ProgramAppFails, JumpSave,
     PlainSave, SaveOk, SaveFails
<1>2. CASE App
  BY <1>2 DEF App, Provisioned, Reprovision, StableCheck, Start, OpenFile, FileVerified,
     DownloadFails, Commit, InstallRestart, Confirm, AcknowledgeRollback, ModemReset,
     AppFaults, AppHangs, SaveOk, SaveFails
<1>3. CASE PinReset \/ PowerLoss
  BY <1>3 DEF PinReset, PowerLoss
<1> QED
  BY <1>1, <1>2, <1>3 DEF Next

(* RollbackHeld: only the acknowledgement of an installed stable image     *)
(* ends a rollback.                                                        *)
THEOREM RollbackEndsAcknowledged ==
    ASSUME ReadyGate, Misnamed = {}
    PROVE  Spec => RollbackHeld
<1> DEFINE Held == (rec # NoRecord /\ rec.state = "ROLLBACK" /\ rec'.state # "ROLLBACK")
                      => /\ pc = "app" /\ rec.rollback_installed
                         /\ rec'.state = "CONFIRMED" /\ flash = rec'.image
<1>1. IInv /\ [Next]_vars => Held
  <2> SUFFICES ASSUME IInv, Next, rec # NoRecord, rec.state = "ROLLBACK",
                      rec'.state # "ROLLBACK"
               PROVE  /\ pc = "app" /\ rec.rollback_installed
                      /\ rec'.state = "CONFIRMED" /\ flash = rec'.image
    BY DEF vars
  <2>1. CASE pc \in {"trial_save", "begin_save", "jump_save", "plain_save"} /\ rec' = r
    BY <2>1 DEF IInv, BootInv, Saving
  <2>2. CASE Commit \/ Confirm
    BY <2>2 DEF Commit, Confirm, IInv, AppInv, Busy, Settled, Loaded
  <2>3. CASE AcknowledgeRollback /\ rec' = AcknowledgedRecord
    BY <2>3, AppRecords
       DEF AcknowledgeRollback, InApp, IInv, TypeOK, RunsRecordedImage
  <2> QED
    BY <2>1, <2>2, <2>3, RecordWriters
<1>2. IInv /\ [Next]_vars => [Held]_vars
  BY <1>1
<1> QED
  BY LifecycleInvariant, <1>2, PTL DEF Spec, RollbackHeld

(* StableOnlyFromRunning: the image the device falls back to has run on it. *)
THEOREM StableImageRan ==
    ASSUME ReadyGate, Misnamed = {}
    PROVE  Spec => StableOnlyFromRunning
<1> DEFINE Ran == (rec' # rec /\ StableKnown(rec')
                     /\ (rec = NoRecord \/ rec'.stable_image # rec.stable_image))
                     => pc = "app" /\ rec'.stable_image = flash
<1>1. IInv /\ [Next]_vars => Ran
  <2> SUFFICES ASSUME IInv, Next, rec' # rec,
                      rec = NoRecord \/ rec'.stable_image # rec.stable_image
               PROVE  pc = "app" /\ rec'.stable_image = flash
    BY DEF vars
  <2>1. CASE pc \in {"trial_save", "begin_save", "jump_save", "plain_save"} /\ rec' = r
    BY <2>1 DEF IInv, BootInv, Saving
  <2>2. CASE Commit /\ rec' = CommitRecord
    <3>1. rec \in Record \cup {NoRecord} /\ app \in AppContext
      BY DEF IInv, TypeOK
    <3>2. CASE rec = NoRecord
      BY <2>2, <3>1, <3>2, CommitRecords DEF Commit, InApp, IInv, AppInv, Busy
    <3>3. CASE rec # NoRecord
      BY <2>2, <3>1, <3>3, CommitRecords
         DEF Commit, IInv, AppInv, Busy, Loaded, SameStable
    <3> QED
      BY <3>2, <3>3
  <2>3. CASE Confirm /\ rec' = ConfirmedRecord
    BY <2>3, AppRecords DEF Confirm, InApp, IInv, TypeOK, RunsRecordedImage
  <2>4. CASE AcknowledgeRollback /\ rec' = AcknowledgedRecord
    BY <2>4, AppRecords DEF AcknowledgeRollback, SameStable, IInv, TypeOK
  <2> QED
    BY <2>1, <2>2, <2>3, <2>4, RecordWriters
<1>2. IInv /\ [Next]_vars => [Ran]_vars
  BY <1>1
<1> QED
  BY LifecycleInvariant, <1>2, PTL DEF Spec, StableOnlyFromRunning
-----------------------------------------------------------------------------
(* The failures that are counted.  A failure is pending from the fault or  *)
(* the watchdog reset to the trial() that counts it.                       *)
Pending == mailbox \/ rcc = "iwdg" \/ reset_reason = "iwdg"

(* What is counted and what is pending exceed what really happened by at   *)
(* most one: the reset reason that an earlier App may have left behind.    *)
Counted ==
    /\ causes \in 0..TRIAL_FAILURE_LIMIT
    /\ pc # "init" => rcc = "other"
    /\ OnTrial => /\ rec.trial_fail_count < TRIAL_FAILURE_LIMIT
                  /\ rec.trial_fail_count <= causes + 1
                  /\ Pending => rec.trial_fail_count <= causes
                  /\ pc = "app" => ~mailbox
    /\ pc = "trial_save" => /\ rec.trial_fail_count <= causes
                            /\ r.trial_fail_count <= causes + 1
                            /\ (r.trial_fail_count < TRIAL_FAILURE_LIMIT) <=> (r.state = "TRIAL")
                            /\ ~mailbox
    /\ pc = "jump_save" => /\ rec.state # "TRIAL"
                           /\ r.state = "TRIAL" => r.trial_fail_count = 0 /\ ~mailbox

TrialInv == IInv /\ Counted

LEMMA InitCounted == TrialInit => TrialInv
<1> SUFFICES ASSUME TrialInit PROVE Counted
  BY InitIInv DEF TrialInit, TrialInv
<1> QED
  BY DEF TrialInit, Init, Counted, OnTrial, TRIAL_FAILURE_LIMIT

(* The history changes only with a new candidate or a failure of its own.  *)
LEMMA HistoryBounded ==
    ASSUME TrialInv, TrialNext
    PROVE  /\ causes' \in 0..TRIAL_FAILURE_LIMIT
           /\ ~CandidateInstalled => causes' \in {causes, causes + 1}
           /\ CandidateFailed /\ ~CandidateInstalled
                => causes' = causes + 1 \/ causes' = TRIAL_FAILURE_LIMIT
BY DEF TrialInv, Counted, TrialNext, TRIAL_FAILURE_LIMIT

(* Nothing is on trial, before the step or after it.                       *)
LEMMA OffTrial ==
    ASSUME causes' \in 0..TRIAL_FAILURE_LIMIT, pc' # "init" => rcc' = "other",
           rec' # NoRecord => rec'.state # "TRIAL",
           pc' # "trial_save",
           pc' = "jump_save" => r'.state # "TRIAL" /\ rec' # NoRecord
    PROVE  Counted'
BY DEF Counted, OnTrial

(* The trial goes on and no failure is added or counted.                   *)
LEMMA TrialGoesOn ==
    ASSUME TrialInv, rec # NoRecord, rec.state = "TRIAL", rec' = rec,
           causes' \in {causes, causes + 1}, causes' \in 0..TRIAL_FAILURE_LIMIT,
           pc' \notin {"trial_save", "jump_save"},
           pc' # "init" => rcc' = "other",
           Pending' => Pending \/ pc = "trial_save",
           pc' = "app" => ~mailbox'
    PROVE  Counted'
<1>1. rec.trial_fail_count \in 0..TRIAL_FAILURE_LIMIT
  BY RecordFields DEF TrialInv, IInv, TypeOK
<1> QED
  BY <1>1 DEF TrialInv, Counted, OnTrial, TRIAL_FAILURE_LIMIT

(* A reset forgets the reason the Boot had read, and adds no failure.      *)
LEMMA ResetCounted ==
    ASSUME TrialInv, TrialNext, Restart, rec' = rec,
           mailbox' \in {mailbox, FALSE}, rcc' \in {rcc, "other"}
    PROVE  Counted'
<1>1. ~CandidateInstalled /\ pc' = "init" /\ reset_reason' = "other"
  BY DEF Restart, CandidateInstalled
<1>2. CASE OnTrial
  <2>1. Pending' => Pending
    BY <1>1 DEF Pending
  <2>2. causes' \in {causes, causes + 1} /\ causes' \in 0..TRIAL_FAILURE_LIMIT
    BY <1>1, HistoryBounded
  <2> QED
    BY <1>1, <1>2, <2>1, <2>2, TrialGoesOn DEF OnTrial
<1>3. CASE ~OnTrial
  BY <1>1, <1>3, HistoryBounded, OffTrial DEF OnTrial
<1> QED
  BY <1>2, <1>3

(* A failure of the candidate: one more is pending, and one more happened. *)
LEMMA FailureCounted ==
    ASSUME TrialInv, TrialNext, AppFaults \/ AppHangs
    PROVE  Counted'
<1>1. /\ pc = "app" /\ pc' = "init" /\ rec' = rec /\ reset_reason' = "other"
      /\ ~CandidateInstalled
  BY DEF AppFaults, AppHangs, Restart, CandidateInstalled
<1>2. CASE OnTrial
  <2>1. CandidateFailed
    BY <1>1, <1>2 DEF AppFaults, AppHangs, CandidateFailed, TrialInv, Counted
  <2>2. rec.trial_fail_count \in 0..TRIAL_FAILURE_LIMIT
    BY <1>2, RecordFields DEF OnTrial, TrialInv, IInv, TypeOK
  <2>3. rec.trial_fail_count <= causes'
    BY <1>1, <1>2, <2>1, <2>2, HistoryBounded DEF TrialInv, Counted, TRIAL_FAILURE_LIMIT
  <2> QED
    BY <1>1, <1>2, <2>2, <2>3, HistoryBounded
       DEF TrialInv, Counted, OnTrial, TRIAL_FAILURE_LIMIT
<1>3. CASE ~OnTrial
  BY <1>1, <1>3, HistoryBounded, OffTrial DEF OnTrial
<1> QED
  BY <1>2, <1>3

(* trial() counts the pending failure.                                     *)
LEMMA TrialFailedCounted == TrialInv /\ TrialNext /\ TrialFailed => Counted'
<1> SUFFICES ASSUME TrialInv, TrialNext, TrialFailed PROVE Counted'
  OBVIOUS
<1>1. /\ OnTrial /\ pc = "task" /\ pc' = "trial_save" /\ rec' = rec /\ rcc' = rcc
      /\ ~mailbox' /\ rec \in Record
  BY DEF TrialFailed, InState, OnTrial, TrialInv, IInv, TypeOK
<1>2. causes' = causes
  BY <1>1 DEF TrialNext, CandidateInstalled, CandidateFailed
<1>3. Pending /\ StableKnown(rec)
  BY <1>1, Distinct
     DEF TrialFailed, TrialBad, Pending, TrialInv, IInv, RecordInv, RecordSound, OnTrial, StableKnown
<1>4. rec.trial_fail_count \in 0..TRIAL_FAILURE_LIMIT /\ causes \in 0..TRIAL_FAILURE_LIMIT
  BY <1>1, RecordFields DEF TrialInv, Counted
<1>5. rec.trial_fail_count <= causes /\ rec.trial_fail_count < TRIAL_FAILURE_LIMIT
  BY <1>1, <1>3 DEF TrialInv, Counted
<1>6. FailuresCounted = rec.trial_fail_count + 1
  BY <1>5 DEF FailuresCounted
<1>7. /\ r'.trial_fail_count = rec.trial_fail_count + 1
      /\ (r'.trial_fail_count < TRIAL_FAILURE_LIMIT) <=> (r'.state = "TRIAL")
  <2>1. CASE FailuresCounted < TRIAL_FAILURE_LIMIT
    <3>1. r' = FailedAgain
      BY <2>1 DEF TrialFailed
    <3>2. FailedAgain.trial_fail_count = FailuresCounted /\ FailedAgain.state = rec.state
      BY <1>1 DEF FailedAgain, Record
    <3> QED
      BY <1>1, <1>6, <2>1, <3>1, <3>2 DEF OnTrial
  <2>2. CASE ~(FailuresCounted < TRIAL_FAILURE_LIMIT)
    <3>1. r' = GivenUp
      BY <1>3, <2>2 DEF TrialFailed
    <3>2. GivenUp.trial_fail_count = FailuresCounted /\ GivenUp.state = "ROLLBACK"
      BY <1>1 DEF GivenUp, Record
    <3> QED
      BY <1>6, <2>2, <3>1, <3>2
  <2> QED
    BY <2>1, <2>2
<1>8. rcc' = "other"
  BY <1>1 DEF TrialInv, Counted
<1> QED
  BY <1>1, <1>2, <1>4, <1>5, <1>7, <1>8
     DEF Counted, OnTrial, TRIAL_FAILURE_LIMIT

(* The count is saved, or it is not: the candidate is tried again, and a   *)
(* candidate that could not be given up is still the one on trial.         *)
LEMMA TrialSaveCounted == TrialInv /\ TrialNext /\ TrialSave => Counted'
<1> SUFFICES ASSUME TrialInv, TrialNext, TrialSave PROVE Counted'
  OBVIOUS
<1>1. /\ pc = "trial_save" /\ pc' \in {"app", "task"} /\ rcc' = rcc /\ mailbox' = mailbox
      /\ rec' \in {rec, r}
  BY DEF TrialSave, SaveOk, SaveFails, Jump, NextLoop
<1>2. causes' = causes
  BY <1>1 DEF TrialNext, CandidateInstalled, CandidateFailed
<1>3. /\ rec # NoRecord /\ rec.state = "TRIAL" /\ r.state \in {"TRIAL", "ROLLBACK"}
      /\ r # NoRecord /\ r \in Record /\ rec \in Record
  BY <1>1, Distinct DEF TrialInv, IInv, BootInv, Saving, RecordSound, TypeOK
<1>4. rcc = "other" /\ ~mailbox
  BY <1>1 DEF TrialInv, Counted
<1>5. /\ rec.trial_fail_count \in 0..TRIAL_FAILURE_LIMIT /\ r.trial_fail_count \in 0..TRIAL_FAILURE_LIMIT
      /\ causes \in 0..TRIAL_FAILURE_LIMIT
  BY <1>3, RecordFields DEF TrialInv, Counted
<1>6. CASE rec' = rec
  BY <1>1, <1>2, <1>3, <1>4, <1>5, <1>6, TrialGoesOn
<1>7. CASE rec' = r /\ r.state = "ROLLBACK"
  BY <1>1, <1>2, <1>4, <1>5, <1>7, OffTrial
<1>8. CASE rec' = r /\ r.state = "TRIAL"
  <2>1. flash = r.image
    BY <1>1, <1>8 DEF TrialInv, IInv, BootInv, Saving, RecordSound
  <2>2. pc' = "app" /\ reset_reason' = "other"
    BY <1>8, <2>1 DEF TrialSave, Jump
  <2>3. r.trial_fail_count < TRIAL_FAILURE_LIMIT /\ r.trial_fail_count <= causes + 1
    BY <1>1, <1>8 DEF TrialInv, Counted
  <2> QED
    BY <1>1, <1>2, <1>4, <1>5, <1>8, <2>2, <2>3
       DEF Counted, OnTrial, Pending, TRIAL_FAILURE_LIMIT
<1> QED
  BY <1>1, <1>3, <1>6, <1>7, <1>8

(* A new candidate is written: its trial starts with nothing counted.      *)
LEMMA ProgramAppCounted == TrialInv /\ TrialNext /\ ProgramApp => Counted'
<1> SUFFICES ASSUME TrialInv, TrialNext, ProgramApp PROVE Counted'
  OBVIOUS
<1>1. /\ pc = "program" /\ pc' = "jump_save" /\ rec' = rec /\ rcc' = rcc
  BY DEF ProgramApp
<1>2. /\ rec = r /\ r \in Record /\ r.state \in {"INSTALLING", "ROLLBACK"} /\ rec # NoRecord
  BY <1>1, Distinct DEF TrialInv, IInv, BootInv, Saving, RecordSound
<1>3. r.state = "ROLLBACK" => r'.state # "TRIAL"
  BY <1>2, InstallerRecords DEF ProgramApp
<1>4. r.state = "INSTALLING" => r'.trial_fail_count = 0 /\ ~mailbox'
  BY <1>2 DEF ProgramApp, OnTrialNow, Record
<1> QED
  BY <1>1, <1>2, <1>3, <1>4, HistoryBounded DEF TrialInv, Counted, OnTrial

(* The candidate's trial is recorded, perhaps by a save that seemed to     *)
(* fail: then the reset reason of the earlier App is still there.          *)
LEMMA JumpSaveCounted == TrialInv /\ TrialNext /\ JumpSave => Counted'
<1> SUFFICES ASSUME TrialInv, TrialNext, JumpSave PROVE Counted'
  OBVIOUS
<1>1. /\ pc = "jump_save" /\ pc' \in {"app", "task"} /\ rcc' = rcc /\ mailbox' = mailbox
      /\ rec' \in {rec, r}
  BY DEF JumpSave, SaveOk, SaveFails, Jump, NextLoop
<1>2. causes' = causes /\ causes \in 0..TRIAL_FAILURE_LIMIT /\ rcc = "other"
  BY <1>1 DEF TrialNext, CandidateInstalled, CandidateFailed, TrialInv, Counted
<1>3. rec # NoRecord /\ rec.state # "TRIAL"
  BY <1>1 DEF TrialInv, Counted, IInv, BootInv, Saving
<1>4. CASE rec'.state # "TRIAL"
  BY <1>1, <1>2, <1>4, OffTrial
<1>5. CASE rec' = r /\ r.state = "TRIAL"
  <2>1. r.trial_fail_count = 0 /\ ~mailbox
    BY <1>1, <1>5 DEF TrialInv, Counted
  <2> QED
    BY <1>1, <1>2, <1>5, <2>1 DEF Counted, OnTrial, TRIAL_FAILURE_LIMIT
<1> QED
  BY <1>1, <1>3, <1>4, <1>5

(* The other steps of the Boot leave what is counted alone.                *)
LEMMA TrialRunsCounted == TrialInv /\ TrialNext /\ (BootInit \/ TrialRuns) => Counted'
<1> SUFFICES ASSUME TrialInv, TrialNext, BootInit \/ TrialRuns PROVE Counted'
  OBVIOUS
<1>1. /\ pc \in {"init", "task"} /\ rec' = rec /\ mailbox' = mailbox /\ rcc' \in {rcc, "other"}
      /\ pc' \in {"task", "app"} /\ reset_reason' \in {rcc, "other"}
      /\ pc' = "app" => ~mailbox
  BY DEF BootInit, TrialRuns, InState, TrialBad, Jump
<1>2. rcc' = "other"
  BY DEF BootInit, TrialRuns, InState, TrialInv, Counted
<1>3. causes' = causes /\ causes' \in 0..TRIAL_FAILURE_LIMIT
  BY <1>1, HistoryBounded DEF TrialNext, CandidateInstalled, CandidateFailed
<1>4. CASE OnTrial
  BY <1>1, <1>2, <1>3, <1>4, TrialGoesOn DEF OnTrial, Pending
<1>5. CASE ~OnTrial
  BY <1>1, <1>2, <1>3, <1>5, OffTrial DEF OnTrial
<1> QED
  BY <1>4, <1>5

LEMMA HandOverCounted ==
    TrialInv /\ TrialNext /\ (BootWithoutRecord \/ BootConfirmed \/ RollbackInstalled) => Counted'
<1> SUFFICES ASSUME TrialInv, TrialNext, BootWithoutRecord \/ BootConfirmed \/ RollbackInstalled
             PROVE  Counted'
  OBVIOUS
<1>1. /\ ~OnTrial /\ rec' = rec /\ pc = "task" /\ pc' = "app" /\ rcc' = rcc
  BY DEF BootWithoutRecord, BootConfirmed, RollbackInstalled, InState, OnTrial, Jump
<1> QED
  BY <1>1, HistoryBounded, OffTrial DEF TrialInv, Counted, OnTrial

LEMMA InstallCounted ==
    TrialInv /\ TrialNext
      /\ (\/ InstallBegin \/ InstallBeginSave \/ RollbackBegin \/ Preflight \/ PreflightFails
          \/ EraseApp \/ EraseAppFails \/ ProgramAppFails \/ PlainSave)
      => Counted'
<1> SUFFICES ASSUME TrialInv, TrialNext,
                    \/ InstallBegin \/ InstallBeginSave \/ RollbackBegin \/ Preflight
                    \/ PreflightFails \/ EraseApp \/ EraseAppFails \/ ProgramAppFails \/ PlainSave
             PROVE  Counted'
  OBVIOUS
<1>1. /\ rec # NoRecord /\ rec.state # "TRIAL" /\ rcc' = rcc
      /\ pc \notin {"init", "app"} /\ pc' \notin {"init", "trial_save"}
  BY DEF InstallBegin, InstallBeginSave, RollbackBegin, Preflight, PreflightFails, EraseApp,
         EraseAppFails, ProgramAppFails, PlainSave, InState, NextLoop, TrialInv, IInv,
         BootInv, Saving
<1>2. rec' # NoRecord /\ rec'.state # "TRIAL"
  <2>1. CASE rec' = rec
    BY <1>1, <2>1
  <2>2. CASE (InstallBeginSave \/ PlainSave) /\ rec' = r
    BY <2>2, Distinct
       DEF InstallBeginSave, PlainSave, TrialInv, IInv, BootInv, Saving, RecordSound
  <2> QED
    BY <2>1, <2>2
       DEF InstallBegin, InstallBeginSave, RollbackBegin, Preflight, PreflightFails, EraseApp,
           EraseAppFails, ProgramAppFails, PlainSave, SaveOk, SaveFails
<1>3. pc' = "jump_save" => r' = StableAgain(r) /\ r \in Record
  BY Distinct
     DEF InstallBegin, InstallBeginSave, RollbackBegin, Preflight, PreflightFails, EraseApp,
         EraseAppFails, ProgramAppFails, PlainSave, NextLoop, TrialInv, IInv, BootInv, Saving,
         RecordSound
<1> QED
  BY <1>1, <1>2, <1>3, HistoryBounded, OffTrial, StableAgainFields DEF TrialInv, Counted

(* The App: only a fault or a hang is a failure, and no commit or          *)
(* confirmation leaves a trial under way.                                  *)
LEMMA AppCounted == TrialInv /\ TrialNext /\ App => Counted'
<1> SUFFICES ASSUME TrialInv, TrialNext, App PROVE Counted'
  OBVIOUS
<1>1. CASE AppFaults \/ AppHangs
  BY <1>1, FailureCounted
<1>2. CASE InstallRestart
  BY <1>2, ResetCounted DEF InstallRestart
<1>3. CASE ~(AppFaults \/ AppHangs \/ InstallRestart)
  <2>1. /\ pc = "app" /\ pc' = "app" /\ rcc' = rcc /\ mailbox' = mailbox
        /\ reset_reason' = reset_reason
    BY <1>3 DEF App, Provisioned, Reprovision, StableCheck, Start, OpenFile, FileVerified,
       DownloadFails, Commit, Confirm, AcknowledgeRollback, ModemReset, InApp, shared, bootvars
  <2>2. causes' = causes /\ causes' \in 0..TRIAL_FAILURE_LIMIT /\ rcc = "other"
    BY <2>1 DEF TrialNext, CandidateInstalled, CandidateFailed, TrialInv, Counted
  <2>3. CASE rec' = rec /\ OnTrial
    BY <2>1, <2>2, <2>3, TrialGoesOn DEF OnTrial, Pending, TrialInv, Counted
  <2>4. CASE rec' = rec /\ ~OnTrial
    BY <2>1, <2>2, <2>4, OffTrial DEF OnTrial
  <2>5. CASE rec' # rec
    <3>1. rec'.state # "TRIAL"
      <4>1. rec \in Record \cup {NoRecord} /\ app \in AppContext
        BY DEF TrialInv, IInv, TypeOK
      <4>2. CASE Commit /\ rec' = CommitRecord
        <5>1. app.seeding \in BOOLEAN
          BY <4>1 DEF AppContext
        <5> QED
          BY <4>1, <4>2, <5>1, CommitRecords
      <4>3. CASE Confirm /\ rec' = ConfirmedRecord
        BY <4>1, <4>3, AppRecords DEF Confirm
      <4>4. CASE AcknowledgeRollback /\ rec' = AcknowledgedRecord
        BY <4>1, <4>4, AppRecords DEF AcknowledgeRollback
      <4> QED
        BY <2>1, <2>5, <4>2, <4>3, <4>4, RecordWriters DEF TrialNext
    <3> QED
      BY <2>1, <2>2, <3>1, OffTrial
  <2> QED
    BY <2>3, <2>4, <2>5
<1> QED
  BY <1>1, <1>2, <1>3

LEMMA NextTrialInv ==
    ReadyGate /\ Misnamed = {} => (TrialInv /\ [TrialNext]_trialvars => TrialInv')
<1> SUFFICES ASSUME ReadyGate, Misnamed = {}, TrialInv, [TrialNext]_trialvars PROVE TrialInv'
  OBVIOUS
<1>1. CASE UNCHANGED trialvars
  BY <1>1, NextIInv DEF trialvars, vars, TrialInv, Counted, OnTrial, Pending
<1>2. CASE TrialNext
  <2>1. IInv'
    BY <1>2, NextIInv DEF TrialInv, TrialNext
  <2>2. ASSUME Boot PROVE Counted'
    BY <1>2, <2>2, TrialFailedCounted, TrialSaveCounted, ProgramAppCounted, JumpSaveCounted,
       TrialRunsCounted, HandOverCounted, InstallCounted DEF Boot
  <2>3. ASSUME App PROVE Counted'
    BY <1>2, <2>3, AppCounted
  <2>4. ASSUME PinReset \/ PowerLoss PROVE Counted'
    BY <1>2, <2>4, ResetCounted DEF PinReset, PowerLoss
  <2> QED
    BY <1>2, <2>1, <2>2, <2>3, <2>4 DEF TrialInv, TrialNext, Next
<1> QED
  BY <1>1, <1>2

(* FailuresAreItsOwn: whatever resets, faults and lost saves happen, a     *)
(* candidate is given up only after it failed at least twice.              *)
THEOREM GivenUpForItsOwnFailures ==
    ASSUME ReadyGate, Misnamed = {}
    PROVE  TrialSpec => FailuresAreItsOwn
<1> DEFINE Owned == Abandoned => causes >= TRIAL_FAILURE_LIMIT - 1
<1>1. TrialInv /\ [TrialNext]_trialvars => Owned
  <2> SUFFICES ASSUME TrialInv, Next, OnTrial, rec' # rec, rec'.state = "ROLLBACK"
               PROVE  causes >= TRIAL_FAILURE_LIMIT - 1
    BY DEF trialvars, vars, Abandoned, TrialNext
  <2>1. rec \in Record /\ app \in AppContext
    BY DEF TrialInv, IInv, TypeOK, OnTrial
  <2>2. pc = "trial_save" /\ rec' = r
    <3>1. CASE pc \in {"trial_save", "begin_save", "jump_save", "plain_save"} /\ rec' = r
      BY <3>1 DEF TrialInv, Counted, IInv, BootInv, OnTrial
    <3>2. CASE Commit
      BY <3>2 DEF Commit, TrialInv, IInv, AppInv, Busy, Settled, Loaded, OnTrial
    <3>3. CASE Confirm /\ rec' = ConfirmedRecord
      BY <2>1, <3>3, AppRecords
    <3>4. CASE AcknowledgeRollback
      BY <3>4 DEF AcknowledgeRollback, OnTrial
    <3> QED
      BY <3>1, <3>2, <3>3, <3>4, RecordWriters
  <2>3. r \in Record /\ r.trial_fail_count \in 0..TRIAL_FAILURE_LIMIT
    BY <2>2, RecordFields DEF TrialInv, IInv, BootInv, Saving, RecordSound
  <2> QED
    BY <2>2, <2>3 DEF TrialInv, Counted, TRIAL_FAILURE_LIMIT
<1>2. TrialInv /\ [TrialNext]_trialvars => [Owned]_trialvars
  BY <1>1
<1> QED
  BY InitCounted, NextTrialInv, <1>2, PTL DEF TrialSpec, FailuresAreItsOwn

-----------------------------------------------------------------------------
(* The download.  An accepted image could be spoilt by a command that the  *)
(* modem still owes from an earlier session: a late DIRECT_STORE writes    *)
(* the file again, a late FILE_LIST vouches for a file that is still being *)
(* written.  What keeps both away is their age: each session writes its    *)
(* own commands before it asks for the file, and the modem answers only so *)
(* many.                                                                   *)
Stage == {"asked", "prompted", "given", "refused", "ok", "error"}
Entry == [cmd : Command, stage : Stage]
Fetch == {"DIRECT_GET", "DIRECT_STORE", "RANGE_GET", "RANGE_READ"}
Link == {"none", "queued", "sent", "prompted", "given"}
Downloader == [state : State, link : Link, backend : {"direct", "range"},
               direct_attempts : Nat, recover_pdp : BOOLEAN, handle_valid : BOOLEAN,
               settings : Nat, downloaded : Nat, read_size : Nat, crc_ok : BOOLEAN,
               listed : {"no", "short", "whole"}, http : Fetch \cup {"none"},
               received : BOOLEAN, written : Nat, failure_pending : BOOLEAN]

DownloadTypeOK ==
    /\ d \in Downloader
    /\ download \in {"idle", "waiting", "failed", "recorded"}
    /\ gate \in BOOLEAN
    /\ wire \in Seq(Entry) /\ Len(wire) <= Backlog
    /\ job \in Fetch \cup {"none"}
    /\ file \in [chunks : Nat, sound : BOOLEAN, there : BOOLEAN]
    /\ pos \in Nat

(* A downloader at rest has no command, a failure is told once it is over, *)
(* and a listing counts only until the next command.                       *)
Resting == {"IDLE", "ERROR", "VERIFY"}
Proper(e) == /\ e.state \in Resting => e.link = "none"
             /\ e.failure_pending => e.state = "ERROR"
             /\ e.state = "SETTING" => e.settings \in 1..Settings
             /\ e.listed = "whole" => e.state = "FILE_LIST" /\ OnWire(e)

(* The place of a command in its session, and the commands the session has *)
(* surely written so far.                                                  *)
Place(e) == CASE e.state \in {"IDLE", "ERROR", "FAILURE_DELETE"} -> 0
              [] e.state = "HTTP_STOP" -> 1
              [] e.state \in {"PDP_DEACT", "PDP_ACT"} -> 2
              [] e.state = "SETTING" -> 1 + e.settings
              [] e.state = "URL" -> 2 + Settings
              [] e.state = "FILE_DELETE" -> 3 + Settings
              [] e.state \in {"DIRECT_GET", "RANGE_OPEN"} -> 4 + Settings
              [] OTHER -> 5 + Settings
Behind(e) == IF OnWire(e) \/ Place(e) = 0 THEN Place(e) ELSE Place(e) - 1

Live(x) == x.stage \notin {"ok", "error"}
Mine(e, w, i) == OnWire(e) /\ i = Len(w) /\ e.state = w[i].cmd

(* Of a store not yet carried out, and of a listing, there is only the     *)
(* downloader's own, or one at least as old as the session.                *)
Aged(e, w) ==
    \A i \in 1..Len(w) :
        w[i].cmd = "FILE_LIST" \/ (w[i].cmd = "DIRECT_STORE" /\ Live(w[i])) =>
            Mine(e, w, i) \/ Len(w) - i >= Behind(e)

Reading == {"VERIFY_OPEN", "VERIFY_READ", "VERIFY_CLOSE", "VERIFY"}
Late == {"RANGE_READ", "RANGE_WRITE", "RANGE_CLOSE", "FILE_LIST"} \cup Reading

NoStore(w) == \A i \in 1..Len(w) : w[i].cmd = "DIRECT_STORE" => ~Live(w[i])

(* The modem stores only what the downloader has asked it to store.        *)
Storing(e, w, j) ==
    /\ e.state \in Late => j # "DIRECT_STORE"
    /\ e.state = "DIRECT_STORE" /\ j = "DIRECT_STORE" => OnWire(e) /\ NoStore(w)

(* From the listing on, the modem has nothing but the downloader's own     *)
(* command, the file stands still, and what was read of it tells of it.    *)
Vouched(e, w, c) ==
    e.listed = "whole" =>
        /\ c.there /\ c.chunks = Chunks
        /\ w = <<>> \/ (Len(w) = 1 /\ w[1].cmd = "FILE_LIST" /\ w[1].stage = "ok")
ReadAlone(e, w, c) ==
    e.state \in Reading =>
        /\ c.there /\ c.chunks = Chunks
        /\ w = <<>> \/ (OnWire(e) /\ Len(w) = 1 /\ w[1].cmd = e.state)
        /\ e.state # "VERIFY_OPEN" /\ e.read_size > 0 /\ e.crc_ok => c.sound

Held(e, w, j, c) == Aged(e, w) /\ Storing(e, w, j) /\ Vouched(e, w, c) /\ ReadAlone(e, w, c)

(* A download that is over leaves a downloader at rest, and one that was   *)
(* recorded a modem without work.                                          *)
Over == /\ download # "waiting" => ~busy
        /\ download = "recorded" => d.state = "IDLE" /\ wire = <<>> /\ job # "DIRECT_STORE"

DownloadInv == DownloadTypeOK /\ Proper(d) /\ Held(d, wire, job, file) /\ Over

-----------------------------------------------------------------------------
(* The downloader's record, one field at a time.                           *)
Like(f, e) == /\ f.state = e.state /\ f.link = e.link /\ f.settings = e.settings
              /\ f.listed = e.listed /\ f.read_size = e.read_size /\ f.crc_ok = e.crc_ok
              /\ f.failure_pending = e.failure_pending

LEMMA PutBackend ==
    ASSUME NEW e \in Downloader, NEW v \in {"direct", "range"}
    PROVE  LET g == [e EXCEPT !.backend = v] IN g \in Downloader /\ Like(g, e)
  BY DEF Downloader, Like

LEMMA PutAttempts ==
    ASSUME NEW e \in Downloader, NEW v \in Nat
    PROVE  LET g == [e EXCEPT !.direct_attempts = v] IN g \in Downloader /\ Like(g, e)
  BY DEF Downloader, Like

LEMMA PutRecover ==
    ASSUME NEW e \in Downloader, NEW v \in BOOLEAN
    PROVE  LET g == [e EXCEPT !.recover_pdp = v] IN g \in Downloader /\ Like(g, e)
  BY DEF Downloader, Like

LEMMA PutHandle ==
    ASSUME NEW e \in Downloader, NEW v \in BOOLEAN
    PROVE  LET g == [e EXCEPT !.handle_valid = v] IN g \in Downloader /\ Like(g, e)
  BY DEF Downloader, Like

LEMMA PutDownloaded ==
    ASSUME NEW e \in Downloader, NEW v \in Nat
    PROVE  LET g == [e EXCEPT !.downloaded = v] IN g \in Downloader /\ Like(g, e)
  BY DEF Downloader, Like

LEMMA PutHttp ==
    ASSUME NEW e \in Downloader, NEW v \in Fetch \cup {"none"}
    PROVE  LET g == [e EXCEPT !.http = v] IN g \in Downloader /\ Like(g, e)
  BY DEF Downloader, Like

LEMMA PutReceived ==
    ASSUME NEW e \in Downloader, NEW v \in BOOLEAN
    PROVE  LET g == [e EXCEPT !.received = v] IN g \in Downloader /\ Like(g, e)
  BY DEF Downloader, Like

LEMMA PutWritten ==
    ASSUME NEW e \in Downloader, NEW v \in Nat
    PROVE  LET g == [e EXCEPT !.written = v] IN g \in Downloader /\ Like(g, e)
  BY DEF Downloader, Like

LEMMA PutState ==
    ASSUME NEW e \in Downloader, NEW v \in State
    PROVE  LET g == [e EXCEPT !.state = v] IN
           /\ g \in Downloader /\ g.state = v /\ g.link = e.link /\ g.settings = e.settings /\ g.listed = e.listed
           /\ g.read_size = e.read_size /\ g.crc_ok = e.crc_ok /\ g.failure_pending = e.failure_pending
  BY DEF Downloader

LEMMA PutLink ==
    ASSUME NEW e \in Downloader, NEW v \in Link
    PROVE  LET g == [e EXCEPT !.link = v] IN
           /\ g \in Downloader /\ g.link = v /\ g.state = e.state /\ g.settings = e.settings /\ g.listed = e.listed
           /\ g.read_size = e.read_size /\ g.crc_ok = e.crc_ok /\ g.failure_pending = e.failure_pending
  BY DEF Downloader

LEMMA PutSettings ==
    ASSUME NEW e \in Downloader, NEW v \in Nat
    PROVE  LET g == [e EXCEPT !.settings = v] IN
           /\ g \in Downloader /\ g.settings = v /\ g.state = e.state /\ g.link = e.link /\ g.listed = e.listed
           /\ g.read_size = e.read_size /\ g.crc_ok = e.crc_ok /\ g.failure_pending = e.failure_pending
  BY DEF Downloader

LEMMA PutListed ==
    ASSUME NEW e \in Downloader, NEW v \in {"no", "short", "whole"}
    PROVE  LET g == [e EXCEPT !.listed = v] IN
           /\ g \in Downloader /\ g.listed = v /\ g.state = e.state /\ g.link = e.link /\ g.settings = e.settings
           /\ g.read_size = e.read_size /\ g.crc_ok = e.crc_ok /\ g.failure_pending = e.failure_pending
  BY DEF Downloader

LEMMA PutRead ==
    ASSUME NEW e \in Downloader, NEW v \in Nat
    PROVE  LET g == [e EXCEPT !.read_size = v] IN
           /\ g \in Downloader /\ g.read_size = v /\ g.state = e.state /\ g.link = e.link /\ g.settings = e.settings
           /\ g.listed = e.listed /\ g.crc_ok = e.crc_ok /\ g.failure_pending = e.failure_pending
  BY DEF Downloader

LEMMA PutCrc ==
    ASSUME NEW e \in Downloader, NEW v \in BOOLEAN
    PROVE  LET g == [e EXCEPT !.crc_ok = v] IN
           /\ g \in Downloader /\ g.crc_ok = v /\ g.state = e.state /\ g.link = e.link /\ g.settings = e.settings
           /\ g.listed = e.listed /\ g.read_size = e.read_size /\ g.failure_pending = e.failure_pending
  BY DEF Downloader

LEMMA PutPending ==
    ASSUME NEW e \in Downloader, NEW v \in BOOLEAN
    PROVE  LET g == [e EXCEPT !.failure_pending = v] IN
           /\ g \in Downloader /\ g.failure_pending = v /\ g.state = e.state /\ g.link = e.link /\ g.settings = e.settings
           /\ g.listed = e.listed /\ g.read_size = e.read_size /\ g.crc_ok = e.crc_ok
  BY DEF Downloader

LEMMA IdleLike ==
    ASSUME NEW e \in Downloader
    PROVE  LET g == Idle(e) IN
           /\ g \in Downloader /\ g.link = "none" /\ g.state = e.state /\ g.settings = e.settings
           /\ g.listed = e.listed /\ g.read_size = e.read_size /\ g.crc_ok = e.crc_ok
           /\ g.failure_pending = e.failure_pending
  BY PutLink DEF Idle, Link

LEMMA ClearedLike ==
    ASSUME NEW e \in Downloader
    PROVE  LET g == Cleared(e) IN
           /\ g \in Downloader /\ g.state = e.state /\ g.link = e.link /\ g.listed = "no"
           /\ g.failure_pending = e.failure_pending
  <1> DEFINE yes == TRUE
             no == FALSE
             e1 == [e EXCEPT !.settings = 0]
             e2 == [e1 EXCEPT !.downloaded = 0]
             e3 == [e2 EXCEPT !.read_size = 0]
             e4 == [e3 EXCEPT !.crc_ok = yes]
             e5 == [e4 EXCEPT !.handle_valid = no]
             e6 == [e5 EXCEPT !.listed = "no"]
             e7 == [e6 EXCEPT !.http = "none"]
             e8 == [e7 EXCEPT !.received = no]
  <1>1. Cleared(e) = e8
    BY DEF Cleared
  <1>2. yes \in BOOLEAN /\ no \in BOOLEAN
    OBVIOUS
  <1> HIDE DEF yes, no
  <1>3. /\ e1 \in Downloader /\ e1.state = e.state /\ e1.link = e.link
        /\ e1.failure_pending = e.failure_pending
    BY PutSettings
  <1> HIDE DEF e1
  <1>4. e2 \in Downloader /\ Like(e2, e1)
    BY <1>3, PutDownloaded
  <1> HIDE DEF e2
  <1>5. /\ e3 \in Downloader /\ e3.state = e2.state /\ e3.link = e2.link
        /\ e3.failure_pending = e2.failure_pending
    BY <1>4, PutRead
  <1> HIDE DEF e3
  <1>6. /\ e4 \in Downloader /\ e4.state = e3.state /\ e4.link = e3.link
        /\ e4.failure_pending = e3.failure_pending
    BY <1>2, <1>5, PutCrc
  <1> HIDE DEF e4
  <1>7. e5 \in Downloader /\ Like(e5, e4)
    BY <1>2, <1>6, PutHandle
  <1> HIDE DEF e5
  <1>8. /\ e6 \in Downloader /\ e6.state = e5.state /\ e6.link = e5.link /\ e6.listed = "no"
        /\ e6.failure_pending = e5.failure_pending
    BY <1>7, PutListed
  <1> HIDE DEF e6
  <1>9. e7 \in Downloader /\ Like(e7, e6)
    BY <1>8, PutHttp
  <1> HIDE DEF e7
  <1>10. e8 \in Downloader /\ Like(e8, e7)
    BY <1>2, <1>9, PutReceived
  <1> HIDE DEF e8
  <1>11. QED  BY <1>1, <1>3, <1>4, <1>5, <1>6, <1>7, <1>8, <1>9, <1>10 DEF Like

(* A session that is over, or one that has just begun.                     *)
Ended(f) == /\ \/ f.state = "ERROR" /\ f.link = "none"
               \/ f.state \in {"FAILURE_DELETE", "HTTP_STOP"} /\ f.link = "queued" /\ ~f.failure_pending
            /\ f.listed = "no"

(* The same downloader, with the command s waiting to be written.          *)
Asks(f, e, s) == /\ f.state = s /\ f.link = "queued" /\ f.settings = e.settings
                 /\ f.listed = e.listed /\ f.read_size = e.read_size /\ f.crc_ok = e.crc_ok
                 /\ f.failure_pending = e.failure_pending

LEMMA SubmittedAsks ==
    ASSUME NEW e \in Downloader, NEW s \in Command, NEW f \in Submitted(e, s)
    PROVE  f \in Downloader /\ Asks(f, e, s)
  <1> DEFINE g == [e EXCEPT !.state = s]
  <1>1. f = [g EXCEPT !.link = "queued"]
    BY DEF Submitted
  <1>2. /\ g \in Downloader /\ g.state = s /\ g.settings = e.settings /\ g.listed = e.listed
        /\ g.read_size = e.read_size /\ g.crc_ok = e.crc_ok /\ g.failure_pending = e.failure_pending
    BY PutState DEF State
  <1> HIDE DEF g
  <1>3. QED  BY <1>1, <1>2, PutLink DEF Asks, Link

LEMMA FinalizedEnded ==
    ASSUME NEW e \in Downloader
    PROVE  Finalized(e) \in Downloader /\ Ended(Finalized(e)) /\ Finalized(e).state = "ERROR"
           /\ Finalized(e).failure_pending
  <1> DEFINE yes == TRUE
             g == Cleared(Idle(e))
             g1 == [g EXCEPT !.state = "ERROR"]
             g2 == [g1 EXCEPT !.failure_pending = yes]
  <1>1. Finalized(e) = g2
    BY DEF Finalized
  <1>2. g \in Downloader /\ g.link = "none" /\ g.listed = "no"
    BY IdleLike, ClearedLike
  <1>3. yes \in BOOLEAN /\ yes
    OBVIOUS
  <1> HIDE DEF yes, g
  <1>4. g1 \in Downloader /\ g1.state = "ERROR" /\ g1.link = "none" /\ g1.listed = "no"
    BY <1>2, PutState DEF State
  <1> HIDE DEF g1
  <1>5. /\ g2 \in Downloader /\ g2.state = "ERROR" /\ g2.link = "none" /\ g2.listed = "no"
        /\ g2.failure_pending = yes
    BY <1>3, <1>4, PutPending
  <1> HIDE DEF g2
  <1>6. QED  BY <1>1, <1>3, <1>5 DEF Ended

LEMMA FinishEnded ==
    ASSUME NEW e \in Downloader, ~e.failure_pending, NEW f \in FinishFailure(e)
    PROVE  f \in Downloader /\ Ended(f)
  <1>1. CASE f \in Submitted(Cleared(e), "FAILURE_DELETE")
    <2>1. "FAILURE_DELETE" \in Command
      BY DEF Command
    <2>2. Cleared(e) \in Downloader /\ Cleared(e).listed = "no" /\ ~Cleared(e).failure_pending
      BY ClearedLike
    <2>3. QED  BY <1>1, <2>1, <2>2, SubmittedAsks DEF Asks, Ended
  <1>2. CASE f = Finalized(e)
    BY <1>2, FinalizedEnded
  <1>3. QED  BY <1>1, <1>2 DEF FinishFailure

LEMMA IssueAsks ==
    ASSUME NEW e \in Downloader, ~e.failure_pending, NEW s \in Command, NEW f \in Issue(e, s)
    PROVE  f \in Downloader /\ (Ended(f) \/ Asks(f, e, s))
  BY SubmittedAsks, FinishEnded DEF Issue

LEMMA RestartEnded ==
    ASSUME NEW e \in Downloader, ~e.failure_pending, NEW f \in RestartSession(e)
    PROVE  f \in Downloader /\ Ended(f)
  <1>1. "HTTP_STOP" \in Command
    BY DEF Command
  <1>2. Cleared(e) \in Downloader /\ Cleared(e).listed = "no" /\ ~Cleared(e).failure_pending
    BY ClearedLike
  <1>3. f \in Issue(Cleared(e), "HTTP_STOP")
    BY DEF RestartSession
  <1>4. f \in Downloader /\ (Ended(f) \/ Asks(f, Cleared(e), "HTTP_STOP"))
    BY <1>1, <1>2, <1>3, IssueAsks
  <1>5. QED  BY <1>2, <1>4 DEF Asks, Ended

LEMMA FallbackEnded ==
    ASSUME NEW e \in Downloader, ~e.failure_pending, NEW reason,
           NEW f \in FallbackOrFail(e, reason)
    PROVE  f \in Downloader /\ Ended(f)
  <1> DEFINE yes == TRUE
             e1 == [e EXCEPT !.direct_attempts = @ + 1]
             e2 == [e1 EXCEPT !.recover_pdp = yes]
             b == e.recover_pdp \/ reason = "direct_error"
             e3 == [e EXCEPT !.backend = "range"]
             e4 == [e3 EXCEPT !.recover_pdp = b]
  <1>1. \/ f \in FinishFailure(e)
        \/ f \in RestartSession([e EXCEPT !.direct_attempts = @ + 1, !.recover_pdp = TRUE])
        \/ f \in RestartSession([e EXCEPT !.backend = "range",
                                          !.recover_pdp = @ \/ reason = "direct_error"])
    BY DEF FallbackOrFail
  <1>2. [e EXCEPT !.direct_attempts = @ + 1, !.recover_pdp = TRUE] = e2
    OBVIOUS
  <1>3. [e EXCEPT !.backend = "range", !.recover_pdp = @ \/ reason = "direct_error"] = e4
    OBVIOUS
  <1>4. yes \in BOOLEAN /\ b \in BOOLEAN
    OBVIOUS
  <1> HIDE DEF yes, b
  <1>5. e1 \in Downloader /\ Like(e1, e)
    <2> DEFINE n == e.direct_attempts + 1
    <2>1. n \in Nat /\ e1 = [e EXCEPT !.direct_attempts = n]
      BY DEF Downloader
    <2> HIDE DEF n, e1
    <2>2. QED  BY <2>1, PutAttempts
  <1> HIDE DEF e1
  <1>6. e2 \in Downloader /\ Like(e2, e1)
    BY <1>4, <1>5, PutRecover
  <1>7. e3 \in Downloader /\ Like(e3, e)
    BY PutBackend
  <1> HIDE DEF e3
  <1>8. e4 \in Downloader /\ Like(e4, e3)
    BY <1>4, <1>7, PutRecover
  <1> HIDE DEF e2, e4
  <1>9. ~e2.failure_pending /\ ~e4.failure_pending
    BY <1>5, <1>6, <1>7, <1>8 DEF Like
  <1>10. QED  BY <1>1, <1>2, <1>3, <1>6, <1>8, <1>9, FinishEnded, RestartEnded

LEMMA DirectAsks ==
    ASSUME NEW e \in Downloader, ~e.failure_pending, NEW s \in Command, NEW f \in IssueDirect(e, s)
    PROVE  f \in Downloader /\ (Ended(f) \/ Asks(f, e, s))
  BY SubmittedAsks, FallbackEnded DEF IssueDirect

-----------------------------------------------------------------------------
(* What follows a command that has succeeded.                              *)
Follow(s) ==
    CASE s = "HTTP_STOP" -> {"PDP_DEACT", "SETTING"}
      [] s = "PDP_DEACT" -> {"PDP_ACT"}
      [] s = "PDP_ACT" -> {"SETTING"}
      [] s = "SETTING" -> {"SETTING", "URL"}
      [] s = "URL" -> {"FILE_DELETE"}
      [] s = "FILE_DELETE" -> {"DIRECT_GET", "RANGE_OPEN"}
      [] s = "DIRECT_GET" -> {"DIRECT_STORE"}
      [] s \in {"DIRECT_STORE", "RANGE_CLOSE"} -> {"FILE_LIST"}
      [] s = "RANGE_OPEN" -> {"RANGE_GET"}
      [] s = "RANGE_GET" -> {"RANGE_READ"}
      [] s = "RANGE_READ" -> {"RANGE_WRITE"}
      [] s = "RANGE_WRITE" -> {"RANGE_GET", "RANGE_CLOSE"}
      [] s = "FILE_LIST" -> {"VERIFY_OPEN"}
      [] s = "VERIFY_OPEN" -> {"VERIFY_READ"}
      [] s = "VERIFY_READ" -> {"VERIFY_READ", "VERIFY_CLOSE"}
      [] s = "VERIFY_CLOSE" -> {"VERIFY"}

Onward(e, f) ==
    /\ e.state \in Command \ {"FAILURE_DELETE"} /\ f.state \in Follow(e.state)
    /\ f.link \in {"none", "queued"} /\ (f.state = "VERIFY" => f.link = "none")
    /\ ~f.failure_pending /\ f.listed # "whole"
    /\ f.state = "SETTING" =>
          f.settings \in 1..Settings /\ f.settings = IF e.state = "SETTING" THEN e.settings + 1 ELSE 1
    /\ f.state = "URL" => e.settings >= Settings
    /\ e.state = "FILE_LIST" => e.listed = "whole"
    /\ e.state = "VERIFY_OPEN" => f.read_size = 0
    /\ e.state \in {"VERIFY_READ", "VERIFY_CLOSE"} => f.read_size = e.read_size /\ f.crc_ok = e.crc_ok

LEMMA SucceededOnward ==
    ASSUME NEW e \in Downloader, e.link = "none", ~e.failure_pending,
           e.state = "SETTING" => e.settings \in 1..Settings,
           e.listed = "whole" => e.state = "FILE_LIST",
           e.state \in Command \ {"FAILURE_DELETE"},
           NEW f \in Succeeded(e)
    PROVE  f \in Downloader /\ (Ended(f) \/ Onward(e, f))
  <1> DEFINE no == FALSE
             yes == TRUE
             Good(x) == x \in Downloader /\ (Ended(x) \/ Onward(e, x))
  <1>1. no \in BOOLEAN /\ yes \in BOOLEAN /\ ~no
    OBVIOUS
  <1> USE DownloadAssumption
  <1>2. ASSUME NEW g \in Downloader, Like(g, e), NEW s \in Command, s \in Follow(e.state),
               s \notin {"SETTING", "URL", "VERIFY_OPEN", "VERIFY_READ", "VERIFY"},
               e.state \notin {"FILE_LIST", "VERIFY_OPEN"},
               NEW x \in Issue(g, s) \cup IssueDirect(g, s)
        PROVE  Good(x)
    <2>1. x \in Downloader /\ (Ended(x) \/ Asks(x, g, s))
      BY <1>2, IssueAsks, DirectAsks DEF Like
    <2>2. QED  BY <1>2, <2>1 DEF Like, Asks, Onward
  <1>3. ASSUME NEW x \in FinishFailure(e) PROVE Good(x)
    BY <1>3, FinishEnded
  <1>4. ASSUME NEW reason, NEW x \in FallbackOrFail(e, reason) PROVE Good(x)
    BY <1>4, FallbackEnded
  <1>5. ASSUME NEW n \in 1..Settings, n = IF e.state = "SETTING" THEN e.settings + 1 ELSE 1,
               e.state \in {"HTTP_STOP", "PDP_ACT", "SETTING"},
               NEW x \in Issue([e EXCEPT !.settings = n], "SETTING")
        PROVE  Good(x)
    <2> DEFINE g == [e EXCEPT !.settings = n]
    <2>1. /\ g \in Downloader /\ g.settings = n /\ g.listed = e.listed
          /\ g.failure_pending = e.failure_pending
      BY PutSettings
    <2> HIDE DEF g
    <2>2. x \in Downloader /\ (Ended(x) \/ Asks(x, g, "SETTING"))
      BY <1>5, <2>1, IssueAsks DEF g, Command
    <2>3. QED  BY <1>5, <2>1, <2>2 DEF Asks, Onward, Follow
  <1>6. ASSUME NEW x \in Issue(e, "URL"), e.state = "SETTING", ~(e.settings < Settings)
        PROVE  Good(x)
    <2>1. x \in Downloader /\ (Ended(x) \/ Asks(x, e, "URL"))
      BY <1>6, IssueAsks DEF Command
    <2>2. QED  BY <1>6, <2>1 DEF Asks, Onward, Follow, Downloader
  <1>7. CASE e.state = "HTTP_STOP"
    <2>1. CASE e.recover_pdp
      <3> DEFINE g == [e EXCEPT !.recover_pdp = no]
      <3>1. f \in Issue(g, "PDP_DEACT")
        BY <1>7, <2>1 DEF Succeeded
      <3>2. g \in Downloader /\ Like(g, e)
        BY <1>1, PutRecover
      <3> HIDE DEF g
      <3>3. QED  BY <1>2, <1>7, <3>1, <3>2 DEF Follow, Command
    <2>2. CASE ~e.recover_pdp
      <3>1. f \in Issue([e EXCEPT !.settings = 1], "SETTING")
        BY <1>7, <2>2 DEF Succeeded
      <3>2. QED  BY <1>5, <1>7, <3>1
    <2>3. QED  BY <2>1, <2>2
  <1>8. CASE e.state = "PDP_DEACT"
    <2>1. f \in Issue(e, "PDP_ACT")
      BY <1>8 DEF Succeeded
    <2>2. QED  BY <1>2, <1>8, <2>1 DEF Follow, Command, Like
  <1>9. CASE e.state = "PDP_ACT"
    <2>1. f \in Issue([e EXCEPT !.settings = 1], "SETTING")
      BY <1>9 DEF Succeeded
    <2>2. QED  BY <1>5, <1>9, <2>1
  <1>10. CASE e.state = "SETTING"
    <2>1. CASE e.settings < Settings
      <3> DEFINE n == e.settings + 1
      <3>1. n \in 1..Settings
        BY <1>10, <2>1
      <3>2. f \in Issue([e EXCEPT !.settings = n], "SETTING")
        BY <1>10, <2>1 DEF Succeeded
      <3>3. QED  BY <1>5, <1>10, <3>1, <3>2
    <2>2. CASE ~(e.settings < Settings)
      <3>1. f \in Issue(e, "URL")
        BY <1>10, <2>2 DEF Succeeded
      <3>2. QED  BY <1>6, <1>10, <2>2, <3>1
    <2>3. QED  BY <2>1, <2>2
  <1>11. CASE e.state = "URL"
    <2>1. f \in Issue(e, "FILE_DELETE")
      BY <1>11 DEF Succeeded
    <2>2. QED  BY <1>2, <1>11, <2>1 DEF Follow, Command, Like
  <1>12. CASE e.state = "FILE_DELETE"
    <2>1. CASE e.backend = "direct"
      <3> DEFINE g == [e EXCEPT !.http = "none"]
      <3>1. f \in IssueDirect(g, "DIRECT_GET")
        BY <1>12, <2>1 DEF Succeeded
      <3>2. g \in Downloader /\ Like(g, e)
        BY PutHttp
      <3> HIDE DEF g
      <3>3. QED  BY <1>2, <1>12, <3>1, <3>2 DEF Follow, Command
    <2>2. CASE e.backend # "direct"
      <3>1. f \in Issue(e, "RANGE_OPEN")
        BY <1>12, <2>2 DEF Succeeded
      <3>2. QED  BY <1>2, <1>12, <3>1 DEF Follow, Command, Like
    <2>3. QED  BY <2>1, <2>2
  <1>13. CASE e.state = "DIRECT_GET"
    <2>1. CASE e.http = "DIRECT_GET"
      <3> DEFINE g == [e EXCEPT !.http = "none"]
      <3>1. f \in IssueDirect(g, "DIRECT_STORE")
        BY <1>13, <2>1 DEF Succeeded
      <3>2. g \in Downloader /\ Like(g, e)
        BY PutHttp
      <3> HIDE DEF g
      <3>3. QED  BY <1>2, <1>13, <3>1, <3>2 DEF Follow, Command
    <2>2. CASE e.http # "DIRECT_GET"
      <3>1. f \in FallbackOrFail(e, "direct_error")
        BY <1>13, <2>2 DEF Succeeded
      <3>2. QED  BY <1>4, <3>1
    <2>3. QED  BY <2>1, <2>2
  <1>14. CASE e.state = "DIRECT_STORE"
    <2> DEFINE g == [e EXCEPT !.downloaded = 0]
    <2>1. f \in Issue(g, "FILE_LIST")
      BY <1>14 DEF Succeeded, BeginVerify
    <2>2. g \in Downloader /\ Like(g, e)
      BY PutDownloaded
    <2> HIDE DEF g
    <2>3. QED  BY <1>2, <1>14, <2>1, <2>2 DEF Follow, Command
  <1>15. CASE e.state = "RANGE_OPEN"
    <2> DEFINE g == [e EXCEPT !.state = "RANGE_GET"]
    <2>1. f = g \/ f \in FinishFailure(e)
      BY <1>15 DEF Succeeded
    <2>2. g \in Downloader /\ g.state = "RANGE_GET" /\ g.link = e.link /\ g.listed = e.listed
          /\ g.failure_pending = e.failure_pending
      BY PutState DEF State, Command
    <2> HIDE DEF g
    <2>3. Good(g)
      BY <1>15, <2>2 DEF Onward, Follow
    <2>4. QED  BY <1>3, <2>1, <2>3
  <1>16. CASE e.state = "RANGE_GET"
    <2>1. CASE e.http = "RANGE_GET"
      <3> DEFINE g == [e EXCEPT !.http = "none"]
      <3>1. f \in Issue(g, "RANGE_READ")
        BY <1>16, <2>1 DEF Succeeded
      <3>2. g \in Downloader /\ Like(g, e)
        BY PutHttp
      <3> HIDE DEF g
      <3>3. QED  BY <1>2, <1>16, <3>1, <3>2 DEF Follow, Command
    <2>2. CASE e.http # "RANGE_GET"
      <3>1. f \in FinishFailure(e)
        BY <1>16, <2>2 DEF Succeeded
      <3>2. QED  BY <1>3, <3>1
    <2>3. QED  BY <2>1, <2>2
  <1>17. CASE e.state = "RANGE_READ"
    <2>1. CASE e.received
      <3> DEFINE g == [e EXCEPT !.received = no]
      <3>1. f \in Issue(g, "RANGE_WRITE")
        BY <1>17, <2>1 DEF Succeeded
      <3>2. g \in Downloader /\ Like(g, e)
        BY <1>1, PutReceived
      <3> HIDE DEF g
      <3>3. QED  BY <1>2, <1>17, <3>1, <3>2 DEF Follow, Command
    <2>2. CASE ~e.received
      <3>1. f \in FinishFailure(e)
        BY <1>17, <2>2 DEF Succeeded
      <3>2. QED  BY <1>3, <3>1
    <2>3. QED  BY <2>1, <2>2
  <1>18. CASE e.state = "RANGE_WRITE"
    <2>1. CASE e.written # e.downloaded + 1
      <3>1. f \in FinishFailure(e)
        BY <1>18, <2>1 DEF Succeeded
      <3>2. QED  BY <1>3, <3>1
    <2>2. CASE e.written = e.downloaded + 1 /\ e.written = Chunks
      <3> DEFINE g == [e EXCEPT !.downloaded = Chunks]
      <3>1. f \in Issue(g, "RANGE_CLOSE")
        BY <1>18, <2>2 DEF Succeeded
      <3>2. g \in Downloader /\ Like(g, e)
        BY PutDownloaded
      <3> HIDE DEF g
      <3>3. QED  BY <1>2, <1>18, <3>1, <3>2 DEF Follow, Command
    <2>3. CASE e.written = e.downloaded + 1 /\ e.written # Chunks
      <3> DEFINE n == e.downloaded + 1
                 g1 == [e EXCEPT !.downloaded = n]
                 g2 == [g1 EXCEPT !.state = "RANGE_GET"]
      <3>1. f = g2
        BY <1>18, <2>3 DEF Succeeded
      <3>2. n \in Nat
        BY DEF Downloader
      <3> HIDE DEF n
      <3>3. g1 \in Downloader /\ Like(g1, e)
        BY <3>2, PutDownloaded
      <3> HIDE DEF g1
      <3>4. "RANGE_GET" \in State
        BY DEF State, Command
      <3>5. /\ g2 \in Downloader /\ g2.state = "RANGE_GET" /\ g2.link = g1.link
            /\ g2.listed = g1.listed /\ g2.failure_pending = g1.failure_pending
        BY <3>3, <3>4, PutState
      <3> HIDE DEF g2
      <3>6. QED  BY <1>18, <3>1, <3>3, <3>5 DEF Onward, Follow, Like
    <2>4. QED  BY <2>1, <2>2, <2>3
  <1>19. CASE e.state = "RANGE_CLOSE"
    <2> DEFINE g1 == [e EXCEPT !.handle_valid = no]
               g == [g1 EXCEPT !.downloaded = 0]
    <2>1. f \in Issue(g, "FILE_LIST")
      BY <1>19 DEF Succeeded, BeginVerify
    <2>2. g1 \in Downloader /\ Like(g1, e)
      BY <1>1, PutHandle
    <2> HIDE DEF g1
    <2>3. g \in Downloader /\ Like(g, g1)
      BY <2>2, PutDownloaded
    <2> HIDE DEF g
    <2>4. QED  BY <1>2, <1>19, <2>1, <2>2, <2>3 DEF Follow, Command, Like
  <1>20. CASE e.state = "FILE_LIST"
    <2>1. CASE e.listed = "whole"
      <3> DEFINE g == [e EXCEPT !.listed = "no"]
      <3>1. f \in Issue(g, "VERIFY_OPEN")
        BY <1>20, <2>1 DEF Succeeded
      <3>2. g \in Downloader /\ g.listed = "no" /\ g.failure_pending = e.failure_pending
        BY PutListed
      <3> HIDE DEF g
      <3>3. f \in Downloader /\ (Ended(f) \/ Asks(f, g, "VERIFY_OPEN"))
        BY <3>1, <3>2, IssueAsks DEF Command
      <3>4. QED  BY <1>20, <2>1, <3>2, <3>3 DEF Asks, Onward, Follow
    <2>2. CASE e.listed # "whole"
      <3>1. f \in FallbackOrFail(e, "integrity")
        BY <1>20, <2>2 DEF Succeeded
      <3>2. QED  BY <1>4, <3>1
    <2>3. QED  BY <2>1, <2>2
  <1>21. CASE e.state = "VERIFY_OPEN"
    <2> DEFINE g1 == [e EXCEPT !.read_size = 0]
               g2 == [g1 EXCEPT !.crc_ok = yes]
               g3 == [g2 EXCEPT !.state = "VERIFY_READ"]
    <2>1. f = g3 \/ f \in FinishFailure(e)
      BY <1>21 DEF Succeeded
    <2>2. g1 \in Downloader /\ g1.read_size = 0 /\ g1.link = e.link /\ g1.listed = e.listed
          /\ g1.failure_pending = e.failure_pending
      BY PutRead
    <2> HIDE DEF g1
    <2>3. g2 \in Downloader /\ g2.read_size = 0 /\ g2.link = g1.link /\ g2.listed = g1.listed
          /\ g2.failure_pending = g1.failure_pending
      BY <1>1, <2>2, PutCrc
    <2> HIDE DEF g2
    <2>4. g3 \in Downloader /\ g3.state = "VERIFY_READ" /\ g3.read_size = 0 /\ g3.link = g2.link
          /\ g3.listed = g2.listed /\ g3.failure_pending = g2.failure_pending
      BY <2>3, PutState DEF State, Command
    <2> HIDE DEF g3
    <2>5. Good(g3)
      BY <1>21, <2>2, <2>3, <2>4 DEF Onward, Follow
    <2>6. QED  BY <1>3, <2>1, <2>5
  <1>22. CASE e.state = "VERIFY_READ"
    <2>1. f \in Issue(e, "VERIFY_CLOSE") \/ f = e
      BY <1>22 DEF Succeeded
    <2>2. Good(e)
      BY <1>22 DEF Onward, Follow
    <2>3. CASE f \in Issue(e, "VERIFY_CLOSE")
      BY <1>2, <1>22, <2>3 DEF Follow, Command, Like
    <2>4. QED  BY <2>1, <2>2, <2>3
  <1>23. CASE e.state = "VERIFY_CLOSE"
    <2> DEFINE g1 == [e EXCEPT !.handle_valid = no]
               g2 == [g1 EXCEPT !.state = "VERIFY"]
    <2>1. f = g2
      BY <1>23 DEF Succeeded
    <2>2. g1 \in Downloader /\ Like(g1, e)
      BY <1>1, PutHandle
    <2> HIDE DEF g1
    <2>3. /\ g2 \in Downloader /\ g2.state = "VERIFY" /\ g2.link = g1.link
          /\ g2.listed = g1.listed /\ g2.failure_pending = g1.failure_pending
          /\ g2.read_size = g1.read_size /\ g2.crc_ok = g1.crc_ok
      BY <2>2, PutState DEF State
    <2> HIDE DEF g2
    <2>4. g2.link = "none" /\ g2.listed # "whole" /\ ~g2.failure_pending
      BY <1>23, <2>2, <2>3 DEF Like
    <2>5. g2.read_size = e.read_size /\ g2.crc_ok = e.crc_ok
      BY <2>2, <2>3 DEF Like
    <2>6. Onward(e, g2)
      BY <1>23, <2>3, <2>4, <2>5 DEF Onward, Follow
    <2>7. QED  BY <2>1, <2>3, <2>6
  <1>24. QED
    BY <1>7, <1>8, <1>9, <1>10, <1>11, <1>12, <1>13, <1>14, <1>15, <1>16, <1>17, <1>18, <1>19,
       <1>20, <1>21, <1>22, <1>23 DEF Command

LEMMA DoneOnward ==
    ASSUME NEW e \in Downloader, Proper(e), e.link # "none", NEW result,
           NEW f \in CommandDone(e, result)
    PROVE  /\ f \in Downloader
           /\ \/ Ended(f)
              \/ /\ Onward(e, f)
                 /\ \/ result = "ok"
                    \/ result = "error" /\ e.state \in {"HTTP_STOP", "PDP_DEACT", "FILE_DELETE"}
  <1> DEFINE g == Idle(e)
  <1>1. /\ g \in Downloader /\ g.link = "none" /\ g.state = e.state /\ g.settings = e.settings
        /\ g.listed = e.listed /\ g.read_size = e.read_size /\ g.crc_ok = e.crc_ok
        /\ g.failure_pending = e.failure_pending
    BY IdleLike
  <1>2. e.state \in Command /\ ~e.failure_pending
    BY DEF Proper, Resting, Downloader, State
  <1>3. /\ g.state = "SETTING" => g.settings \in 1..Settings
        /\ g.listed = "whole" => g.state = "FILE_LIST"
    BY <1>1 DEF Proper
  <1>4. \/ g.state = "FAILURE_DELETE" /\ f = Finalized(g)
        \/ /\ g.state # "FAILURE_DELETE" /\ f \in Succeeded(g)
           /\ \/ result = "ok"
              \/ result = "error" /\ g.state \in {"HTTP_STOP", "PDP_DEACT", "FILE_DELETE"}
        \/ f \in FallbackOrFail(g, "direct_error") \/ f \in FinishFailure(g)
    BY <1>1, <1>2 DEF CommandDone, Command
  <1> HIDE DEF g
  <1>5. CASE f \in FallbackOrFail(g, "direct_error") \/ f \in FinishFailure(g)
    BY <1>1, <1>2, <1>5, FallbackEnded, FinishEnded
  <1>6. CASE f = Finalized(g)
    BY <1>1, <1>6, FinalizedEnded
  <1>7. CASE /\ g.state # "FAILURE_DELETE" /\ f \in Succeeded(g)
             /\ \/ result = "ok"
                \/ result = "error" /\ g.state \in {"HTTP_STOP", "PDP_DEACT", "FILE_DELETE"}
    <2>1. f \in Downloader /\ (Ended(f) \/ Onward(g, f))
      BY <1>1, <1>2, <1>3, <1>7, SucceededOnward
    <2>2. Onward(g, f) => Onward(e, f)
      BY <1>1 DEF Onward
    <2>3. QED  BY <1>1, <1>7, <2>1, <2>2
  <1>8. QED  BY <1>4, <1>5, <1>6, <1>7

-----------------------------------------------------------------------------
(* What holds of the wire.                                                 *)
LEMMA BehindFacts ==
    ASSUME NEW e \in Downloader, Proper(e)
    PROVE  /\ Place(e) \in Nat /\ Behind(e) \in Nat /\ Behind(e) <= Place(e)
           /\ e.state \in Late \cup {"DIRECT_STORE", "RANGE_GET"} => Behind(e) >= 4 + Settings
           /\ e.state = "DIRECT_GET" /\ OnWire(e) => Behind(e) >= 4 + Settings
  <1>1. Settings \in Nat /\ e.settings \in Nat
    BY DownloadAssumption DEF Downloader
  <1>2. Place(e) \in Nat
    BY <1>1 DEF Place
  <1>3. Behind(e) \in Nat /\ Behind(e) <= Place(e)
    BY <1>2 DEF Behind
  <1>4. e.state \in Late \cup {"DIRECT_STORE", "RANGE_GET"} => Place(e) = 5 + Settings
    BY DEF Place, Late, Reading
  <1>5. e.state = "DIRECT_GET" => Place(e) = 4 + Settings
    BY DEF Place
  <1>6. QED  BY <1>1, <1>2, <1>3, <1>4, <1>5 DEF Behind

LEMMA EndedHeld ==
    ASSUME NEW f \in Downloader, Ended(f), NEW w \in Seq(Entry), NEW j, NEW c
    PROVE  Proper(f) /\ Held(f, w, j, c)
  <1>1. Behind(f) = 0
    BY DEF Ended, Behind, Place, OnWire
  <1>2. Aged(f, w)
    BY <1>1 DEF Aged
  <1>3. Storing(f, w, j) /\ Vouched(f, w, c) /\ ReadAlone(f, w, c)
    BY DEF Ended, Storing, Vouched, ReadAlone, Late, Reading
  <1>4. Proper(f)
    BY DEF Ended, Proper, Resting
  <1>5. QED  BY <1>2, <1>3, <1>4 DEF Held

LEMMA OnwardBehind ==
    ASSUME NEW e \in Downloader, Proper(e), OnWire(e), NEW f \in Downloader, Onward(e, f)
    PROVE  Behind(f) <= Behind(e)
  <1>1. Settings \in Nat \ {0} /\ e.settings \in Nat
    BY DownloadAssumption DEF Downloader
  <1>2. Behind(e) = Place(e)
    BY DEF Behind
  <1>3. Behind(f) = IF Place(f) = 0 THEN 0 ELSE Place(f) - 1
    BY DEF Behind, Onward, OnWire
  <1>4. CASE e.state = "SETTING"
    BY <1>1, <1>2, <1>3, <1>4 DEF Onward, Follow, Place, Proper
  <1>5. CASE e.state \in {"HTTP_STOP", "PDP_DEACT", "PDP_ACT"}
    <2>1. Place(e) >= 1
      BY <1>5 DEF Place
    <2>2. /\ f.state \in {"PDP_DEACT", "PDP_ACT", "SETTING"}
          /\ e.state # "HTTP_STOP" => f.state # "PDP_DEACT"
          /\ f.state = "SETTING" => f.settings = 1
      BY <1>5 DEF Onward, Follow
    <2>3. Place(f) = 2
      BY <2>2 DEF Place
    <2>4. QED  BY <1>2, <1>3, <2>1, <2>3, BehindFacts
  <1>6. CASE e.state \in {"URL", "FILE_DELETE", "DIRECT_GET", "RANGE_OPEN"}
    BY <1>1, <1>2, <1>3, <1>6 DEF Onward, Follow, Place
  <1>7. CASE e.state \in {"DIRECT_STORE", "RANGE_GET", "RANGE_READ", "RANGE_WRITE", "RANGE_CLOSE",
                          "FILE_LIST", "VERIFY_OPEN", "VERIFY_READ", "VERIFY_CLOSE"}
    BY <1>1, <1>2, <1>3, <1>7 DEF Onward, Follow, Place
  <1>8. QED  BY <1>4, <1>5, <1>6, <1>7 DEF Onward, Command

(* A command that succeeded hands a sound wire on to the next.             *)
LEMMA OnwardHeld ==
    ASSUME NEW e \in Downloader, Proper(e), OnWire(e), NEW f \in Downloader, Onward(e, f),
           NEW w \in Seq(Entry), NEW j, NEW c, Held(e, w, j, c),
           e.state \in WaitsForUrc => j # "DIRECT_STORE",
           e.state = "DIRECT_STORE" => NoStore(w),
           e.listed = "whole" \/ e.state \in Reading => w = <<>>
    PROVE  Proper(f) /\ Held(f, w, j, c)
  <1>1. Proper(f)
    <2>1. f.state \in Resting => f.link = "none"
      BY DEF Onward, Follow, Resting, Command
    <2>2. QED  BY <2>1 DEF Onward, Proper
  <1>2. ~OnWire(f)
    BY DEF Onward, OnWire
  <1>3. Behind(f) \in Nat /\ Behind(e) \in Nat /\ Behind(f) <= Behind(e)
    BY <1>1, OnwardBehind, BehindFacts
  <1>4. Aged(f, w)
    <2> SUFFICES ASSUME NEW i \in 1..Len(w),
                        w[i].cmd = "FILE_LIST" \/ (w[i].cmd = "DIRECT_STORE" /\ Live(w[i]))
                 PROVE  Len(w) - i >= Behind(f)
      BY DEF Aged
    <2>1. Mine(e, w, i) \/ Len(w) - i >= Behind(e)
      BY DEF Held, Aged
    <2>2. ~Mine(e, w, i)
      <3>1. CASE w[i].cmd = "FILE_LIST"
        <4>1. e.state = "FILE_LIST" => w = <<>>
          BY DEF Onward
        <4>2. w # <<>>
          OBVIOUS
        <4>3. QED  BY <3>1, <4>1, <4>2 DEF Mine
      <3>2. CASE w[i].cmd = "DIRECT_STORE" /\ Live(w[i])
        BY <3>2 DEF Mine, NoStore
      <3>3. QED  BY <3>1, <3>2
    <2>3. QED  BY <1>3, <2>1, <2>2
  <1>5. Storing(f, w, j)
    <2>1. f.state \in Late \cup {"DIRECT_STORE"} => e.state \in Late \cup WaitsForUrc
      BY DEF Onward, Follow, Late, Reading, WaitsForUrc, Command
    <2>2. e.state \in Late => j # "DIRECT_STORE"
      BY DEF Held, Storing
    <2>3. QED  BY <2>1, <2>2 DEF Storing
  <1>6. Vouched(f, w, c)
    BY DEF Onward, Vouched
  <1>7. ReadAlone(f, w, c)
    <2> SUFFICES ASSUME f.state \in Reading PROVE ReadAlone(f, w, c)
      BY DEF ReadAlone
    <2>1. e.state \in {"FILE_LIST", "VERIFY_OPEN", "VERIFY_READ", "VERIFY_CLOSE"}
      BY DEF Onward, Follow, Reading, Command
    <2>2. w = <<>> /\ c.there /\ c.chunks = Chunks
      BY <2>1 DEF Held, Vouched, ReadAlone, Onward, Reading
    <2>3. f.state # "VERIFY_OPEN" /\ f.read_size > 0 /\ f.crc_ok => c.sound
      <3>1. CASE e.state = "FILE_LIST"
        BY <3>1 DEF Onward, Follow
      <3>2. CASE e.state = "VERIFY_OPEN"
        BY <3>2 DEF Onward
      <3>3. CASE e.state \in {"VERIFY_READ", "VERIFY_CLOSE"}
        BY <3>3 DEF Onward, Held, ReadAlone, Reading
      <3>4. QED  BY <2>1, <3>1, <3>2, <3>3
    <2>4. QED  BY <2>2, <2>3 DEF ReadAlone
  <1>8. QED  BY <1>1, <1>4, <1>5, <1>6, <1>7 DEF Held

LEMMA TailFacts ==
    ASSUME NEW w \in Seq(Entry), w # <<>>
    PROVE  /\ Tail(w) \in Seq(Entry) /\ Len(w) \in Nat \ {0} /\ Len(Tail(w)) = Len(w) - 1
           /\ \A i \in 1..Len(Tail(w)) : i + 1 \in 1..Len(w) /\ Tail(w)[i] = w[i + 1]
  OBVIOUS

(* The modem is rid of its first command.                                  *)
LEMMA TailHeld ==
    ASSUME NEW e \in Downloader, Proper(e), NEW w \in Seq(Entry), w # <<>>, NEW j, NEW c,
           Held(e, w, j, c)
    PROVE  Held(e, Tail(w), j, c)
  <1> DEFINE t == Tail(w)
  <1>1. /\ t \in Seq(Entry) /\ Len(w) \in Nat \ {0} /\ Len(t) = Len(w) - 1
        /\ \A i \in 1..Len(t) : i + 1 \in 1..Len(w) /\ t[i] = w[i + 1]
    BY TailFacts
  <1> HIDE DEF t
  <1>2. Len(w) = 1 => t = <<>>
    BY <1>1
  <1>3. Aged(e, t)
    <2> SUFFICES ASSUME NEW i \in 1..Len(t),
                        t[i].cmd = "FILE_LIST" \/ (t[i].cmd = "DIRECT_STORE" /\ Live(t[i]))
                 PROVE  Mine(e, t, i) \/ Len(t) - i >= Behind(e)
      BY DEF Aged
    <2>1. i + 1 \in 1..Len(w) /\ t[i] = w[i + 1]
      BY <1>1
    <2>2. Mine(e, w, i + 1) \/ Len(w) - (i + 1) >= Behind(e)
      BY <2>1 DEF Held, Aged
    <2>3. Mine(e, w, i + 1) => Mine(e, t, i)
      BY <1>1, <2>1 DEF Mine
    <2>4. Len(w) - (i + 1) = Len(t) - i
      BY <1>1
    <2>5. QED  BY <2>2, <2>3, <2>4
  <1>4. NoStore(w) => NoStore(t)
    BY <1>1 DEF NoStore
  <1>5. Storing(e, t, j)
    BY <1>4 DEF Held, Storing
  <1>6. Vouched(e, t, c) /\ ReadAlone(e, t, c)
    BY <1>1, <1>2 DEF Held, Vouched, ReadAlone
  <1>7. QED  BY <1>3, <1>5, <1>6 DEF Held, t

(* The modem goes on with a command, or will not take it any more.         *)
Fades(w, v) ==
    /\ Len(v) = Len(w)
    /\ \A i \in 1..Len(w) : /\ v[i].cmd = w[i].cmd
                            /\ Live(v[i]) => Live(w[i])
                            /\ w[i].stage = "ok" => v[i].stage = "ok"

LEMMA FadesHeld ==
    ASSUME NEW e \in Downloader, NEW w \in Seq(Entry), NEW v \in Seq(Entry), Fades(w, v),
           NEW j, NEW c, Held(e, w, j, c)
    PROVE  Held(e, v, j, c)
  <1>1. Len(w) \in Nat /\ Len(v) = Len(w)
    BY DEF Fades
  <1>2. w = <<>> => v = <<>>
    BY <1>1
  <1>3. \A i \in 1..Len(w) : v[i].cmd = w[i].cmd /\ (Live(v[i]) => Live(w[i]))
                             /\ (w[i].stage = "ok" => v[i].stage = "ok")
    BY DEF Fades
  <1>4. Aged(e, v)
    BY <1>1, <1>3 DEF Held, Aged, Mine
  <1>5. Storing(e, v, j)
    BY <1>1, <1>3 DEF Held, Storing, NoStore
  <1>6. Vouched(e, v, c) /\ ReadAlone(e, v, c)
    BY <1>1, <1>2, <1>3 DEF Held, Vouched, ReadAlone
  <1>7. QED  BY <1>4, <1>5, <1>6 DEF Held

(* Downloaders that the wire cannot tell apart.                            *)
Pose(f, e) ==
    /\ f.state = e.state /\ f.settings = e.settings /\ f.listed = e.listed
    /\ f.read_size = e.read_size /\ f.crc_ok = e.crc_ok /\ f.failure_pending = e.failure_pending
    /\ (f.link = "none") = (e.link = "none") /\ OnWire(f) = OnWire(e)

LEMMA PoseHeld ==
    ASSUME NEW e, Proper(e), NEW f, Pose(f, e), NEW w, NEW j, NEW c, Held(e, w, j, c)
    PROVE  Proper(f) /\ Held(f, w, j, c)
  <1>1. Proper(f)
    BY DEF Proper, Pose
  <1>2. Behind(f) = Behind(e)
    BY DEF Behind, Place, Pose
  <1>3. Aged(f, w)
    BY <1>2 DEF Held, Aged, Mine, Pose
  <1>4. Storing(f, w, j) /\ Vouched(f, w, c) /\ ReadAlone(f, w, c)
    BY DEF Held, Storing, Vouched, ReadAlone, Pose
  <1>5. QED  BY <1>1, <1>3, <1>4 DEF Held

LEMMA JobHeld ==
    ASSUME NEW e, NEW w, NEW j, NEW c, Held(e, w, j, c), NEW k, k # "DIRECT_STORE"
    PROVE  Held(e, w, k, c)
  BY DEF Held, Storing

LEMMA FileHeld ==
    ASSUME NEW e, NEW w, NEW j, NEW c, Held(e, w, j, c), e.state \notin Reading,
           e.listed # "whole", NEW b
    PROVE  Held(e, w, j, b)
  BY DEF Held, Vouched, ReadAlone

LEMMA RestHeld ==
    ASSUME NEW e, e.state \in {"IDLE", "ERROR"}, e.link = "none", e.listed # "whole",
           e.failure_pending => e.state = "ERROR", NEW w \in Seq(Entry), NEW j, NEW c
    PROVE  Proper(e) /\ Held(e, w, j, c)
  <1>1. Behind(e) = 0
    BY DEF Behind, Place, OnWire
  <1>2. Aged(e, w)
    BY <1>1 DEF Aged
  <1>3. Storing(e, w, j) /\ Vouched(e, w, c) /\ ReadAlone(e, w, c)
    BY DEF Storing, Vouched, ReadAlone, Late, Reading
  <1>4. Proper(e)
    BY DEF Proper
  <1>5. QED  BY <1>2, <1>3, <1>4 DEF Held

LEMMA DownloadFacts ==
    ASSUME DownloadInv
    PROVE  /\ d \in Downloader /\ Proper(d) /\ Held(d, wire, job, file) /\ Over
           /\ wire \in Seq(Entry) /\ Len(wire) <= Backlog /\ Len(wire) \in Nat /\ Backlog \in Nat \ {0}
           /\ d.link # "none" => busy /\ d.state \notin Resting /\ download = "waiting"
           /\ wire # <<>> => Len(wire) >= 1 /\ Head1 \in Entry
  <1>1. d \in Downloader /\ Proper(d) /\ Over /\ wire \in Seq(Entry) /\ Len(wire) <= Backlog
    BY DEF DownloadInv, DownloadTypeOK
  <1>2. d.link # "none" => busy /\ d.state \notin Resting
    BY <1>1 DEF Proper, Resting, busy
  <1>3. wire # <<>> => Len(wire) >= 1 /\ Head1 \in Entry
    BY <1>1 DEF Head1
  <1>4. QED  BY <1>1, <1>2, <1>3, DownloadAssumption DEF DownloadInv, Over

(* A step that leaves the App alone while it waits.                        *)
LEMMA WaitingKeeps ==
    ASSUME DownloadInv, d' \in Downloader, Proper(d'), wire' \in Seq(Entry), Len(wire') <= Backlog,
           Held(d', wire', job', file'), download = "waiting", UNCHANGED download,
           gate' \in BOOLEAN, job' \in Fetch \cup {"none"}, pos' \in Nat,
           file' \in [chunks : Nat, sound : BOOLEAN, there : BOOLEAN]
    PROVE  DownloadInv'
  BY DEF DownloadInv, DownloadTypeOK, Over

LEMMA StagedHead ==
    ASSUME DownloadInv, wire # <<>>, Live(Head1), NEW s \in Stage, HeadStage(s)
    PROVE  /\ wire' \in Seq(Entry) /\ Len(wire') = Len(wire) /\ Fades(wire, wire')
           /\ wire'[1].cmd = Head1.cmd /\ wire'[1].stage = s
  <1> DEFINE x == [wire[1] EXCEPT !.stage = s]
  <1>1. wire \in Seq(Entry) /\ Len(wire) >= 1 /\ wire[1] \in Entry /\ Len(wire) \in Nat
    BY DownloadFacts DEF Head1
  <1>2. x \in Entry /\ x.cmd = wire[1].cmd /\ x.stage = s
    BY <1>1 DEF Entry
  <1>3. wire' = [wire EXCEPT ![1] = x]
    BY DEF HeadStage
  <1> HIDE DEF x
  <1>4. wire' \in Seq(Entry) /\ Len(wire') = Len(wire) /\ wire'[1] = x
    BY <1>1, <1>2, <1>3
  <1>5. \A i \in 1..Len(wire) : i # 1 => wire'[i] = wire[i]
    BY <1>1, <1>3
  <1>6. Fades(wire, wire')
    <2> SUFFICES ASSUME NEW i \in 1..Len(wire)
                 PROVE  /\ wire'[i].cmd = wire[i].cmd
                        /\ Live(wire'[i]) => Live(wire[i])
                        /\ wire[i].stage = "ok" => wire'[i].stage = "ok"
      BY <1>4 DEF Fades
    <2>1. CASE i = 1
      BY <1>2, <1>4, <2>1 DEF Head1, Live
    <2>2. CASE i # 1
      BY <1>5, <2>2
    <2>3. QED  BY <2>1, <2>2
  <1>7. QED  BY <1>2, <1>4, <1>6 DEF Head1

LEMMA EscapedFades ==
    ASSUME DownloadInv
    PROVE  Escaped \in Seq(Entry) /\ Len(Escaped) = Len(wire) /\ Fades(wire, Escaped)
  <1> DEFINE v == Escaped
  <1>1. wire \in Seq(Entry) /\ Len(wire) \in Nat
    BY DownloadFacts
  <1>2. /\ DOMAIN v = 1..Len(wire)
        /\ v = [i \in 1..Len(wire) |-> v[i]]
        /\ \A i \in 1..Len(wire) :
              v[i] = IF wire[i].cmd \in PayloadCommand /\ wire[i].stage \in {"asked", "prompted"}
                     THEN [wire[i] EXCEPT !.stage = "refused"] ELSE wire[i]
    BY <1>1 DEF Escaped
  <1> HIDE DEF v
  <1>3. ASSUME NEW i \in 1..Len(wire)
        PROVE  /\ v[i] \in Entry /\ v[i].cmd = wire[i].cmd
               /\ Live(v[i]) => Live(wire[i])
               /\ wire[i].stage = "ok" => v[i].stage = "ok"
    <2> DEFINE x == wire[i]
               y == [x EXCEPT !.stage = "refused"]
    <2>1. x \in Entry
      BY <1>1
    <2>2. v[i] = IF x.cmd \in PayloadCommand /\ x.stage \in {"asked", "prompted"} THEN y ELSE x
      BY <1>2
    <2> HIDE DEF x
    <2>3. y \in Entry /\ y.cmd = x.cmd /\ y.stage = "refused"
      BY <2>1 DEF Entry, Stage
    <2> HIDE DEF y
    <2>4. /\ v[i] \in Entry /\ v[i].cmd = x.cmd
          /\ Live(v[i]) => Live(x)
          /\ x.stage = "ok" => v[i].stage = "ok"
      BY <2>1, <2>2, <2>3 DEF Live
    <2>5. QED  BY <2>4 DEF x
  <1>4. v \in Seq(Entry) /\ Len(v) = Len(wire)
    BY <1>1, <1>2, <1>3
  <1>5. Fades(wire, v)
    BY <1>3, <1>4 DEF Fades
  <1>6. QED  BY <1>4, <1>5 DEF v

-----------------------------------------------------------------------------
(* Every action keeps the download sound.                                  *)
LEMMA StartDownloadKeeps == DownloadInv /\ (\E direct \in BOOLEAN : StartDownload(direct)) => DownloadInv'
  <1> SUFFICES ASSUME DownloadInv, NEW direct \in BOOLEAN, StartDownload(direct)
               PROVE  DownloadInv'
    OBVIOUS
  <1>1. ~busy /\ d \in Downloader /\ wire \in Seq(Entry)
    BY DownloadFacts DEF StartDownload, Over
  <1> DEFINE b == IF direct THEN "direct" ELSE "range"
             n == IF direct THEN 1 ELSE 0
             no == FALSE
             e1 == [d EXCEPT !.backend = b]
             e2 == [e1 EXCEPT !.direct_attempts = n]
             e3 == [e2 EXCEPT !.failure_pending = no]
  <1>2. Fresh(d, direct) = e3
    BY DEF Fresh
  <1>3. b \in {"direct", "range"} /\ n \in Nat /\ no \in BOOLEAN /\ ~no
    OBVIOUS
  <1> HIDE DEF b, n, no
  <1>4. e1 \in Downloader
    BY <1>1, <1>3, PutBackend
  <1> HIDE DEF e1
  <1>5. e2 \in Downloader
    BY <1>3, <1>4, PutAttempts
  <1> HIDE DEF e2
  <1>6. e3 \in Downloader /\ ~e3.failure_pending
    BY <1>3, <1>5, PutPending
  <1> HIDE DEF e3
  <1>7. /\ d' \in RestartSession(e3)
        /\ download' = IF d'.state = "ERROR" THEN "failed" ELSE "waiting"
    BY <1>1, <1>2 DEF StartDownload
  <1>8. d' \in Downloader /\ Ended(d')
    BY <1>6, <1>7, RestartEnded
  <1>9. Proper(d') /\ Held(d', wire, job, file)
    BY <1>1, <1>8, EndedHeld
  <1>10. UNCHANGED <<gate, wire, job, file, pos>>
    BY DEF StartDownload, modemvars
  <1>11. Over'
    BY <1>7 DEF Over, busy
  <1>12. QED
    BY <1>7, <1>8, <1>9, <1>10, <1>11 DEF DownloadInv, DownloadTypeOK

(* What the App's task leaves of a downloader it has stepped.              *)
LEMMA TakenKeeps ==
    ASSUME DownloadInv, NEW e \in Downloader, Proper(e), Held(e, wire, job, file), Taken(e),
           download = "waiting", UNCHANGED <<gate, wire, modemvars>>
    PROVE  DownloadInv'
  <1> DEFINE no == FALSE
             f == [e EXCEPT !.failure_pending = no]
  <1>1. d' = f /\ download' = IF e.failure_pending THEN "failed" ELSE "waiting"
    BY DEF Taken
  <1>2. no \in BOOLEAN /\ ~no
    OBVIOUS
  <1> HIDE DEF no
  <1>3. /\ f \in Downloader /\ f.failure_pending = no /\ f.state = e.state /\ f.link = e.link
        /\ f.settings = e.settings /\ f.listed = e.listed /\ f.read_size = e.read_size
        /\ f.crc_ok = e.crc_ok
    BY <1>2, PutPending
  <1> HIDE DEF f
  <1>4. Proper(f)
    BY <1>2, <1>3 DEF Proper, OnWire
  <1>5. Behind(f) = Behind(e) /\ OnWire(f) = OnWire(e)
    BY <1>3 DEF Behind, Place, OnWire
  <1>6. Aged(f, wire)
    BY <1>3, <1>5 DEF Held, Aged, Mine
  <1>7. Storing(f, wire, job) /\ Vouched(f, wire, file) /\ ReadAlone(f, wire, file)
    BY <1>3, <1>5 DEF Held, Storing, Vouched, ReadAlone
  <1>8. UNCHANGED <<gate, wire, job, file, pos>>
    BY DEF modemvars
  <1>9. Over'
    BY <1>1, <1>3 DEF Over, busy, Proper
  <1>10. QED
    BY <1>1, <1>3, <1>4, <1>6, <1>7, <1>8, <1>9 DEF DownloadInv, DownloadTypeOK, Held

LEMMA TakeFailureKeeps == DownloadInv /\ TakeFailure => DownloadInv'
  <1> SUFFICES ASSUME DownloadInv, TakeFailure PROVE DownloadInv'
    OBVIOUS
  <1>1. d \in Downloader /\ Proper(d) /\ Held(d, wire, job, file)
    BY DownloadFacts
  <1>2. QED  BY <1>1, TakenKeeps DEF TakeFailure

(* The next range, or the next piece to read, is asked for in the same     *)
(* state.                                                                  *)
LEMMA AskedAgain ==
    ASSUME DownloadInv, NEW e \in Downloader, Like(e, d), e.link = "none", e.state \in Command,
           NEW f \in Issue(e, e.state)
    PROVE  f \in Downloader /\ Proper(f) /\ Held(f, wire, job, file)
  <1>1. d \in Downloader /\ Proper(d) /\ Held(d, wire, job, file) /\ wire \in Seq(Entry)
    BY DownloadFacts
  <1>2. ~e.failure_pending /\ e.state \notin Resting
    BY <1>1 DEF Like, Proper, Command, Resting
  <1>3. f \in Downloader /\ (Ended(f) \/ Asks(f, e, e.state))
    BY <1>2, IssueAsks
  <1>4. CASE Ended(f)
    BY <1>1, <1>3, <1>4, EndedHeld
  <1>5. CASE Asks(f, e, e.state)
    <2>1. /\ f.state = d.state /\ f.settings = d.settings /\ f.listed = d.listed
          /\ f.read_size = d.read_size /\ f.crc_ok = d.crc_ok /\ ~f.failure_pending
          /\ ~OnWire(d) /\ ~OnWire(f) /\ f.state \notin Resting
      BY <1>2, <1>5 DEF Asks, Like, OnWire
    <2>2. Proper(f)
      BY <1>1, <2>1 DEF Proper
    <2>3. Behind(f) = Behind(d)
      BY <2>1 DEF Behind, Place
    <2>4. Aged(f, wire)
      BY <1>1, <2>1, <2>3 DEF Held, Aged, Mine
    <2>5. Storing(f, wire, job) /\ Vouched(f, wire, file) /\ ReadAlone(f, wire, file)
      BY <1>1, <2>1 DEF Held, Storing, Vouched, ReadAlone
    <2>6. QED  BY <1>3, <2>2, <2>4, <2>5 DEF Held
  <1>6. QED  BY <1>3, <1>4, <1>5

LEMMA NextRangeKeeps == DownloadInv /\ NextRange => DownloadInv'
  <1> SUFFICES ASSUME DownloadInv, NextRange PROVE DownloadInv'
    OBVIOUS
  <1> DEFINE g == [d EXCEPT !.http = "none"]
  <1>1. PICK e \in Issue(g, "RANGE_GET") : Taken(e)
    BY DEF NextRange
  <1>2. d.state = "RANGE_GET" /\ d.link = "none" /\ d \in Downloader
    BY DownloadFacts DEF NextRange
  <1>3. g \in Downloader /\ Like(g, d)
    BY <1>2, PutHttp
  <1> HIDE DEF g
  <1>4. g.state = "RANGE_GET" /\ g.link = "none" /\ g.state \in Command
    BY <1>2, <1>3 DEF Like, Command
  <1>5. e \in Downloader /\ Proper(e) /\ Held(e, wire, job, file)
    BY <1>1, <1>3, <1>4, AskedAgain
  <1>6. QED  BY <1>1, <1>5, TakenKeeps DEF NextRange

LEMMA NextReadKeeps == DownloadInv /\ NextRead => DownloadInv'
  <1> SUFFICES ASSUME DownloadInv, NextRead PROVE DownloadInv'
    OBVIOUS
  <1>1. PICK e \in Issue(d, "VERIFY_READ") : Taken(e)
    BY DEF NextRead
  <1>2. d.state = "VERIFY_READ" /\ d.link = "none" /\ d \in Downloader
    BY DownloadFacts DEF NextRead
  <1>3. Like(d, d) /\ d.state \in Command
    BY <1>2 DEF Like, Command
  <1>4. e \in Downloader /\ Proper(e) /\ Held(e, wire, job, file)
    BY <1>1, <1>2, <1>3, AskedAgain
  <1>5. QED  BY <1>1, <1>4, TakenKeeps DEF NextRead

LEMMA VerifyKeeps == DownloadInv /\ Verify => DownloadInv'
  <1> SUFFICES ASSUME DownloadInv, Verify PROVE DownloadInv'
    OBVIOUS
  <1>1. /\ d \in Downloader /\ Proper(d) /\ Held(d, wire, job, file) /\ wire \in Seq(Entry)
        /\ d.state = "VERIFY" /\ download = "waiting"
    BY DownloadFacts DEF Verify
  <1>2. d.link = "none" /\ ~d.failure_pending
    BY <1>1 DEF Proper, Resting
  <1>3. CASE \E e \in FallbackOrFail(d, "integrity") : Taken(e)
    <2>1. PICK e \in FallbackOrFail(d, "integrity") : Taken(e)
      BY <1>3
    <2>2. e \in Downloader /\ Ended(e)
      BY <1>1, <1>2, <2>1, FallbackEnded
    <2>3. Proper(e) /\ Held(e, wire, job, file)
      BY <1>1, <2>2, EndedHeld
    <2>4. QED  BY <1>1, <2>1, <2>2, <2>3, TakenKeeps DEF Verify
  <1>4. CASE /\ d' = [Cleared(d) EXCEPT !.state = "IDLE"]
             /\ download' \in {"recorded", "failed"}
    <2> DEFINE g == Cleared(d)
    <2>1. g \in Downloader /\ g.link = "none" /\ g.listed = "no" /\ ~g.failure_pending
      BY <1>1, <1>2, ClearedLike
    <2>2. d' = [g EXCEPT !.state = "IDLE"]
      BY <1>4
    <2> HIDE DEF g
    <2>3. "IDLE" \in State
      BY DEF State
    <2>4. /\ d' \in Downloader /\ d'.state = "IDLE" /\ d'.link = "none" /\ d'.listed = "no"
          /\ ~d'.failure_pending
      BY <2>1, <2>2, <2>3, PutState
    <2>5. Proper(d') /\ Held(d', wire, job, file)
      BY <1>1, <2>4, RestHeld
    <2>6. wire = <<>> /\ job # "DIRECT_STORE"
      BY <1>1, <1>2 DEF Held, ReadAlone, Storing, Reading, Late, OnWire
    <2>7. UNCHANGED <<gate, wire, job, file, pos>>
      BY DEF Verify, modemvars
    <2>8. Over'
      BY <1>4, <2>4, <2>6, <2>7 DEF Over, busy
    <2>9. QED  BY <1>4, <2>4, <2>5, <2>7, <2>8 DEF DownloadInv, DownloadTypeOK
  <1>5. QED  BY <1>3, <1>4 DEF Verify

LEMMA ModemTypes ==
    ASSUME DownloadInv
    PROVE  /\ gate \in BOOLEAN /\ job \in Fetch \cup {"none"} /\ pos \in Nat
           /\ file \in [chunks : Nat, sound : BOOLEAN, there : BOOLEAN]
  BY DEF DownloadInv, DownloadTypeOK

(* Over goes on when neither the App nor its downloader move.              *)
LEMMA StillOver ==
    ASSUME DownloadInv, UNCHANGED download, d' = d \/ download = "waiting",
           wire = <<>> => wire' = <<>>,
           download = "recorded" => job' # "DIRECT_STORE"
    PROVE  Over'
  BY DEF DownloadInv, Over, busy

LEMMA StartCommandKeeps == DownloadInv /\ StartCommand => DownloadInv'
  <1> SUFFICES ASSUME DownloadInv, StartCommand PROVE DownloadInv'
    OBVIOUS
  <1>1. /\ d \in Downloader /\ Proper(d) /\ Held(d, wire, job, file) /\ wire \in Seq(Entry)
        /\ Len(wire) <= Backlog /\ Len(wire) \in Nat /\ Backlog \in Nat \ {0}
        /\ d.link = "queued" /\ download = "waiting" /\ d.state \notin Resting
    BY DownloadFacts DEF StartCommand
  <1> DEFINE t == IF Len(wire) < Backlog THEN wire ELSE Tail(wire)
             x == [cmd |-> d.state, stage |-> "asked"]
  <1>2. t \in Seq(Entry) /\ Len(t) < Backlog /\ Len(t) \in Nat /\ Held(d, t, job, file)
    <2>1. CASE Len(wire) < Backlog
      BY <1>1, <2>1
    <2>2. CASE ~(Len(wire) < Backlog)
      <3>1. wire # <<>>
        BY <1>1, <2>2
      <3>2. Tail(wire) \in Seq(Entry) /\ Len(Tail(wire)) = Len(wire) - 1 /\ Held(d, Tail(wire), job, file)
        BY <1>1, <3>1, TailFacts, TailHeld
      <3>3. QED  BY <1>1, <2>2, <3>2
    <2>3. QED  BY <2>1, <2>2
  <1>3. d.state \in Command
    BY <1>1 DEF Downloader, State, Resting
  <1>4. x \in Entry /\ x.cmd = d.state
    BY <1>3 DEF Entry, Stage
  <1>5. wire' = Append(t, x) /\ d' = [d EXCEPT !.link = "sent"]
    BY DEF StartCommand
  <1>6. /\ d' \in Downloader /\ d'.link = "sent" /\ d'.state = d.state /\ d'.settings = d.settings
        /\ d'.listed = d.listed /\ d'.read_size = d.read_size /\ d'.crc_ok = d.crc_ok
        /\ d'.failure_pending = d.failure_pending
    <2>1. "sent" \in Link
      BY DEF Link
    <2>2. QED  BY <1>1, <1>5, <2>1, PutLink
  <1> HIDE DEF t, x
  <1>7. /\ wire' \in Seq(Entry) /\ Len(wire') = Len(t) + 1 /\ wire'[Len(t) + 1] = x
        /\ \A i \in 1..Len(t) : wire'[i] = t[i]
    BY <1>2, <1>4, <1>5
  <1>8. OnWire(d') /\ ~OnWire(d)
    BY <1>1, <1>6 DEF OnWire
  <1>9. Proper(d')
    BY <1>1, <1>6, <1>8 DEF Proper
  <1>10. Behind(d') \in Nat /\ Behind(d) \in Nat /\ Behind(d') <= Behind(d) + 1
    <2>1. Place(d') = Place(d) /\ Place(d) \in Nat
      BY <1>1, <1>6, BehindFacts DEF Place
    <2>2. QED  BY <1>8, <2>1 DEF Behind
  <1>11. Aged(d', wire')
    <2> SUFFICES ASSUME NEW i \in 1..Len(wire'),
                        wire'[i].cmd = "FILE_LIST" \/ (wire'[i].cmd = "DIRECT_STORE" /\ Live(wire'[i]))
                 PROVE  Mine(d', wire', i) \/ Len(wire') - i >= Behind(d')
      BY DEF Aged
    <2>1. CASE i = Len(t) + 1
      BY <1>4, <1>6, <1>7, <1>8, <2>1 DEF Mine
    <2>2. CASE i # Len(t) + 1
      <3>1. i \in 1..Len(t) /\ wire'[i] = t[i]
        BY <1>2, <1>7, <2>2
      <3>2. Len(t) - i >= Behind(d)
        BY <1>2, <1>8, <3>1 DEF Held, Aged, Mine
      <3>3. QED  BY <1>2, <1>7, <1>10, <3>1, <3>2
    <2>3. QED  BY <2>1, <2>2
  <1>12. Storing(d', wire', job)
    BY <1>2, <1>6, <1>8 DEF Held, Storing
  <1>13. Vouched(d', wire', file)
    BY <1>1, <1>6, <1>8 DEF Proper, Vouched
  <1>14. ReadAlone(d', wire', file)
    <2> SUFFICES ASSUME d.state \in Reading PROVE ReadAlone(d', wire', file)
      BY <1>6 DEF ReadAlone
    <2>1. t = <<>>
      BY <1>2, <1>8 DEF Held, ReadAlone
    <2>2. Len(wire') = 1 /\ wire'[1].cmd = d.state
      BY <1>4, <1>7, <2>1
    <2>3. QED  BY <1>2, <1>6, <1>8, <2>2 DEF Held, ReadAlone
  <1>15. UNCHANGED <<download, gate, job, file, pos>>
    BY DEF StartCommand, modemvars
  <1>16. Held(d', wire', job', file')
    BY <1>11, <1>12, <1>13, <1>14, <1>15 DEF Held
  <1>17. Len(wire') <= Backlog
    BY <1>1, <1>2, <1>7
  <1>18. QED
    BY <1>1, <1>6, <1>7, <1>9, <1>15, <1>16, <1>17, ModemTypes, WaitingKeeps

LEMMA TimeoutKeeps == DownloadInv /\ Timeout => DownloadInv'
  <1> SUFFICES ASSUME DownloadInv, Timeout PROVE DownloadInv'
    OBVIOUS
  <1>1. /\ d \in Downloader /\ Proper(d) /\ wire \in Seq(Entry) /\ Len(wire) <= Backlog
        /\ d.link # "none" /\ download = "waiting"
    BY DownloadFacts DEF Timeout, OnWire
  <1>2. d' \in Downloader /\ Ended(d')
    <2>1. d' \in CommandDone(d, "timeout")
      BY DEF Timeout
    <2>2. QED  BY <1>1, <2>1, DoneOnward
  <1>3. wire' \in Seq(Entry) /\ Len(wire') <= Backlog
    BY <1>1, EscapedFades DEF Timeout
  <1>4. UNCHANGED <<download, gate, job, file, pos>>
    BY DEF Timeout, modemvars
  <1>5. Proper(d') /\ Held(d', wire', job', file')
    BY <1>2, <1>3, EndedHeld
  <1>6. QED  BY <1>1, <1>2, <1>3, <1>4, <1>5, ModemTypes, WaitingKeeps

LEMMA ShutEnded ==
    ASSUME NEW e \in Downloader, Proper(e), e.link # "none", NEW result, NEW f \in Shut(result),
           e = d
    PROVE  f \in Downloader /\ Ended(f) /\ f.state = "ERROR"
  <1>1. f \in CommandDone(e, result) /\ f.state = "ERROR"
    BY DEF Shut
  <1>2. f \in Downloader /\ (Ended(f) \/ Onward(e, f))
    BY <1>1, DoneOnward
  <1>3. ~Onward(e, f)
    BY <1>1 DEF Onward, Follow, Command
  <1>4. QED  BY <1>1, <1>2, <1>3

LEMMA QuarantineKeeps == DownloadInv /\ Quarantine => DownloadInv'
  <1> SUFFICES ASSUME DownloadInv, Quarantine PROVE DownloadInv'
    OBVIOUS
  <1>1. /\ d \in Downloader /\ Proper(d) /\ Held(d, wire, job, file) /\ wire \in Seq(Entry)
        /\ Len(wire) <= Backlog
    BY DownloadFacts
  <1>2. /\ wire' \in Seq(Entry) /\ Len(wire') = Len(wire) /\ Fades(wire, wire')
        /\ Len(wire) \in Nat
    BY DownloadFacts, EscapedFades DEF Quarantine
  <1>3. gate' \in BOOLEAN /\ UNCHANGED <<download, job, file, pos>>
    BY DEF Quarantine, modemvars
  <1>4. wire = <<>> => wire' = <<>>
    BY <1>1, <1>2
  <1>5. d' \in Downloader /\ Proper(d') /\ Held(d', wire', job, file)
        /\ (d' = d \/ download = "waiting")
    <2>1. CASE d.link = "none"
      <3>1. d' = d
        BY <2>1 DEF Quarantine
      <3>2. QED  BY <1>1, <1>2, <3>1, FadesHeld
    <2>2. CASE d.link # "none"
      <3>1. PICK result \in {"error", "send_fail"} : d' \in Shut(result)
        BY <2>2 DEF Quarantine
      <3>2. d' \in Downloader /\ Ended(d')
        BY <1>1, <2>2, <3>1, ShutEnded
      <3>3. download = "waiting"
        BY <2>2, DownloadFacts
      <3>4. QED  BY <1>2, <3>2, <3>3, EndedHeld
    <2>3. QED  BY <2>1, <2>2
  <1>6. Over'
    BY <1>3, <1>4, <1>5, StillOver DEF DownloadInv, Over
  <1>7. QED
    BY <1>1, <1>2, <1>3, <1>5, <1>6, ModemTypes DEF DownloadInv, DownloadTypeOK

LEMMA ResetKeeps == DownloadInv /\ OnModemReset => DownloadInv'
  <1> SUFFICES ASSUME DownloadInv, OnModemReset PROVE DownloadInv'
    OBVIOUS
  <1>1. d \in Downloader /\ Proper(d) /\ Over
    BY DownloadFacts
  <1>2. PICK e \in IF d.link = "none" THEN {d} ELSE Shut("error") :
           d' = [ResetDownload(e) EXCEPT !.handle_valid = FALSE]
    BY DEF OnModemReset
  <1>3. e \in Downloader
    BY <1>1, <1>2, ShutEnded
  <1> DEFINE g == ResetDownload(e)
             no == FALSE
  <1>4. /\ g \in Downloader /\ g.link = "none" /\ g.listed # "whole"
        /\ g.failure_pending => g.state = "ERROR"
        /\ g.state \in {"IDLE", "ERROR"} /\ (d.state = "IDLE" => g.state = "IDLE")
    <2>1. CASE busy
      <3>1. g = Finalized(e) /\ d.state # "IDLE"
        BY <2>1 DEF ResetDownload, busy
      <3>2. QED  BY <1>3, <3>1, FinalizedEnded DEF Ended
    <2>2. CASE ~busy
      <3>1. d.state \in {"IDLE", "ERROR"} /\ d.link = "none" /\ e = d /\ g = Idle(d)
        BY <1>1, <1>2, <2>2 DEF busy, Proper, Resting, ResetDownload
      <3>2. /\ g \in Downloader /\ g.link = "none" /\ g.state = d.state /\ g.listed = d.listed
            /\ g.failure_pending = d.failure_pending
        BY <1>1, <3>1, IdleLike
      <3>3. QED  BY <1>1, <3>1, <3>2 DEF Proper
    <2>3. QED  BY <2>1, <2>2
  <1>5. d' = [g EXCEPT !.handle_valid = no] /\ no \in BOOLEAN
    BY <1>2
  <1> HIDE DEF g, no
  <1>6. d' \in Downloader /\ Like(d', g)
    BY <1>4, <1>5, PutHandle
  <1>7. /\ gate' \in BOOLEAN /\ wire' = <<>> /\ job' = "none" /\ UNCHANGED <<file, pos>>
        /\ download' = IF download = "waiting" THEN "failed" ELSE download
    BY DEF OnModemReset
  <1>8. wire' \in Seq(Entry) /\ Len(wire') <= Backlog
    BY <1>7, DownloadAssumption
  <1>9. Proper(d') /\ Held(d', wire', job', file')
    BY <1>4, <1>6, <1>8, RestHeld DEF Like
  <1>10. Over'
    BY <1>1, <1>4, <1>6, <1>7 DEF Over, busy, Like
  <1>11. download' \in {"idle", "waiting", "failed", "recorded"}
    BY <1>7 DEF DownloadInv, DownloadTypeOK
  <1>12. QED
    BY <1>6, <1>7, <1>8, <1>9, <1>10, <1>11, ModemTypes DEF DownloadInv, DownloadTypeOK

LEMMA LostKeeps == DownloadInv /\ Lost => DownloadInv'
  <1> SUFFICES ASSUME DownloadInv, Lost PROVE DownloadInv'
    OBVIOUS
  <1>1. /\ d \in Downloader /\ Proper(d) /\ Held(d, wire, job, file) /\ wire \in Seq(Entry)
        /\ Len(wire) <= Backlog /\ Len(wire) \in Nat /\ Backlog \in Nat
    BY DownloadFacts
  <1>2. wire # <<>> /\ wire' = Tail(wire) /\ UNCHANGED <<d, download, gate, job, file, pos>>
    BY DEF Lost, modemvars
  <1>3. wire' \in Seq(Entry) /\ Len(wire') <= Backlog /\ Held(d', wire', job', file')
    BY <1>1, <1>2, TailFacts, TailHeld
  <1>4. Over'
    BY <1>2, StillOver DEF DownloadInv, Over
  <1>5. QED  BY <1>1, <1>2, <1>3, <1>4, ModemTypes DEF DownloadInv, DownloadTypeOK

(* The modem goes on with its first command, and the downloader hears of   *)
(* it at most that the payload may follow.                                 *)
LEMMA StagedKeeps ==
    ASSUME DownloadInv, wire # <<>>, Live(Head1), NEW s \in Stage, HeadStage(s),
           d' \in Downloader, Pose(d', d), d' = d \/ download = "waiting",
           UNCHANGED <<download, gate, file, pos>>,
           job' = job \/ job' = "none"
    PROVE  DownloadInv'
  <1>1. /\ d \in Downloader /\ Proper(d) /\ Held(d, wire, job, file) /\ wire \in Seq(Entry)
        /\ Len(wire) <= Backlog /\ Len(wire) \in Nat
    BY DownloadFacts
  <1>2. wire' \in Seq(Entry) /\ Len(wire') = Len(wire) /\ Fades(wire, wire')
    BY StagedHead
  <1>3. Held(d, wire', job, file)
    BY <1>1, <1>2, FadesHeld
  <1>4. Held(d, wire', job', file')
    BY <1>3, JobHeld
  <1>5. Proper(d') /\ Held(d', wire', job', file')
    BY <1>1, <1>4, PoseHeld
  <1>6. Over'
    BY StillOver DEF DownloadInv, Over
  <1>7. job' \in Fetch \cup {"none"}
    BY ModemTypes
  <1>8. QED
    BY <1>1, <1>2, <1>5, <1>6, <1>7, ModemTypes DEF DownloadInv, DownloadTypeOK

LEMMA RelinkPose ==
    ASSUME NEW e \in Downloader, OnWire(e), NEW k \in {"sent", "prompted", "given"}
    PROVE  LET g == [e EXCEPT !.link = k] IN g \in Downloader /\ Pose(g, e)
  <1>1. k \in Link
    BY DEF Link
  <1> DEFINE g == [e EXCEPT !.link = k]
  <1>2. /\ g \in Downloader /\ g.link = k /\ g.state = e.state /\ g.settings = e.settings
        /\ g.listed = e.listed /\ g.read_size = e.read_size /\ g.crc_ok = e.crc_ok
        /\ g.failure_pending = e.failure_pending
    BY <1>1, PutLink
  <1> HIDE DEF g
  <1>3. OnWire(g) /\ g.link # "none" /\ e.link # "none"
    BY <1>2 DEF OnWire
  <1>4. QED  BY <1>2, <1>3 DEF g, Pose

LEMMA PromptsKeeps == DownloadInv /\ Prompts => DownloadInv'
  <1> SUFFICES ASSUME DownloadInv, Prompts PROVE DownloadInv'
    OBVIOUS
  <1>1. d \in Downloader
    BY DownloadFacts
  <1>2. d' \in Downloader /\ Pose(d', d) /\ (d' = d \/ download = "waiting")
    <2>1. CASE d.link = "sent"
      <3>1. OnWire(d) /\ d' = [d EXCEPT !.link = "prompted"]
        BY <2>1 DEF Prompts, OnWire
      <3>2. download = "waiting"
        BY <2>1, DownloadFacts
      <3>3. QED  BY <1>1, <3>1, <3>2, RelinkPose
    <2>2. CASE d.link # "sent"
      BY <1>1, <2>2 DEF Prompts, Pose
    <2>3. QED  BY <2>1, <2>2
  <1>3. /\ wire # <<>> /\ Live(Head1) /\ HeadStage("prompted")
        /\ UNCHANGED <<download, gate, job, file, pos>>
    BY DEF Prompts, Live, modemvars
  <1>4. QED  BY <1>2, <1>3, StagedKeeps DEF Stage

LEMMA SendPayloadKeeps == DownloadInv /\ SendPayload => DownloadInv'
  <1> SUFFICES ASSUME DownloadInv, SendPayload PROVE DownloadInv'
    OBVIOUS
  <1>1. /\ d \in Downloader /\ Proper(d) /\ Held(d, wire, job, file) /\ wire \in Seq(Entry)
        /\ Len(wire) <= Backlog
    BY DownloadFacts
  <1>2. /\ OnWire(d) /\ d' = [d EXCEPT !.link = "given"] /\ download = "waiting"
        /\ UNCHANGED <<download, gate, job, file, pos>>
    BY DEF SendPayload, OnWire, modemvars
  <1>3. d' \in Downloader /\ Pose(d', d)
    BY <1>1, <1>2, RelinkPose
  <1>4. CASE wire # <<>> /\ Head1.stage = "prompted"
    <2>1. HeadStage("given") /\ Live(Head1)
      BY <1>4 DEF SendPayload, HeadStage, Live
    <2>2. QED  BY <1>2, <1>3, <1>4, <2>1, StagedKeeps DEF Stage
  <1>5. CASE ~(wire # <<>> /\ Head1.stage = "prompted")
    <2>1. wire' = wire
      BY <1>5 DEF SendPayload
    <2>2. Proper(d') /\ Held(d', wire', job', file')
      BY <1>1, <1>2, <1>3, <2>1, PoseHeld
    <2>3. QED  BY <1>1, <1>2, <1>3, <2>1, <2>2, ModemTypes, WaitingKeeps
  <1>6. QED  BY <1>4, <1>5

LEMMA RefusesKeeps == DownloadInv /\ Refuses => DownloadInv'
  <1> SUFFICES ASSUME DownloadInv, Refuses PROVE DownloadInv'
    OBVIOUS
  <1>1. /\ wire # <<>> /\ Live(Head1) /\ HeadStage("error") /\ "error" \in Stage
        /\ job' = job \/ job' = "none"
        /\ UNCHANGED <<d, download, gate, file, pos>>
    BY DEF Refuses, Ready, Live, Stage
  <1>2. d' \in Downloader /\ Pose(d', d)
    BY <1>1, DownloadFacts DEF Pose
  <1>3. QED  BY <1>1, <1>2, StagedKeeps

LEMMA ResultLineKeeps == DownloadInv /\ ResultLine => DownloadInv'
  <1> SUFFICES ASSUME DownloadInv, ResultLine PROVE DownloadInv'
    OBVIOUS
  <1>1. /\ d \in Downloader /\ Proper(d) /\ Held(d, wire, job, file) /\ wire \in Seq(Entry)
        /\ Len(wire) <= Backlog /\ Len(wire) \in Nat /\ Backlog \in Nat
    BY DownloadFacts
  <1>2. /\ wire # <<>> /\ wire' = Tail(wire) /\ Head1.stage \in {"ok", "error"}
        /\ UNCHANGED <<download, gate, job, file, pos>>
    BY DEF ResultLine, modemvars
  <1>3. /\ wire' \in Seq(Entry) /\ Len(wire') = Len(wire) - 1 /\ Len(wire') <= Backlog
        /\ Held(d, wire', job, file)
    BY <1>1, <1>2, TailFacts, TailHeld
  <1>4. CASE /\ OnWire(d) /\ d' \in CommandDone(d, Head1.stage)
             /\ Head1.stage = "error" \/ d.state \notin WaitsForUrc
    <2>1. d.link # "none" /\ download = "waiting"
      BY <1>4, DownloadFacts DEF OnWire
    <2>2. /\ d' \in Downloader
          /\ \/ Ended(d')
             \/ /\ Onward(d, d')
                /\ \/ Head1.stage = "ok"
                   \/ Head1.stage = "error" /\ d.state \in {"HTTP_STOP", "PDP_DEACT", "FILE_DELETE"}
      BY <1>1, <1>4, <2>1, DoneOnward
    <2>3. CASE Ended(d')
      <3>1. Proper(d') /\ Held(d', wire', job, file)
        BY <1>3, <2>2, <2>3, EndedHeld
      <3>2. QED  BY <1>2, <1>3, <2>1, <2>2, <3>1, ModemTypes, WaitingKeeps
    <2>4. CASE /\ Onward(d, d')
               /\ \/ Head1.stage = "ok"
                  \/ Head1.stage = "error" /\ d.state \in {"HTTP_STOP", "PDP_DEACT", "FILE_DELETE"}
      <3>1. d.state \notin WaitsForUrc /\ d.state # "DIRECT_STORE"
        BY <1>4, <2>4 DEF WaitsForUrc
      <3>2. d.listed = "whole" \/ d.state \in Reading => wire' = <<>>
        <4> SUFFICES ASSUME d.listed = "whole" \/ d.state \in Reading PROVE wire' = <<>>
          OBVIOUS
        <4>1. Len(wire) = 1
          BY <1>1, <1>2 DEF Held, Vouched, ReadAlone
        <4>2. QED  BY <1>3, <4>1
      <3>3. Proper(d') /\ Held(d', wire', job, file)
        BY <1>1, <1>3, <1>4, <2>2, <2>4, <3>1, <3>2, OnwardHeld
      <3>4. QED  BY <1>2, <1>3, <2>1, <2>2, <3>3, ModemTypes, WaitingKeeps
    <2>5. QED  BY <2>2, <2>3, <2>4
  <1>5. CASE d' = d
    <2>1. Over'
      BY <1>2, <1>5, StillOver DEF DownloadInv, Over
    <2>2. QED  BY <1>1, <1>2, <1>3, <1>5, <2>1, ModemTypes DEF DownloadInv, DownloadTypeOK
  <1>6. QED  BY <1>4, <1>5 DEF ResultLine

(* The end of a transfer, and what the modem makes of the file.            *)
LEMMA JobEndsKeeps == DownloadInv /\ JobEnds => DownloadInv'
  <1> SUFFICES ASSUME DownloadInv, JobEnds PROVE DownloadInv'
    OBVIOUS
  <1>1. /\ d \in Downloader /\ Proper(d) /\ Held(d, wire, job, file) /\ wire \in Seq(Entry)
        /\ Len(wire) <= Backlog
    BY DownloadFacts
  <1>2. /\ job \in Fetch /\ job' = "none" /\ UNCHANGED <<download, gate, wire, pos>>
    BY ModemTypes DEF JobEnds
  <1>3. /\ file' \in [chunks : Nat, sound : BOOLEAN, there : BOOLEAN]
        /\ job # "DIRECT_STORE" => file' = file
    <2>1. \A n \in 0..Chunks : n \in Nat
      BY DownloadAssumption
    <2>2. ASSUME NEW x \in Stored PROVE x \in [chunks : Nat, sound : BOOLEAN, there : BOOLEAN]
      <3>1. CASE x \in {[chunks |-> n, sound |-> TRUE, there |-> TRUE] : n \in 0..Chunks}
        <4>1. PICK n \in 0..Chunks : x = [chunks |-> n, sound |-> TRUE, there |-> TRUE]
          BY <3>1
        <4>2. QED  BY <2>1, <4>1
      <3>2. CASE x = [chunks |-> Chunks, sound |-> FALSE, there |-> TRUE]
        BY <3>2, DownloadAssumption
      <3>3. QED  BY <3>1, <3>2 DEF Stored
    <2>3. file' = file \/ (job = "DIRECT_STORE" /\ file' \in Stored)
      BY DEF JobEnds
    <2>4. QED  BY <2>2, <2>3, ModemTypes
  <1>4. Held(d, wire, "none", file')
    <2>1. CASE job # "DIRECT_STORE"
      BY <1>1, <1>3, <2>1, JobHeld
    <2>2. CASE job = "DIRECT_STORE"
      <3>1. d.state \notin Reading /\ d.listed # "whole"
        BY <1>1, <2>2 DEF Held, Storing, Late, Proper
      <3>2. Held(d, wire, job, file')
        BY <1>1, <3>1, FileHeld
      <3>3. QED  BY <3>2, JobHeld
    <2>3. QED  BY <2>1, <2>2
  <1>5. PICK g \in Downloader, result \in {"ok", "error"} :
           /\ Pose(g, d) /\ d' \in UrcDone(g, result)
           /\ g = d \/ d.state \in {"DIRECT_GET", "RANGE_GET"}
    <2>1. CASE \E what \in {job, "none"} : d' \in UrcDone(Got(d, what), "ok")
      <3>1. PICK what \in {job, "none"} : d' \in UrcDone(Got(d, what), "ok")
        BY <2>1
      <3> DEFINE g == [d EXCEPT !.http = what]
      <3>2. CASE d.state \in {"DIRECT_GET", "RANGE_GET"}
        <4>1. g \in Downloader /\ Like(g, d)
          BY <1>1, <1>2, PutHttp
        <4>2. Got(d, what) = g
          BY <3>2 DEF Got
        <4> HIDE DEF g
        <4>3. Pose(g, d)
          BY <4>1 DEF Like, Pose, OnWire
        <4>4. QED  BY <3>1, <3>2, <4>1, <4>2, <4>3
      <3>3. CASE d.state \notin {"DIRECT_GET", "RANGE_GET"}
        <4>1. Got(d, what) = d /\ Pose(d, d)
          BY <3>3 DEF Got, Pose
        <4>2. QED  BY <1>1, <3>1, <4>1
      <3>4. QED  BY <3>2, <3>3
    <2>2. CASE d' \in UrcDone(d, "ok") \/ d' \in UrcDone(d, "error")
      <3>1. Pose(d, d)
        BY DEF Pose
      <3>2. QED  BY <1>1, <2>2, <3>1
    <2>3. QED  BY <2>1, <2>2 DEF JobEnds
  <1>6. Proper(g) /\ Held(g, wire, "none", file')
    BY <1>1, <1>4, <1>5, PoseHeld
  <1>7. d' \in Downloader /\ Proper(d') /\ Held(d', wire, "none", file')
        /\ (~OnWire(d) => d' = g)
    <2>1. CASE d' = g /\ ~(OnWire(g) /\ SameUrc(g.state, job))
      BY <1>6, <2>1
    <2>2. CASE OnWire(g) /\ SameUrc(g.state, job) /\ d' \in CommandDone(g, result)
      <3>1. g.link # "none" /\ OnWire(d)
        BY <1>5, <2>2 DEF OnWire, Pose
      <3>2. d' \in Downloader /\ (Ended(d') \/ Onward(g, d'))
        BY <1>6, <2>2, <3>1, DoneOnward
      <3>3. CASE Ended(d')
        BY <1>1, <3>1, <3>2, <3>3, EndedHeld
      <3>4. CASE Onward(g, d')
        <4>1. g.state \in Fetch
          BY <1>2, <2>2 DEF SameUrc, Fetch
        <4>2. g.listed # "whole" /\ g.state \notin Reading
          BY <1>6, <4>1 DEF Proper, Fetch, Reading
        <4>3. g.state = "DIRECT_STORE" => NoStore(wire)
          <5> SUFFICES ASSUME g.state = "DIRECT_STORE" PROVE NoStore(wire)
            OBVIOUS
          <5>1. job = "DIRECT_STORE" /\ d.state = "DIRECT_STORE"
            BY <1>5, <2>2 DEF SameUrc, Pose
          <5>2. QED  BY <1>1, <5>1 DEF Held, Storing
        <4>4. Proper(d') /\ Held(d', wire, "none", file')
          BY <1>1, <1>6, <2>2, <3>2, <3>4, <4>2, <4>3, OnwardHeld
        <4>5. QED  BY <3>1, <3>2, <4>4
      <3>5. QED  BY <3>2, <3>3, <3>4
    <2>3. QED  BY <1>5, <2>1, <2>2 DEF UrcDone
  <1>8. Over'
    <2>1. d' = d \/ download = "waiting"
      <3>1. CASE d.state \in {"DIRECT_GET", "RANGE_GET"}
        BY <3>1, DownloadFacts DEF Over, busy
      <3>2. CASE ~OnWire(d) /\ g = d
        BY <1>7, <3>2
      <3>3. CASE OnWire(d)
        BY <3>3, DownloadFacts DEF OnWire
      <3>4. QED  BY <1>5, <3>1, <3>2, <3>3
    <2>2. QED  BY <1>2, <2>1, StillOver
  <1>9. QED
    BY <1>1, <1>2, <1>3, <1>7, <1>8, ModemTypes DEF DownloadInv, DownloadTypeOK

(* The modem carries out only a young command, and the file while nobody   *)
(* relies on it.                                                           *)
LEMMA AtHead ==
    ASSUME Backlog <= Settings + 4, DownloadInv, wire # <<>>, Live(Head1),
           Head1.cmd \in {"DIRECT_STORE", "FILE_LIST"}, d.state \in Late \cup {"DIRECT_STORE"}
    PROVE  OnWire(d) /\ Len(wire) = 1 /\ d.state = Head1.cmd
  <1>1. /\ d \in Downloader /\ Proper(d) /\ Held(d, wire, job, file)
        /\ Len(wire) \in Nat /\ Len(wire) >= 1 /\ Len(wire) <= Backlog
    BY DownloadFacts
  <1>2. Behind(d) \in Nat /\ Behind(d) >= 4 + Settings
    BY <1>1, BehindFacts
  <1>3. Mine(d, wire, 1) \/ Len(wire) - 1 >= Behind(d)
    BY <1>1 DEF Held, Aged, Head1
  <1>4. ~(Len(wire) - 1 >= Behind(d))
    BY <1>1, <1>2, DownloadAssumption
  <1>5. QED  BY <1>3, <1>4 DEF Mine, Head1

LEMMA HeadApart ==
    ASSUME DownloadInv, wire # <<>>, Live(Head1), Head1.cmd \notin Reading
    PROVE  d.state \notin Reading /\ d.listed # "whole"
  <1>1. Held(d, wire, job, file)
    BY DownloadFacts
  <1>2. QED  BY <1>1 DEF Held, Vouched, ReadAlone, Head1, Live

LEMMA ReceivedHeld ==
    ASSUME NEW e \in Downloader, Proper(e), NEW f \in Received(e), NEW w \in Seq(Entry), NEW j, NEW c,
           Held(e, w, j, c)
    PROVE  f \in Downloader /\ Proper(f) /\ Held(f, w, j, c) /\ (f = e \/ e.state = "RANGE_READ")
  <1> DEFINE yes == TRUE
             g == [e EXCEPT !.received = yes]
  <1>1. CASE f = e
    BY <1>1
  <1>2. CASE e.state = "RANGE_READ" /\ f \in FinishFailure(e)
    <2>1. ~e.failure_pending
      BY <1>2 DEF Proper
    <2>2. f \in Downloader /\ Ended(f)
      BY <1>2, <2>1, FinishEnded
    <2>3. QED  BY <1>2, <2>2, EndedHeld
  <1>3. CASE e.state = "RANGE_READ" /\ f = g
    <2>1. yes \in BOOLEAN
      OBVIOUS
    <2> HIDE DEF yes
    <2>2. g \in Downloader /\ Like(g, e)
      BY <2>1, PutReceived
    <2> HIDE DEF g
    <2>3. Pose(g, e)
      BY <2>2 DEF Like, Pose, OnWire
    <2>4. QED  BY <1>3, <2>2, <2>3, PoseHeld
  <1>4. QED  BY <1>1, <1>2, <1>3 DEF Received

LEMMA OpenedPose ==
    ASSUME DownloadInv
    PROVE  Opened(d) \in Downloader /\ Pose(Opened(d), d) /\ (Opened(d) = d \/ download = "waiting")
  <1> DEFINE yes == TRUE
             g == [d EXCEPT !.handle_valid = yes]
  <1>1. d \in Downloader /\ Over /\ yes \in BOOLEAN
    BY DownloadFacts
  <1>2. CASE busy
    <2>1. Opened(d) = g /\ download = "waiting"
      BY <1>1, <1>2 DEF Opened, Over
    <2> HIDE DEF yes
    <2>2. g \in Downloader /\ Like(g, d)
      BY <1>1, PutHandle
    <2> HIDE DEF g
    <2>3. QED  BY <2>1, <2>2 DEF Like, Pose, OnWire
  <1>3. CASE ~busy
    BY <1>1, <1>3 DEF Opened, Pose
  <1>4. QED  BY <1>2, <1>3

LEMMA WrotePose ==
    ASSUME DownloadInv, NEW n \in Nat
    PROVE  Wrote(d, n) \in Downloader /\ Pose(Wrote(d, n), d) /\ (Wrote(d, n) = d \/ download = "waiting")
  <1> DEFINE g == [d EXCEPT !.written = n]
  <1>1. d \in Downloader /\ Over
    BY DownloadFacts
  <1>2. CASE busy
    <2>1. Wrote(d, n) = g /\ download = "waiting"
      BY <1>1, <1>2 DEF Wrote, Over
    <2>2. g \in Downloader /\ Like(g, d)
      BY <1>1, PutWritten
    <2> HIDE DEF g
    <2>3. QED  BY <2>1, <2>2 DEF Like, Pose, OnWire
  <1>3. CASE ~busy
    BY <1>1, <1>3 DEF Wrote, Pose
  <1>4. QED  BY <1>2, <1>3

(* A piece that was read well was read from a sound file.                  *)
LEMMA ReadHeld ==
    ASSUME NEW e \in Downloader, Proper(e), NEW w \in Seq(Entry), NEW j,
           NEW c \in [chunks : Nat, sound : BOOLEAN, there : BOOLEAN],
           Held(e, w, j, c), NEW some, NEW good \in BOOLEAN, good => c.sound,
           NEW f \in Read(e, some, good)
    PROVE  f \in Downloader /\ Proper(f) /\ Held(f, w, j, c) /\ (f = e \/ e.state = "VERIFY_READ")
  <1>1. CASE f = e
    BY <1>1
  <1>2. CASE e.state = "VERIFY_READ" /\ f \in FinishFailure(e)
    <2>1. ~e.failure_pending
      BY <1>2 DEF Proper
    <2>2. f \in Downloader /\ Ended(f)
      BY <1>2, <2>1, FinishEnded
    <2>3. QED  BY <1>2, <2>2, EndedHeld
  <1>3. CASE /\ e.state = "VERIFY_READ"
             /\ f = [e EXCEPT !.read_size = @ + 1, !.crc_ok = @ /\ good]
    <2> DEFINE n == e.read_size + 1
               b == e.crc_ok /\ good
               g == [e EXCEPT !.read_size = n]
    <2>1. f = [g EXCEPT !.crc_ok = b]
      BY <1>3
    <2>2. n \in Nat /\ b \in BOOLEAN /\ (b => c.sound)
      BY DEF Downloader
    <2> HIDE DEF n, b
    <2>3. /\ g \in Downloader /\ g.state = e.state /\ g.link = e.link /\ g.settings = e.settings
          /\ g.listed = e.listed /\ g.failure_pending = e.failure_pending
      BY <2>2, PutRead
    <2> HIDE DEF g
    <2>4. /\ f \in Downloader /\ f.state = e.state /\ f.link = e.link /\ f.settings = e.settings
          /\ f.listed = e.listed /\ f.failure_pending = e.failure_pending /\ f.crc_ok = b
      BY <2>1, <2>2, <2>3, PutCrc
    <2>5. Proper(f) /\ OnWire(f) = OnWire(e) /\ Behind(f) = Behind(e)
      BY <2>4 DEF Proper, OnWire, Behind, Place
    <2>6. Aged(f, w)
      BY <2>4, <2>5 DEF Held, Aged, Mine
    <2>7. Storing(f, w, j) /\ Vouched(f, w, c)
      BY <2>4, <2>5 DEF Held, Storing, Vouched
    <2>8. ReadAlone(f, w, c)
      BY <2>2, <2>4, <2>5 DEF Held, ReadAlone
    <2>9. QED  BY <1>3, <2>4, <2>5, <2>6, <2>7, <2>8 DEF Held
  <1>4. QED  BY <1>1, <1>2, <1>3 DEF Read

(* The listing that counts is the downloader's own, and the last command   *)
(* the modem had.                                                          *)
LEMMA ListedHeld ==
    ASSUME Backlog <= Settings + 4, DownloadInv, wire # <<>>, Live(Head1), Head1.cmd = "FILE_LIST",
           HeadStage("ok"), file.there
    PROVE  /\ Listed(d) \in Downloader /\ Proper(Listed(d)) /\ Held(Listed(d), wire', job, file)
           /\ Listed(d) = d \/ download = "waiting"
  <1>1. /\ d \in Downloader /\ Proper(d) /\ Held(d, wire, job, file) /\ wire \in Seq(Entry)
    BY DownloadFacts
  <1>2. /\ wire' \in Seq(Entry) /\ Len(wire') = Len(wire) /\ Fades(wire, wire')
        /\ wire'[1].cmd = "FILE_LIST" /\ wire'[1].stage = "ok"
    BY StagedHead DEF Stage
  <1>3. Held(d, wire', job, file)
    BY <1>1, <1>2, FadesHeld
  <1>4. CASE d.state # "FILE_LIST"
    BY <1>1, <1>3, <1>4 DEF Listed
  <1>5. CASE d.state = "FILE_LIST"
    <2> DEFINE x == IF file.chunks = Chunks THEN "whole" ELSE "short"
               f == [d EXCEPT !.listed = x]
    <2>1. Listed(d) = f
      BY <1>5 DEF Listed
    <2>2. x \in {"no", "short", "whole"} /\ (x = "whole" => file.chunks = Chunks)
      OBVIOUS
    <2> HIDE DEF x
    <2>3. /\ f \in Downloader /\ f.listed = x /\ f.state = "FILE_LIST" /\ f.link = d.link
          /\ f.settings = d.settings /\ f.failure_pending = d.failure_pending
      BY <1>1, <1>5, <2>2, PutListed
    <2> HIDE DEF f
    <2>4. OnWire(d) /\ Len(wire) = 1
      BY <1>5, AtHead DEF Late
    <2>5. download = "waiting"
      BY <2>4, DownloadFacts DEF OnWire
    <2>6. Proper(f) /\ OnWire(f) /\ Behind(f) = Behind(d)
      BY <1>1, <1>5, <2>3, <2>4 DEF Proper, OnWire, Behind, Place, Resting
    <2>7. Aged(f, wire')
      BY <1>3, <1>5, <2>3, <2>4, <2>6 DEF Held, Aged, Mine
    <2>8. Storing(f, wire', job)
      BY <1>3, <1>5, <2>3 DEF Held, Storing
    <2>9. Vouched(f, wire', file)
      BY <1>2, <2>2, <2>3, <2>4 DEF Vouched
    <2>10. ReadAlone(f, wire', file)
      BY <2>3 DEF ReadAlone, Reading
    <2>11. QED  BY <2>1, <2>3, <2>5, <2>6, <2>7, <2>8, <2>9, <2>10 DEF Held
  <1>6. QED  BY <1>4, <1>5

LEMMA ObeysKeeps == Backlog <= Settings + 4 /\ DownloadInv /\ Obeys => DownloadInv'
  <1> SUFFICES ASSUME Backlog <= Settings + 4, DownloadInv, Obeys PROVE DownloadInv'
    OBVIOUS
  <1>1. /\ d \in Downloader /\ Proper(d) /\ Held(d, wire, job, file) /\ Over /\ wire \in Seq(Entry)
        /\ Len(wire) <= Backlog /\ Len(wire) \in Nat
    BY DownloadFacts
  <1>2. /\ wire # <<>> /\ Live(Head1) /\ HeadStage("ok") /\ "ok" \in Stage
        /\ UNCHANGED <<download, gate>>
    BY DEF Obeys, Ready, Live, Stage
  <1>3. /\ wire' \in Seq(Entry) /\ Len(wire') = Len(wire) /\ Len(wire') <= Backlog
        /\ Fades(wire, wire') /\ wire'[1].stage = "ok"
    BY <1>1, <1>2, StagedHead
  <1>4. Held(d, wire', job, file)
    BY <1>1, <1>3, FadesHeld
  <1> DEFINE Job == Fetch \cup {"none"}
             File == [chunks : Nat, sound : BOOLEAN, there : BOOLEAN]
  <1>5. ASSUME d' \in Downloader, Proper(d'), Held(d', wire', job', file'),
               d' = d \/ download = "waiting", job' \in Job, file' \in File, pos' \in Nat,
               download = "recorded" => job' # "DIRECT_STORE"
        PROVE  DownloadInv'
    <2>1. Over'
      BY <1>2, <1>5, StillOver
    <2>2. QED  BY <1>2, <1>3, <1>5, <2>1, ModemTypes DEF DownloadInv, DownloadTypeOK
  <1>6. /\ pos \in Nat /\ job \in Job /\ file \in File
        /\ download = "recorded" => job # "DIRECT_STORE" /\ wire = <<>>
    BY <1>1, ModemTypes DEF Over
  <1>7. Head1.cmd \notin Reading => d.state \notin Reading /\ d.listed # "whole"
    BY <1>2, HeadApart
  <1>8. CASE job' = "none" /\ UNCHANGED <<d, file, pos>>
    <2>1. Held(d', wire', job', file')
      BY <1>4, <1>8, JobHeld
    <2>2. QED  BY <1>1, <1>5, <1>6, <1>8, <2>1
  <1>9. CASE UNCHANGED <<d, modemvars>>
    BY <1>1, <1>4, <1>5, <1>6, <1>9 DEF modemvars
  <1>10. CASE /\ Head1.cmd \in {"FILE_DELETE", "FAILURE_DELETE"}
              /\ file' = NoFile /\ pos' = 0 /\ UNCHANGED <<d, job>>
    <2>1. d.state \notin Reading /\ d.listed # "whole"
      BY <1>7, <1>10 DEF Reading
    <2>2. Held(d', wire', job', file')
      BY <1>4, <1>10, <2>1, FileHeld
    <2>3. NoFile \in File
      BY DEF NoFile
    <2>4. QED  BY <1>1, <1>5, <1>6, <1>10, <2>2, <2>3
  <1>11. CASE /\ Head1.cmd \in {"DIRECT_GET", "DIRECT_STORE", "RANGE_GET"}
              /\ job' = Head1.cmd /\ UNCHANGED <<d, file, pos>>
    <2>1. CASE Head1.cmd # "DIRECT_STORE"
      <3>1. Held(d', wire', job', file')
        BY <1>4, <1>11, <2>1, JobHeld
      <3>2. QED  BY <1>1, <1>5, <1>6, <1>11, <2>1, <3>1 DEF Fetch
    <2>2. CASE Head1.cmd = "DIRECT_STORE"
      <3>1. d.state \in Late \cup {"DIRECT_STORE"} =>
               OnWire(d) /\ Len(wire) = 1 /\ d.state = "DIRECT_STORE"
        BY <1>2, <2>2, AtHead
      <3>2. d.state = "DIRECT_STORE" => OnWire(d) /\ NoStore(wire')
        <4> SUFFICES ASSUME d.state = "DIRECT_STORE", NEW i \in 1..Len(wire')
                     PROVE  ~Live(wire'[i])
          BY <3>1 DEF NoStore
        <4>1. Len(wire) = 1
          BY <3>1
        <4>2. i = 1
          BY <1>3, <4>1
        <4>3. QED  BY <1>3, <4>2 DEF Live
      <3>3. d.state \notin Late
        BY <3>1 DEF Late, Reading
      <3>4. Storing(d, wire', job')
        BY <3>2, <3>3 DEF Storing
      <3>5. Held(d', wire', job', file')
        BY <1>4, <1>11, <3>4 DEF Held
      <3>6. QED  BY <1>1, <1>2, <1>5, <1>6, <1>11, <2>2, <3>5 DEF Fetch
    <2>3. QED  BY <2>1, <2>2
  <1>12. CASE /\ d' \in Received(d) /\ job' = "RANGE_READ" /\ UNCHANGED <<file, pos>>
    <2>1. /\ d' \in Downloader /\ Proper(d') /\ Held(d', wire', job, file)
          /\ d' = d \/ d.state = "RANGE_READ"
      BY <1>1, <1>3, <1>4, <1>12, ReceivedHeld
    <2>2. Held(d', wire', job', file')
      BY <1>12, <2>1, JobHeld
    <2>3. d.state = "RANGE_READ" => download = "waiting"
      BY <1>1 DEF Over, busy
    <2>4. QED  BY <1>5, <1>6, <1>12, <2>1, <2>2, <2>3 DEF Fetch
  <1>13. CASE /\ Head1.cmd = "RANGE_OPEN" /\ file' = [NoFile EXCEPT !.there = TRUE]
              /\ d' = Opened(d) /\ UNCHANGED <<job, pos>>
    <2>1. d.state \notin Reading /\ d.listed # "whole"
      BY <1>7, <1>13 DEF Reading
    <2>2. Held(d, wire', job', file')
      BY <1>4, <1>13, <2>1, FileHeld
    <2>3. d' \in Downloader /\ Pose(d', d) /\ (d' = d \/ download = "waiting")
      BY <1>13, OpenedPose
    <2>4. Proper(d') /\ Held(d', wire', job', file')
      BY <1>1, <2>2, <2>3, PoseHeld
    <2>5. file' \in File
      BY <1>13 DEF NoFile
    <2>6. QED  BY <1>5, <1>6, <1>13, <2>3, <2>4, <2>5
  <1>14. CASE /\ Head1.cmd = "RANGE_WRITE"
              /\ \E good \in BOOLEAN :
                    file' = [file EXCEPT !.chunks = @ + 1, !.sound = @ /\ good]
              /\ d' = Wrote(d, file'.chunks) /\ UNCHANGED <<job, pos>>
    <2>1. d.state \notin Reading /\ d.listed # "whole"
      BY <1>7, <1>14 DEF Reading
    <2>2. Held(d, wire', job', file')
      BY <1>4, <1>14, <2>1, FileHeld
    <2>3. file' \in File
      <3>1. PICK good \in BOOLEAN : file' = [file EXCEPT !.chunks = @ + 1, !.sound = @ /\ good]
        BY <1>14
      <3> DEFINE n == file.chunks + 1
                 b == file.sound /\ good
                 f1 == [file EXCEPT !.chunks = n]
      <3>2. n \in Nat /\ b \in BOOLEAN /\ file' = [f1 EXCEPT !.sound = b]
        BY <1>6, <3>1
      <3> HIDE DEF n, b
      <3>3. f1 \in File
        BY <1>6, <3>2
      <3> HIDE DEF f1
      <3>4. QED  BY <3>2, <3>3
    <2>4. d' \in Downloader /\ Pose(d', d) /\ (d' = d \/ download = "waiting")
      BY <1>14, <2>3, WrotePose
    <2>5. Proper(d') /\ Held(d', wire', job', file')
      BY <1>1, <2>2, <2>4, PoseHeld
    <2>6. QED  BY <1>5, <1>6, <1>14, <2>3, <2>4, <2>5
  <1>15. CASE Head1.cmd = "FILE_LIST" /\ file.there /\ d' = Listed(d) /\ UNCHANGED modemvars
    <2>1. UNCHANGED <<job, file, pos>>
      BY <1>15 DEF modemvars
    <2>2. /\ d' \in Downloader /\ Proper(d') /\ Held(d', wire', job, file)
          /\ d' = d \/ download = "waiting"
      BY <1>2, <1>15, ListedHeld
    <2>3. QED  BY <1>5, <1>6, <2>1, <2>2
  <1>16. CASE d' = Opened(d) /\ pos' = 0 /\ UNCHANGED <<job, file>>
    <2>1. d' \in Downloader /\ Pose(d', d) /\ (d' = d \/ download = "waiting")
      BY <1>16, OpenedPose
    <2>2. Proper(d') /\ Held(d', wire', job', file')
      BY <1>1, <1>4, <1>16, <2>1, PoseHeld
    <2>3. QED  BY <1>5, <1>6, <1>16, <2>1, <2>2
  <1>17. CASE /\ \E clean \in BOOLEAN : d' \in Read(d, pos < file.chunks, clean /\ file.sound)
              /\ pos' = IF pos < file.chunks THEN pos + 1 ELSE pos
              /\ UNCHANGED <<job, file>>
    <2> DEFINE some == pos < file.chunks
    <2>1. PICK clean \in BOOLEAN : d' \in Read(d, some, clean /\ file.sound)
      BY <1>17
    <2> DEFINE good == clean /\ file.sound
    <2>good. good \in BOOLEAN /\ (good => file.sound) /\ d' \in Read(d, some, good)
      BY <2>1
    <2> HIDE DEF some, good
    <2>2. /\ d' \in Downloader /\ Proper(d') /\ Held(d', wire', job, file)
          /\ d' = d \/ d.state = "VERIFY_READ"
      BY <1>1, <1>3, <1>4, <1>6, <2>good, ReadHeld
    <2>3. d.state = "VERIFY_READ" => download = "waiting"
      BY <1>1 DEF Over, busy
    <2>4. pos' \in Nat
      BY <1>6, <1>17
    <2>5. QED  BY <1>5, <1>6, <1>17, <2>2, <2>3, <2>4
  <1>18. QED
    BY <1>8, <1>9, <1>10, <1>11, <1>12, <1>13, <1>14, <1>15, <1>16, <1>17 DEF Obeys

LEMMA DownloadStep ==
    Backlog <= Settings + 4 /\ DownloadInv /\ [DownloadNext]_downloadvars => DownloadInv'
  <1> SUFFICES ASSUME Backlog <= Settings + 4, DownloadInv, [DownloadNext]_downloadvars
               PROVE  DownloadInv'
    OBVIOUS
  <1>1. CASE UNCHANGED downloadvars
    BY <1>1 DEF downloadvars, DownloadInv, DownloadTypeOK, Over, busy
  <1>2. CASE \E direct \in BOOLEAN : StartDownload(direct)
    BY <1>2, StartDownloadKeeps
  <1>3. CASE Task
    BY <1>3, SendPayloadKeeps, NextRangeKeeps, NextReadKeeps, VerifyKeeps, TakeFailureKeeps DEF Task
  <1>4. CASE Modem
    BY <1>4, PromptsKeeps, RefusesKeeps, ObeysKeeps, ResultLineKeeps, JobEndsKeeps, LostKeeps
       DEF Modem
  <1>5. CASE StartCommand \/ Timeout \/ Quarantine \/ OnModemReset
    BY <1>5, StartCommandKeeps, TimeoutKeeps, QuarantineKeeps, ResetKeeps
  <1>6. QED  BY <1>1, <1>2, <1>3, <1>4, <1>5 DEF DownloadNext

LEMMA DownloadBegins == DownloadInit => DownloadInv
  <1> SUFFICES ASSUME DownloadInit PROVE DownloadInv
    OBVIOUS
  <1>1. d \in Downloader
    BY DEF DownloadInit, Downloader, State, Link
  <1>2. /\ d.state = "IDLE" /\ d.link = "none" /\ d.listed = "no" /\ ~d.failure_pending
        /\ wire = <<>> /\ job = "none" /\ file = NoFile /\ pos = 0 /\ gate = TRUE /\ download = "idle"
    BY DEF DownloadInit
  <1>3. wire \in Seq(Entry) /\ Len(wire) <= Backlog
    BY <1>2, DownloadAssumption
  <1>4. Proper(d) /\ Held(d, wire, job, file)
    <2>1. /\ d.state \in {"IDLE", "ERROR"} /\ d.link = "none" /\ d.listed # "whole"
          /\ d.failure_pending => d.state = "ERROR"
      BY <1>2
    <2>2. QED  BY <1>3, <2>1, RestHeld
  <1>5. Over
    BY <1>2 DEF Over, busy
  <1>6. file \in [chunks : Nat, sound : BOOLEAN, there : BOOLEAN]
    BY <1>2 DEF NoFile
  <1>7. QED  BY <1>1, <1>2, <1>3, <1>4, <1>5, <1>6 DEF DownloadInv, DownloadTypeOK

-----------------------------------------------------------------------------
(* Every step of the download is one the abstract transfer may take.       *)
LEMMA StillTransfer ==
    ASSUME UNCHANGED download, download = "recorded" => UNCHANGED file
    PROVE  [Transfer!Next]_(Transfer!vars)
  <1>1. CASE download = "recorded"
    BY <1>1 DEF Transfer!vars, Whole
  <1>2. CASE download # "recorded"
    <2>1. Whole' \in BOOLEAN
      BY DEF Whole
    <2>2. QED  BY <1>2, <2>1 DEF Transfer!Next, Transfer!Change
  <1>3. QED  BY <1>1, <1>2

LEMMA GivenUpTransfer ==
    ASSUME download = "waiting", download' \in {"waiting", "failed"}, UNCHANGED file
    PROVE  [Transfer!Next]_(Transfer!vars)
  <1>1. Whole' = Whole
    BY DEF Whole
  <1>2. CASE download' = "waiting"
    BY <1>1, <1>2 DEF Transfer!vars
  <1>3. CASE download' = "failed"
    BY <1>1, <1>3 DEF Transfer!Next, Transfer!GiveUp
  <1>4. QED  BY <1>2, <1>3

LEMMA BegunTransfer ==
    ASSUME DownloadInv, NEW direct \in BOOLEAN, StartDownload(direct)
    PROVE  [Transfer!Next]_(Transfer!vars)
  <1>1. download # "waiting" /\ download' \in {"waiting", "failed"} /\ UNCHANGED file
    BY DEF StartDownload, modemvars
  <1>2. Whole' = Whole
    BY <1>1 DEF Whole
  <1>3. QED  BY <1>1, <1>2 DEF Transfer!Next, Transfer!Begin

LEMMA VerifiedTransferStep ==
    ASSUME DownloadInv, Verify
    PROVE  [Transfer!Next]_(Transfer!vars)
  <1>1. download = "waiting" /\ d.state = "VERIFY" /\ UNCHANGED file
    BY DEF Verify, modemvars
  <1>2. CASE \E e \in FallbackOrFail(d, "integrity") : Taken(e)
    <2>1. download' \in {"waiting", "failed"}
      BY <1>1, <1>2 DEF Taken
    <2>2. QED  BY <1>1, <2>1, GivenUpTransfer
  <1>3. CASE ReadBack(d) /\ download' = "failed"
    BY <1>1, <1>3, GivenUpTransfer
  <1>4. CASE ReadBack(d) /\ download' = "recorded"
    <2>1. d.read_size = Chunks /\ d.crc_ok
      BY <1>4 DEF ReadBack
    <2>2. file.there /\ file.chunks = Chunks /\ file.sound
      <3>1. ReadAlone(d, wire, file) /\ d.state \in Reading /\ d.state # "VERIFY_OPEN"
        BY <1>1, DownloadFacts DEF Held, Reading
      <3>2. d.read_size > 0
        BY <2>1, DownloadAssumption
      <3>3. QED  BY <2>1, <3>1, <3>2 DEF ReadAlone
    <2>3. Whole /\ Whole'
      BY <1>1, <2>2 DEF Whole
    <2>4. QED  BY <1>1, <1>4, <2>3 DEF Transfer!Next, Transfer!Accept
  <1>5. QED  BY <1>2, <1>3, <1>4 DEF Verify

LEMMA DownloadStepTransfer ==
    DownloadInv /\ [DownloadNext]_downloadvars => [Transfer!Next]_(Transfer!vars)
  <1> SUFFICES ASSUME DownloadInv, [DownloadNext]_downloadvars
               PROVE  [Transfer!Next]_(Transfer!vars)
    OBVIOUS
  <1>1. download = "recorded" => wire = <<>> /\ job # "DIRECT_STORE"
    BY DownloadFacts DEF Over
  <1>2. CASE \E direct \in BOOLEAN : StartDownload(direct)
    BY <1>2, BegunTransfer
  <1>3. CASE Verify
    BY <1>3, VerifiedTransferStep
  <1>4. CASE TakeFailure \/ NextRange \/ NextRead
    <2>1. download = "waiting" /\ download' \in {"waiting", "failed"} /\ UNCHANGED file
      BY <1>4 DEF TakeFailure, NextRange, NextRead, Taken, modemvars
    <2>2. QED  BY <2>1, GivenUpTransfer
  <1>5. CASE OnModemReset
    <2>1. UNCHANGED file /\ download' = IF download = "waiting" THEN "failed" ELSE download
      BY <1>5 DEF OnModemReset
    <2>2. QED  BY <2>1, GivenUpTransfer, StillTransfer
  <1>6. CASE UNCHANGED downloadvars \/ SendPayload \/ StartCommand \/ Timeout \/ Quarantine
    <2>1. UNCHANGED <<download, file>>
      BY <1>6 DEF downloadvars, SendPayload, StartCommand, Timeout, Quarantine, modemvars
    <2>2. QED  BY <2>1, StillTransfer
  <1>7. CASE Prompts \/ Refuses \/ ResultLine \/ Lost
    <2>1. UNCHANGED <<download, file>>
      BY <1>7 DEF Prompts, Refuses, ResultLine, Lost, modemvars
    <2>2. QED  BY <2>1, StillTransfer
  <1>8. CASE Obeys
    <2>1. UNCHANGED download /\ wire # <<>>
      BY <1>8 DEF Obeys, Ready
    <2>2. QED  BY <1>1, <2>1, StillTransfer
  <1>9. CASE JobEnds
    <2>1. UNCHANGED download /\ (job # "DIRECT_STORE" => UNCHANGED file)
      BY <1>9 DEF JobEnds
    <2>2. QED  BY <1>1, <2>1, StillTransfer
  <1>10. QED
    BY <1>2, <1>3, <1>4, <1>5, <1>6, <1>7, <1>8, <1>9 DEF DownloadNext, Task, Modem

LEMMA DownloadBeginsTransfer == DownloadInit => Transfer!Init
  BY DEF DownloadInit, Transfer!Init, Whole, NoFile

(* The App records an image for the boot loader only while the file that   *)
(* holds it is whole, and nothing the modem still has to do changes that   *)
(* file afterwards (commit_verified_candidate after ST_VERIFY), as long as *)
(* the modem owes no more answers than a session has commands before it    *)
(* asks for the file.                                                      *)
THEOREM DownloadsImplementTransfer ==
    ASSUME Backlog <= Settings + 4
    PROVE  DownloadSpec => ImplementsVerifiedTransfer
  <1>1. DownloadInit => DownloadInv
    BY DownloadBegins
  <1>2. DownloadInv /\ [DownloadNext]_downloadvars => DownloadInv'
    BY DownloadStep
  <1>3. DownloadInit => Transfer!Init
    BY DownloadBeginsTransfer
  <1>4. DownloadInv /\ [DownloadNext]_downloadvars => [Transfer!Next]_(Transfer!vars)
    BY DownloadStepTransfer
  <1>5. QED
    BY <1>1, <1>2, <1>3, <1>4, PTL DEF DownloadSpec, ImplementsVerifiedTransfer, Transfer!Spec
=============================================================================
