----------------------------- MODULE OtaLifecycle -----------------------------
(***************************************************************************)
(* The life of an App image: the App stages a candidate in a UFS slot and  *)
(* asks for its installation, the Boot installs it, tries it, and returns  *)
(* to the stable image when it fails.                                      *)
(*                                                                         *)
(*   Boot: components/boot_v2/src/abox_boot_v2_boot.c and the installer    *)
(*         of targets/stm32f105_abox_boot/Core/User/Src/ota_core.c         *)
(*   App:  components/boot_v2/src/abox_boot_v2_app.c                       *)
(*                                                                         *)
(* The processor runs one of the two at a time; they share the Boot State  *)
(* record, the two UFS slots, the App area of the Flash, the fault mailbox *)
(* and the reset flags.  The record is the atomic one of AtomicRecord (see *)
(* BootState): a save is one step that may fail, with or without effect.   *)
(***************************************************************************)
EXTENDS Naturals

CONSTANTS Image,        \* the App images: size, CRC and vector table agree
          NoImage,      \* image size 0: the record names no image
          Bad,          \* a content of Flash or of a slot that is no image
          NoRecord,     \* no valid page
          Factory,      \* the image programmed with the Boot
          Faulty,       \* images that never run long enough to be confirmed
          Misnamed,     \* images released under a version they do not report
          ReadyGate,    \* whether the product asks IsReady before it calls Start
          MaxFaults     \* bound on injected faults

VARIABLES rec,           \* the Boot State record, what StateLoad answers
          flash,         \* the App area of the Flash
          ufs,           \* the two UFS slots
          mailbox,       \* FaultValid(): a fault was recorded in no-init RAM
          rcc,           \* whether the reset flags name the watchdog
          pc,            \* "app", or the step the Boot is at
          r,             \* the Boot's copy of the record
          reset_reason,  \* g_reset_reason of the Boot
          attempted,     \* g_attempted of the Boot: one install per boot
          app,           \* the App's staging context
          faults         \* injected faults so far

bootvars == <<r, reset_reason, attempted>>
vars == <<rec, flash, ufs, mailbox, rcc, pc, r, reset_reason, attempted, app, faults>>

Slot == {0, 1}
TRIAL_FAILURE_LIMIT == 3

States == {"NORMAL", "INSTALL_PENDING", "INSTALLING", "TRIAL", "CONFIRMED", "ROLLBACK"}

(* ABoxBootV2Record.  An image stands for its size, its CRC and its        *)
(* version; `named` says that the version recorded is the one it reports.  *)
Record == [state : States,
           stable_slot : Slot, candidate_slot : Slot,
           trial_fail_count : 0..TRIAL_FAILURE_LIMIT,
           image : Image \cup {NoImage}, image_named : BOOLEAN,
           stable_image : Image \cup {NoImage}, stable_named : BOOLEAN,
           rollback_report_pending : BOOLEAN, rollback_installed : BOOLEAN]

ASSUME OtaAssumption ==
    /\ NoImage \notin Image /\ Bad \notin Image /\ NoImage # Bad
    /\ NoRecord \notin Record
    /\ Factory \in Image
    /\ Faulty \subseteq Image /\ Misnamed \subseteq Image
    /\ ReadyGate \in BOOLEAN
    /\ MaxFaults \in Nat

(* memset(&state, 0, sizeof(state))                                        *)
ZeroRecord == [state |-> "NORMAL", stable_slot |-> 0, candidate_slot |-> 0,
               trial_fail_count |-> 0,
               image |-> NoImage, image_named |-> FALSE,
               stable_image |-> NoImage, stable_named |-> FALSE,
               rollback_report_pending |-> FALSE, rollback_installed |-> FALSE]

Loaded == IF rec = NoRecord THEN ZeroRecord ELSE rec
StableKnown(s) == s.stable_image # NoImage

(* The record that makes the stable image the current one again.           *)
StableAgain(s) == [s EXCEPT !.state = "CONFIRMED",
                            !.candidate_slot = s.stable_slot,
                            !.image = s.stable_image,
                            !.image_named = s.stable_named]

AppPhase == {"probe", "idle", "stop", "fill", "verified", "error"}
AppContext == [phase : AppPhase, checked : BOOLEAN, seeding : BOOLEAN, slot : Slot,
               want : Image \cup {NoImage}, named : BOOLEAN, install_ready : BOOLEAN]

(* ABoxBootV2App_Init and the start of provisioning.                       *)
AppInit == [phase |-> "probe", checked |-> FALSE, seeding |-> FALSE, slot |-> 0,
            want |-> NoImage, named |-> FALSE, install_ready |-> FALSE]

Busy == app.phase \in {"stop", "fill", "verified"}

-----------------------------------------------------------------------------
(* An injected fault: a failing save or erase, a lost modem, a power loss. *)
Fault == /\ faults < MaxFaults
         /\ faults' = faults + 1

(* ABoxBootV2_StateSave(&s), seen through AtomicRecord.                    *)
SaveOk(s) == rec' = s /\ UNCHANGED faults
SaveFails(s) == Fault /\ rec' \in {rec, s}

(* jump_to_app: the App starts from reset, with a fresh staging context.   *)
Jump == /\ pc' = "app"
        /\ app' = AppInit
        /\ r' = NoRecord /\ reset_reason' = "other" /\ attempted' = FALSE

(* Back to the loop of Boot_Task, which loads the record again.            *)
NextLoop == /\ pc' = "task"
            /\ r' = NoRecord
            /\ UNCHANGED <<reset_reason, attempted, app>>

(* The processor resets; the Boot starts.                                  *)
Restart == /\ pc' = "init"
           /\ app' = AppInit
           /\ r' = NoRecord /\ reset_reason' = "other" /\ attempted' = FALSE

Init == /\ rec = NoRecord
        /\ flash = Factory
        /\ ufs = [s \in Slot |-> Bad]
        /\ mailbox = FALSE
        /\ rcc = "other"
        /\ pc = "init"
        /\ r = NoRecord
        /\ reset_reason = "other"
        /\ attempted = FALSE
        /\ app = AppInit
        /\ faults = 0

-----------------------------------------------------------------------------
(* Faulty variant: the flags are read and left set.                        *)
BootInitKeepsFlags == /\ pc = "init"
                      /\ pc' = "task"
                      /\ reset_reason' = rcc
                      /\ UNCHANGED <<rec, flash, ufs, mailbox, rcc, r, attempted, app, faults>>

(* The Boot.  BootInit reads the reset flags once and clears them.         *)
BootInit == /\ pc = "init"
            /\ pc' = "task"
            /\ reset_reason' = rcc /\ rcc' = "other"
            /\ UNCHANGED <<rec, flash, ufs, mailbox, r, attempted, app, faults>>

(* Boot_Task without a record: a plausible vector table is enough.         *)
BootWithoutRecord == /\ pc = "task" /\ rec = NoRecord
                     /\ flash # Bad
                     /\ Jump
                     /\ UNCHANGED <<rec, flash, ufs, mailbox, rcc, faults>>

InState(states) == pc = "task" /\ rec # NoRecord /\ rec.state \in states

BootConfirmed == /\ InState({"NORMAL", "CONFIRMED"})
                 /\ flash = rec.image
                 /\ Jump
                 /\ UNCHANGED <<rec, flash, ufs, mailbox, rcc, faults>>

(* trial(): one failed trial is a watchdog reset, a recorded fault or an   *)
(* image that is not in the Flash.                                         *)
TrialBad == reset_reason = "iwdg" \/ mailbox \/ flash # rec.image

TrialRuns == /\ InState({"TRIAL"}) /\ ~TrialBad
             /\ Jump
             /\ UNCHANGED <<rec, flash, ufs, mailbox, rcc, faults>>

(* Faulty variant: failures are never counted.                             *)
FailuresForgotten == rec.trial_fail_count
FailuresCounted == IF rec.trial_fail_count < TRIAL_FAILURE_LIMIT
                   THEN rec.trial_fail_count + 1 ELSE rec.trial_fail_count

FailedAgain == [rec EXCEPT !.trial_fail_count = FailuresCounted]
GivenUp == [rec EXCEPT !.trial_fail_count = FailuresCounted,
                       !.state = "ROLLBACK", !.rollback_installed = FALSE]

TrialFailed == /\ InState({"TRIAL"}) /\ TrialBad
               /\ mailbox' = FALSE
               /\ r' = IF FailuresCounted < TRIAL_FAILURE_LIMIT \/ ~StableKnown(rec)
                       THEN FailedAgain ELSE GivenUp
               /\ pc' = "trial_save"
               /\ UNCHANGED <<rec, flash, ufs, rcc, reset_reason, attempted, app, faults>>

(* The image is tried again whether the failure could be saved or not.     *)
TrialSave == /\ pc = "trial_save"
             /\ SaveOk(r) \/ SaveFails(r)
             /\ IF r.state = "TRIAL" /\ flash = r.image THEN Jump ELSE NextLoop
             /\ UNCHANGED <<flash, ufs, mailbox, rcc>>

(* install(): at most one attempt per boot.                                *)
Installing == [rec EXCEPT !.state = "INSTALLING"]

InstallBegin == /\ InState({"INSTALL_PENDING", "INSTALLING"}) /\ ~attempted
                /\ attempted' = TRUE
                /\ r' = Installing
                /\ pc' = "begin_save"
                /\ UNCHANGED <<rec, flash, ufs, mailbox, rcc, reset_reason, app, faults>>

StableInFlash == StableKnown(r) /\ flash = r.stable_image

InstallBeginSave ==
    /\ pc = "begin_save"
    /\ \/ /\ SaveOk(r)
          /\ pc' = "preflight"
          /\ UNCHANGED <<r, reset_reason, attempted, app>>
       \/ /\ SaveFails(r)
          /\ IF StableInFlash
             THEN /\ r' = StableAgain(r)
                  /\ pc' = "jump_save"
                  /\ UNCHANGED <<reset_reason, attempted, app>>
             ELSE NextLoop
    /\ UNCHANGED <<flash, ufs, mailbox, rcc>>

(* rollback(): an installed stable image runs, else it is installed.       *)
RollbackInstalled == /\ InState({"ROLLBACK"})
                     /\ rec.rollback_installed /\ flash = rec.stable_image
                     /\ Jump
                     /\ UNCHANGED <<rec, flash, ufs, mailbox, rcc, faults>>

(* Faulty variant: the one attempt per boot holds for rollbacks too.       *)
RollbackBeginOnce == /\ InState({"ROLLBACK"}) /\ ~attempted
                     /\ ~(rec.rollback_installed /\ flash = rec.stable_image)
                     /\ r' = rec
                     /\ pc' = "preflight"
                     /\ UNCHANGED <<rec, flash, ufs, mailbox, rcc, reset_reason, attempted, app, faults>>

RollbackBegin == /\ InState({"ROLLBACK"})
                 /\ ~(rec.rollback_installed /\ flash = rec.stable_image)
                 /\ r' = rec
                 /\ pc' = "preflight"
                 /\ UNCHANGED <<rec, flash, ufs, mailbox, rcc, reset_reason, attempted, app, faults>>

(* install_slot: what flash_program_image installs, and from which slot.   *)
InstallSlot == IF r.state = "ROLLBACK" THEN r.stable_slot ELSE r.candidate_slot
InstallImage == IF r.state = "ROLLBACK" THEN r.stable_image ELSE r.image

(* ufs_verify, the save before the erase, ufs_open and the Flash unlock.   *)
Preflight == /\ pc = "preflight"
             /\ ufs[InstallSlot] = InstallImage
             /\ pc' = "erase"
             /\ UNCHANGED <<rec, flash, ufs, mailbox, rcc, r, reset_reason, attempted, app, faults>>

(* A failed install becomes a rollback, a failed rollback stays one.       *)
InstallFailed == IF r.state = "ROLLBACK" THEN r
                 ELSE [r EXCEPT !.state = "ROLLBACK", !.rollback_installed = FALSE]

PreflightFails == /\ pc = "preflight"
                  /\ \/ ufs[InstallSlot] # InstallImage /\ UNCHANGED faults
                     \/ Fault
                  /\ IF r.state = "INSTALLING" /\ StableInFlash
                     THEN r' = StableAgain(r) /\ pc' = "jump_save"
                     ELSE r' = InstallFailed /\ pc' = "plain_save"
                  /\ UNCHANGED <<rec, flash, ufs, mailbox, rcc, reset_reason, attempted, app>>

(* From here the App area may be half written: no way back to it.          *)
EraseApp == /\ pc = "erase"
            /\ flash' = Bad
            /\ pc' = "program"
            /\ UNCHANGED <<rec, ufs, mailbox, rcc, r, reset_reason, attempted, app, faults>>

EraseAppFails == /\ pc = "erase"
                 /\ Fault
                 /\ flash' \in {flash, Bad}
                 /\ r' = InstallFailed /\ pc' = "plain_save"
                 /\ UNCHANGED <<rec, ufs, mailbox, rcc, reset_reason, attempted, app>>

RolledBack == [r EXCEPT !.rollback_installed = TRUE, !.rollback_report_pending = TRUE]
OnTrialNow == [r EXCEPT !.state = "TRIAL", !.trial_fail_count = 0]

ProgramApp == /\ pc = "program"
              /\ flash' = InstallImage
              /\ IF r.state = "ROLLBACK"
                 THEN r' = RolledBack /\ UNCHANGED mailbox
                 ELSE r' = OnTrialNow /\ mailbox' = FALSE
              /\ pc' = "jump_save"
              /\ UNCHANGED <<rec, ufs, rcc, reset_reason, attempted, app, faults>>

ProgramAppFails == /\ pc = "program"
                   /\ Fault
                   /\ r' = InstallFailed /\ pc' = "plain_save"
                   /\ UNCHANGED <<rec, flash, ufs, mailbox, rcc, reset_reason, attempted, app>>

(* Faulty variant: the jump does not wait for the save.                    *)
JumpSaveRegardless == /\ pc = "jump_save"
                      /\ SaveOk(r) \/ SaveFails(r)
                      /\ Jump
                      /\ UNCHANGED <<flash, ufs, mailbox, rcc>>

(* A save that is followed by the jump only when it succeeded.             *)
JumpSave == /\ pc = "jump_save"
            /\ \/ SaveOk(r) /\ Jump
               \/ SaveFails(r) /\ NextLoop
            /\ UNCHANGED <<flash, ufs, mailbox, rcc>>

(* A save whose outcome nobody looks at.                                   *)
PlainSave == /\ pc = "plain_save"
             /\ SaveOk(r) \/ SaveFails(r)
             /\ NextLoop
             /\ UNCHANGED <<flash, ufs, mailbox, rcc>>

Boot == \/ BootInit \/ BootWithoutRecord \/ BootConfirmed
        \/ TrialRuns \/ TrialFailed \/ TrialSave
        \/ InstallBegin \/ InstallBeginSave
        \/ RollbackInstalled \/ RollbackBegin
        \/ Preflight \/ PreflightFails
        \/ EraseApp \/ EraseAppFails \/ ProgramApp \/ ProgramAppFails
        \/ JumpSave \/ PlainSave

-----------------------------------------------------------------------------
(* The App.  What runs is what the Flash holds.                            *)
shared == <<flash, ufs, mailbox, rcc, r, reset_reason, attempted>>
InApp == pc = "app" /\ UNCHANGED pc

(* provision_ready: the modem, its files and its TLS context answer.       *)
Provisioned == /\ InApp
               /\ app.phase = "probe"
               /\ app' = [app EXCEPT !.phase = "idle"]
               /\ UNCHANGED <<shared, rec, faults>>

(* ABoxBootV2App_Task starts provisioning over after an error.             *)
Reprovision == /\ InApp
               /\ app.phase = "error"
               /\ app' = [app EXCEPT !.phase = "probe"]
               /\ UNCHANGED <<shared, rec, faults>>

(* Faulty variants: a trial counts as settled, a rollback does.            *)
SettledOnTrial == Loaded.state \in {"NORMAL", "CONFIRMED", "TRIAL"}
SettledInRollback == Loaded.state \in {"NORMAL", "CONFIRMED", "ROLLBACK"}

(* No install and no rollback is under way; no record counts as settled.   *)
Settled == Loaded.state \in {"NORMAL", "CONFIRMED"}

(* stable_slot_needs_seed: the record does not name what runs.             *)
NeedsSeed == Loaded.stable_image # flash \/ ~Loaded.stable_named

(* The check made once, and begin_local_seed: slot 0 gets what runs.       *)
StableCheck == /\ InApp
               /\ app.phase = "idle" /\ ~app.checked
               /\ Settled
               /\ app' = IF NeedsSeed
                         THEN [app EXCEPT !.phase = "stop", !.checked = TRUE,
                                          !.seeding = TRUE, !.slot = 0,
                                          !.want = flash, !.named = TRUE]
                         ELSE [app EXCEPT !.checked = TRUE]
               /\ UNCHANGED <<shared, rec, faults>>

IsReady == /\ app.phase # "probe"
           /\ rec # NoRecord
           /\ StableKnown(rec)

(* A faulty variant: the next slot without the wrap.                       *)
OtherSlotNoWrap(slot) == slot + 1

OtherSlot(slot) == IF slot = 0 THEN 1 ELSE 0

(* ABoxBootV2App_Start, begin_request: a download to the other slot.  The  *)
(* product's callbacks run after App_Task in a poll, so a stable check     *)
(* that is due comes first; after an error none is.                        *)
Start(image) == /\ InApp
                /\ app.phase \in {"idle", "error"}
                /\ app.phase = "idle" => app.checked
                /\ ReadyGate => IsReady
                /\ Settled
                /\ app' = [app EXCEPT !.phase = "stop", !.seeding = FALSE,
                                      !.slot = OtherSlot(Loaded.stable_slot),
                                      !.want = image, !.named = (image \notin Misnamed)]
                /\ UNCHANGED <<shared, rec, faults>>

(* MQTT has stopped; the transfer deletes the file and opens it anew.      *)
OpenFile == /\ InApp
            /\ app.phase = "stop"
            /\ ufs' = [ufs EXCEPT ![app.slot] = Bad]
            /\ app' = [app EXCEPT !.phase = "fill"]
            /\ UNCHANGED <<rec, flash, mailbox, rcc, bootvars, faults>>

(* The whole file is there and its length, CRC and vector table agree.     *)
FileVerified == /\ InApp
                /\ app.phase = "fill"
                /\ ufs' = [ufs EXCEPT ![app.slot] = app.want]
                /\ app' = [app EXCEPT !.phase = "verified"]
                /\ UNCHANGED <<rec, flash, mailbox, rcc, bootvars, faults>>

(* download_fail, in the form it has for a seed and for a request.         *)
Failed == [app EXCEPT !.phase = "error", !.seeding = FALSE,
                      !.checked = app.checked /\ ~app.seeding]

DownloadFails == /\ InApp
                 /\ Busy
                 /\ app' = Failed
                 /\ UNCHANGED <<shared, rec, faults>>

(* commit_verified_candidate, on the record as it is now.                  *)
CommitRecord ==
    LET candidate == [Loaded EXCEPT !.candidate_slot = app.slot,
                                    !.image = app.want,
                                    !.image_named = app.named]
    IN  IF app.seeding
        THEN [candidate EXCEPT !.state = "CONFIRMED",
                               !.stable_slot = app.slot,
                               !.stable_image = app.want,
                               !.stable_named = app.named]
        ELSE [candidate EXCEPT !.state = "INSTALL_PENDING"]

Commit == /\ InApp
          /\ app.phase = "verified"
          /\ \/ /\ SaveOk(CommitRecord)
                /\ app' = [app EXCEPT !.phase = "idle", !.seeding = FALSE,
                                      !.install_ready = ~app.seeding]
             \/ SaveFails(CommitRecord) /\ app' = Failed
          /\ UNCHANGED shared

(* TakeInstallReady: the product restarts into the Boot.                   *)
InstallRestart == /\ pc = "app"
                  /\ app.install_ready
                  /\ Restart
                  /\ UNCHANGED <<rec, flash, ufs, mailbox, rcc, faults>>

(* ABoxBootV2_Confirm, called by a product whose image works.              *)
ConfirmedRecord == [rec EXCEPT !.state = "CONFIRMED",
                               !.stable_slot = rec.candidate_slot,
                               !.stable_image = rec.image,
                               !.stable_named = rec.image_named,
                               !.trial_fail_count = 0]

Confirm == /\ InApp
           /\ flash \notin Faulty
           /\ rec # NoRecord /\ rec.state = "TRIAL"
           /\ SaveOk(ConfirmedRecord) \/ SaveFails(ConfirmedRecord)
           /\ UNCHANGED <<shared, app>>

(* ABoxBootV2_AcknowledgeRollback, called once the platform heard of it.   *)
(* Faulty variant: the record goes on naming the rejected candidate.       *)
AcknowledgedInPlace == [rec EXCEPT !.state = "CONFIRMED",
                                   !.rollback_report_pending = FALSE,
                                   !.rollback_installed = FALSE]
AcknowledgedRecord == [StableAgain(rec) EXCEPT !.rollback_report_pending = FALSE,
                                               !.rollback_installed = FALSE]

AcknowledgeRollback ==
    /\ InApp
    /\ rec # NoRecord /\ rec.rollback_report_pending
    /\ rec.state = "ROLLBACK" /\ rec.rollback_installed /\ StableKnown(rec)
    /\ SaveOk(AcknowledgedRecord) \/ SaveFails(AcknowledgedRecord)
    /\ UNCHANGED <<shared, app>>

(* ABoxBootV2App_OnModemReset.                                             *)
ModemReset == /\ InApp
              /\ Fault
              /\ app' = [app EXCEPT !.phase = "probe", !.seeding = FALSE, !.checked = FALSE]
              /\ UNCHANGED <<shared, rec>>

(* A hard fault records itself in the mailbox and resets; a hang ends in a *)
(* watchdog reset.  A faulty image does so at will, another as a fault.    *)
MayFail == (flash \in Faulty /\ UNCHANGED faults) \/ Fault

AppFaults == /\ pc = "app" /\ MayFail
             /\ mailbox' = TRUE
             /\ Restart
             /\ UNCHANGED <<rec, flash, ufs, rcc>>

AppHangs == /\ pc = "app" /\ MayFail
            /\ rcc' = "iwdg"
            /\ Restart
            /\ UNCHANGED <<rec, flash, ufs, mailbox>>

(* The reset pin keeps the no-init RAM and unread reset flags, a power     *)
(* loss keeps neither.                                                     *)
PinReset == /\ Fault
            /\ Restart
            /\ UNCHANGED <<rec, flash, ufs, mailbox, rcc>>

PowerLoss == /\ Fault
             /\ Restart
             /\ mailbox' = FALSE /\ rcc' = "other"
             /\ UNCHANGED <<rec, flash, ufs>>

App == \/ Provisioned \/ Reprovision \/ StableCheck
       \/ \E image \in Image : Start(image)
       \/ OpenFile \/ FileVerified \/ DownloadFails \/ Commit
       \/ InstallRestart \/ Confirm \/ AcknowledgeRollback
       \/ ModemReset \/ AppFaults \/ AppHangs

Next == Boot \/ App \/ PinReset \/ PowerLoss

Spec == Init /\ [][Next]_vars
-----------------------------------------------------------------------------
(* Type correctness of the record and of everything the two programs share. *)
TypeOK == /\ rec \in Record \cup {NoRecord}
          /\ flash \in Image \cup {Bad}
          /\ ufs \in [Slot -> Image \cup {Bad}]
          /\ mailbox \in BOOLEAN
          /\ rcc \in {"iwdg", "other"}
          /\ pc \in {"init", "task", "trial_save", "begin_save", "preflight", "erase",
                     "program", "jump_save", "plain_save", "app"}
          /\ r \in Record \cup {NoRecord}
          /\ reset_reason \in {"iwdg", "other"}
          /\ attempted \in BOOLEAN
          /\ app \in AppContext
          /\ faults \in 0..MaxFaults

(* The App that runs is an intact image, and the one the record says runs: *)
(* the candidate on trial, the confirmed image, the stable one while a     *)
(* rollback is reported or an install waits.  No App runs mid-install.     *)
RunsRecordedImage ==
    pc = "app" =>
        /\ flash \in Image
        /\ rec # NoRecord =>
            /\ rec.state \in {"NORMAL", "TRIAL", "CONFIRMED"} => flash = rec.image
            /\ rec.state = "ROLLBACK" => flash = rec.stable_image
            /\ rec.state = "INSTALL_PENDING" /\ StableKnown(rec) => flash = rec.stable_image
            /\ rec.state # "INSTALLING"

(* The App area is only ever unusable while the record says that an image  *)
(* is being installed (the Boot journals before it erases).                *)
ErasedOnlyInInstall ==
    flash = Bad => rec # NoRecord /\ rec.state \in {"INSTALLING", "ROLLBACK"}

StableSlotIntact ==
    rec # NoRecord /\ StableKnown(rec) => ufs[rec.stable_slot] = rec.stable_image

CandidateSlotIntact ==
    rec # NoRecord /\ rec.state \in {"INSTALL_PENDING", "INSTALLING", "TRIAL"}
        => /\ ufs[rec.candidate_slot] = rec.image
           /\ StableKnown(rec) => rec.candidate_slot # rec.stable_slot

(* Whatever the record would have the Boot install is whole in its slot:   *)
(* the stable image always, the candidate from its commit to its trial     *)
(* (begin_local_seed, begin_request, OnModemReset).                        *)
SlotsIntact == StableSlotIntact /\ CandidateSlotIntact

(* No device is left where the Boot finds nothing to run: a settled record *)
(* names what the Flash holds, and a rollback knows its stable image.      *)
NotStranded == rec # NoRecord =>
    /\ rec.state \in {"NORMAL", "CONFIRMED"} => flash = rec.image
    /\ rec.state = "ROLLBACK" => StableKnown(rec)

(* A rollback is left only by the App's acknowledgement of an installed    *)
(* stable image, never by the Boot, a seed or a new request.               *)
RollbackHeld ==
    [][(rec # NoRecord /\ rec.state = "ROLLBACK" /\ rec'.state # "ROLLBACK")
          => /\ pc = "app" /\ rec.rollback_installed
             /\ rec'.state = "CONFIRMED" /\ flash = rec'.image]_vars

(* The stable image changes only to an image that ran: by Confirm in its   *)
(* own trial or by a seed of what runs.                                    *)
StableOnlyFromRunning ==
    [][(rec' # rec /\ StableKnown(rec')
          /\ (rec = NoRecord \/ rec'.stable_image # rec.stable_image))
          => pc = "app" /\ rec'.stable_image = flash]_vars

-----------------------------------------------------------------------------
(* The Boot is one loop whose every call returns, and a faulty image does  *)
(* fault: nothing else has to happen.                                      *)
FaultyRuns == flash \in Faulty /\ (AppFaults \/ AppHangs)

Fairness == WF_vars(Boot) /\ WF_vars(FaultyRuns)

(* An install whose attempt could not be recorded waits for the next boot, *)
(* which nothing in the Boot brings about.                                 *)
WaitsForReset == pc = "task" /\ attempted /\ rec # NoRecord
                   /\ rec.state \in {"INSTALL_PENDING", "INSTALLING"}

(* The Boot always ends up running an App, unless it waits for a reset.    *)
BootReachesApp == []<>(pc = "app" \/ WaitsForReset)

(* A candidate that never works is given up: the stable image runs again   *)
(* and the rollback is there to be reported.                               *)
FaultyRolledBack ==
    (rec # NoRecord /\ rec.state = "TRIAL" /\ rec.image \in Faulty)
        ~> (/\ pc = "app" /\ rec # NoRecord
            /\ rec.state = "ROLLBACK" /\ rec.rollback_report_pending
            /\ flash = rec.stable_image)
=============================================================================
