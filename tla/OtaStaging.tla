----------------------------- MODULE OtaStaging -----------------------------
(***************************************************************************)
(* The App's half of an OTA: it provisions the modem (capabilities, CA     *)
(* file), keeps a copy of its own image in the stable slot, and downloads  *)
(* what the product asks for, with the MQTT session stopped and its        *)
(* receive buffer on loan.                                                 *)
(*                                                                         *)
(*   components/boot_v2/src/abox_boot_v2_app.c        the staging context  *)
(*   components/boot_v2/src/abox_boot_v2_services.c   MQTT and the loan    *)
(*                                                                         *)
(* The downloader is one state here (UfsDownload has its inside): it ends  *)
(* well or badly, and leaves commands behind.  As there, a command is      *)
(* cancelled without closing the AT session, and its untagged answer       *)
(* completes whatever runs by then.  The port is the platform's own, which *)
(* always offers mqtt_stop.  A file is a number of chunks and whether they *)
(* are the right ones.  Of the record it matters whether its stable image  *)
(* is the one that runs (which the seed puts into slot 0) and whether a    *)
(* candidate waits for the Boot.                                           *)
(***************************************************************************)
EXTENDS Naturals, Sequences

CONSTANTS Probes,     \* capability queries
          FileProbe,  \* the one a modem without QHTTPREADFILE may refuse
          CaChunks,   \* length of the CA file in pieces of 1024 bytes
          Chunks,     \* length of the running image in such pieces
          Unanswered  \* bound on the commands the modem has still to answer

ASSUME StagingAssumption ==
    /\ {Probes, CaChunks, Chunks, Unanswered} \subseteq Nat \ {0}
    /\ FileProbe \in 1..(Probes - 1)

VARIABLES g,         \* the staging context
          rec,       \* the boot record
          gate,      \* the AT client takes commands
          wire,      \* external: commands the modem has not finished with
          files,     \* external: the CA file and the stable slot in the modem
          pos        \* external: where each of them is read

stagingvars == <<g, rec, gate, wire, files, pos>>
modem == <<files, pos>>

-----------------------------------------------------------------------------
(* Commands are named by the state that submits them.                      *)
Provisioning == {"PROBE", "CA_OPEN", "CA_QUERY", "CA_READ", "CA_CLOSE", "CA_DELETE", "CA_UPLOAD"}
Seeding == {"FILE_DELETE", "FILE_OPEN", "FILE_WRITE", "FILE_CLOSE", "FILE_LIST",
            "VERIFY_OPEN", "VERIFY_READ", "VERIFY_CLOSE"}
Foreign == "DOWNLOADER"                  \* any command of the downloader
State == Provisioning \cup Seeding
         \cup {"WAIT", "IDLE", "MQTT_QUIESCE", "DOWNLOADER", "VERIFY", "RETRY"}
PayloadCommand == {"CA_UPLOAD", "FILE_WRITE"}

OnWire == g.link \notin {"none", "queued"}
(* At rest a handle may be noted too, but every beginning forgets it.      *)
Listens(e) == e.busy \/ e.state \in Provisioning

(* ABoxBootV2App_Init.  ST_RETRY and ST_ERROR differ in their delay only.  *)
Booted == [state |-> "WAIT", link |-> "none", provisioned |-> FALSE, busy |-> FALSE,
           seeding |-> FALSE, handle |-> "none", probe_index |-> 0,
           ca_repair_attempted |-> FALSE, ca_repair_pending |-> FALSE,
           ca_read_size |-> 0, ca_ok |-> TRUE, stable_checked |-> FALSE, listed |-> "no",
           downloaded |-> 0, read_size |-> 0, crc_ok |-> TRUE, written |-> 0,
           borrowed |-> FALSE, paused |-> FALSE, failure_pending |-> FALSE,
           install_ready |-> FALSE]

(* What every beginning sets again; it is cleared when the work before it  *)
(* ends, since nothing reads it in between.                                *)
Cleared(e) == [e EXCEPT !.link = "none", !.handle = "none", !.probe_index = 0,
                        !.ca_repair_attempted = FALSE, !.ca_repair_pending = FALSE,
                        !.ca_read_size = 0, !.ca_ok = TRUE, !.listed = "no",
                        !.downloaded = 0, !.read_size = 0, !.crc_ok = TRUE]

Resumed(e) == [e EXCEPT !.borrowed = FALSE, !.paused = FALSE]

ProvisionFailed(e) == [Cleared(e) EXCEPT !.provisioned = FALSE, !.state = "RETRY"]

(* Faulty variant: the failure of a transfer keeps the loan.               *)
DownloadFailedOnLoan(e) ==
    [Cleared(e) EXCEPT !.failure_pending = @ \/ (e.busy /\ ~e.seeding),
                       !.stable_checked = @ /\ ~e.seeding,
                       !.busy = FALSE, !.seeding = FALSE, !.state = "RETRY"]

DownloadFailed(e) ==
    [Resumed(Cleared(e)) EXCEPT !.failure_pending = @ \/ (e.busy /\ ~e.seeding),
                                !.stable_checked = @ /\ ~e.seeding,
                                !.busy = FALSE, !.seeding = FALSE, !.state = "RETRY"]

Failed(e) == IF e.state \in Provisioning THEN ProvisionFailed(e) ELSE DownloadFailed(e)

(* submit_command: refused by a closed client, or by a full table.         *)
Submitted(e, s) == {f \in {[e EXCEPT !.state = s, !.link = "queued"]} : gate}
Issue(e, s) == Submitted(e, s) \cup {Failed([e EXCEPT !.state = s])}

StartProvisioning(e) == Issue([Cleared(e) EXCEPT !.provisioned = FALSE, !.probe_index = 1], "PROBE")

BeginCaUpload(e) == Issue([e EXCEPT !.ca_repair_attempted = TRUE], "CA_UPLOAD")

(* begin_download, as every beginning ends.                                *)
Begun(e, seed) == [Cleared(e) EXCEPT !.seeding = seed, !.busy = TRUE, !.failure_pending = FALSE,
                                     !.paused = TRUE, !.state = "MQTT_QUIESCE"]

-----------------------------------------------------------------------------
(* command_succeeded.                                                      *)
NextProbe(e) == IF e.probe_index < Probes
                THEN Issue([e EXCEPT !.probe_index = @ + 1], "PROBE")
                ELSE Issue(e, "CA_OPEN")

(* Faulty variant: a file of the right length is the right file.           *)
CaMatchesLength(e) == e.ca_read_size = CaChunks

CaMatches(e) == e.ca_read_size = CaChunks /\ e.ca_ok

Repair(e) == Issue([e EXCEPT !.ca_repair_pending = TRUE], "CA_CLOSE")

CaClosed(e) ==
    IF e.ca_repair_pending THEN Issue([e EXCEPT !.ca_repair_pending = FALSE], "CA_DELETE")
    ELSE IF CaMatches(e)
    THEN {[Cleared(e) EXCEPT !.provisioned = TRUE, !.state = "IDLE"]}
    ELSE IF e.ca_repair_attempted THEN {ProvisionFailed(e)}
    ELSE Issue(e, "CA_DELETE")

Written(e) ==
    IF e.written # e.downloaded + 1 THEN {DownloadFailed(e)}
    ELSE Issue([e EXCEPT !.downloaded = @ + 1],
               IF e.written = Chunks THEN "FILE_CLOSE" ELSE "FILE_WRITE")

Succeeded(e) ==
    CASE e.state = "PROBE" -> NextProbe(e)
      [] e.state = "CA_OPEN" ->
            IF e.handle = "none" THEN {ProvisionFailed(e)}
            ELSE Issue([e EXCEPT !.ca_read_size = 0, !.ca_ok = TRUE], "CA_READ")
      [] e.state = "CA_QUERY" ->
            IF e.handle # "none" THEN Repair(e)
            ELSE BeginCaUpload([e EXCEPT !.ca_repair_pending = FALSE])
      [] e.state = "CA_READ" ->
            Issue(e, IF e.ca_read_size < CaChunks THEN "CA_READ" ELSE "CA_CLOSE")
      [] e.state = "CA_CLOSE" -> CaClosed([e EXCEPT !.handle = "none"])
      [] e.state = "CA_DELETE" -> BeginCaUpload(e)
      [] e.state = "CA_UPLOAD" -> Issue([e EXCEPT !.handle = "none"], "CA_OPEN")
      [] e.state = "MQTT_CLOSE" ->
            IF e.seeding THEN Issue(e, "FILE_DELETE")
            ELSE {[e EXCEPT !.state = "DOWNLOADER"], DownloadFailed(e)}
      [] e.state = "FILE_DELETE" -> Issue(e, "FILE_OPEN")
      [] e.state = "FILE_OPEN" ->
            IF e.handle = "none" THEN {DownloadFailed(e)} ELSE Issue(e, "FILE_WRITE")
      [] e.state = "FILE_WRITE" -> Written(e)
      [] e.state = "FILE_CLOSE" -> Issue([e EXCEPT !.handle = "none"], "FILE_LIST")
      [] e.state = "FILE_LIST" ->
            IF e.listed = "whole" THEN Issue(e, "VERIFY_OPEN") ELSE {DownloadFailed(e)}
      [] e.state = "VERIFY_OPEN" ->
            {IF e.handle = "none" THEN DownloadFailed(e) ELSE [e EXCEPT !.state = "VERIFY_READ"]}
      [] e.state = "VERIFY_READ" ->
            IF e.read_size = Chunks THEN Issue(e, "VERIFY_CLOSE") ELSE {e}
      [] e.state = "VERIFY_CLOSE" -> {[e EXCEPT !.handle = "none", !.state = "VERIFY"]}
      [] OTHER -> {e}

(* command_done: some errors only say that there was nothing to do.        *)
CommandDone(e, result) ==
    LET f == [e EXCEPT !.link = "none"] IN
        IF \/ result = "ok"
           \/ result = "error" /\ f.state \in {"CA_DELETE", "FILE_DELETE"}
           \/ f.state = "PROBE" /\ f.probe_index = FileProbe
        THEN Succeeded(f)
        ELSE IF result = "error" /\ f.state = "CA_OPEN"
        THEN Issue([f EXCEPT !.handle = "none", !.ca_repair_pending = TRUE], "CA_QUERY")
        ELSE IF result = "error" /\ f.state = "CA_READ" /\ f.handle # "none" THEN Repair(f)
        ELSE {Failed(f)}

-----------------------------------------------------------------------------
(* event_received: what a line tells the context, whichever command it     *)
(* answers.  In ST_DOWNLOADER the downloader takes it.                     *)
Opened(e, f) == IF Listens(e) /\ e.state \notin {"DOWNLOADER", "CA_QUERY"}
                THEN [e EXCEPT !.handle = f] ELSE e
Queried(e) == IF e.state = "CA_QUERY" THEN [e EXCEPT !.handle = "ca"] ELSE e
Listed(e, n) == IF e.seeding THEN [e EXCEPT !.listed = IF n = Chunks THEN "whole" ELSE "short"] ELSE e
Wrote(e, n) == IF e.state # "DOWNLOADER" THEN [e EXCEPT !.written = n] ELSE e

(* CONNECT <length> and the raw bytes of QFREAD.                           *)
Read(e, some, good) ==
    IF e.state = "CA_READ"
    THEN IF some /\ e.ca_read_size < CaChunks
         THEN [e EXCEPT !.ca_read_size = @ + 1, !.ca_ok = @ /\ good] ELSE ProvisionFailed(e)
    ELSE IF e.state = "VERIFY_READ"
    THEN IF some /\ e.read_size < Chunks
         THEN [e EXCEPT !.read_size = @ + 1, !.crc_ok = @ /\ good] ELSE DownloadFailed(e)
    ELSE e

Wanted(e) == IF e.state = "CA_READ" THEN "ca" ELSE "slot"

-----------------------------------------------------------------------------
(* The modem carries out one command after the other, and may answer when  *)
(* nobody waits any more.                                                  *)
Name == {"ca", "slot"}
NoFile == [chunks |-> 0, sound |-> TRUE, there |-> FALSE]
Head1 == wire[1]
Staged(stage) == wire' = [wire EXCEPT ![1].stage = stage]
UsesHandle(c) == c \in {"CA_READ", "CA_CLOSE", "FILE_WRITE", "FILE_CLOSE", "VERIFY_READ", "VERIFY_CLOSE"}

Prompts == /\ wire # <<>> /\ Head1.cmd \in PayloadCommand /\ Head1.stage = "asked"
           /\ Staged("prompted")
           /\ g' = IF g.link = "sent" THEN [g EXCEPT !.link = "prompted"] ELSE g
           /\ UNCHANGED <<rec, gate, modem>>

Ready == /\ wire # <<>>
         /\ Head1.stage = IF Head1.cmd \in PayloadCommand THEN "given" ELSE "asked"

(* What an upload, or a write, may make of its file.                       *)
Uploads == {[chunks |-> n, sound |-> TRUE, there |-> TRUE] : n \in 0..CaChunks}
           \cup {[chunks |-> CaChunks, sound |-> FALSE, there |-> TRUE]}
Appended(f) == {[f EXCEPT !.chunks = @ + 1, !.sound = @ /\ good] : good \in BOOLEAN}

Refuses ==
    /\ wire # <<>>
    /\ Ready \/ Head1.stage = "refused"
    /\ Staged("error")
    /\ \/ UNCHANGED files
       \/ /\ Head1.cmd = "CA_UPLOAD" /\ ~files["ca"].there
          /\ \E f \in Uploads : files' = [files EXCEPT !["ca"] = f]
    /\ UNCHANGED <<g, rec, gate, pos>>

Obeys ==
    /\ Ready /\ Staged("ok")
    /\ \/ /\ Head1.cmd \in {"PROBE", "CA_CLOSE", "FILE_CLOSE", "VERIFY_CLOSE"}
          /\ UNCHANGED <<g, modem>>
       \/ /\ Head1.cmd = "CA_OPEN" /\ files["ca"].there
          /\ g' = Opened(g, "ca")
          /\ pos' = [pos EXCEPT !["ca"] = 0]
          /\ UNCHANGED files
       \/ /\ Head1.cmd = "CA_QUERY"
          /\ g' \in {g, Queried(g)}
          /\ UNCHANGED modem
       \/ /\ Head1.cmd \in {"CA_READ", "VERIFY_READ"} /\ Head1.handle \in Name
          /\ LET f == Head1.handle
                 some == pos[f] < files[f].chunks IN
             /\ files[f].there
             /\ \E clean \in BOOLEAN :
                   g' = Read(g, some, clean /\ files[f].sound /\ f = Wanted(g))
             /\ pos' = IF some THEN [pos EXCEPT ![f] = @ + 1] ELSE pos
          /\ UNCHANGED files
       \/ /\ Head1.cmd \in {"CA_DELETE", "FILE_DELETE"}
          /\ LET f == IF Head1.cmd = "CA_DELETE" THEN "ca" ELSE "slot" IN
             files' = [files EXCEPT ![f] = NoFile] /\ pos' = [pos EXCEPT ![f] = 0]
          /\ UNCHANGED g
       \/ /\ Head1.cmd = "CA_UPLOAD" /\ ~files["ca"].there
          /\ \E f \in Uploads : files' = [files EXCEPT !["ca"] = f]
          /\ UNCHANGED <<g, pos>>
       \/ /\ Head1.cmd = "FILE_OPEN"
          /\ files' = [files EXCEPT !["slot"] = [NoFile EXCEPT !.there = TRUE]]
          /\ pos' = [pos EXCEPT !["slot"] = 0]
          /\ g' = Opened(g, "slot")
       \/ /\ Head1.cmd = "FILE_WRITE" /\ Head1.handle = "slot"
          /\ files["slot"].there /\ files["slot"].chunks < Chunks
          /\ \E f \in Appended(files["slot"]) : files' = [files EXCEPT !["slot"] = f]
          /\ g' = Wrote(g, files'["slot"].chunks)
          /\ UNCHANGED pos
       \/ /\ Head1.cmd = "FILE_LIST" /\ files["slot"].there
          /\ g' = Listed(g, files["slot"].chunks)
          /\ UNCHANGED modem
       \/ /\ Head1.cmd = "VERIFY_OPEN"
          /\ files' = [files EXCEPT !["slot"].there = TRUE]
          /\ pos' = [pos EXCEPT !["slot"] = 0]
          /\ g' = Opened(g, "slot")
       \/ /\ Head1.cmd = Foreign
          /\ g' \in {g, Opened(g, "other"), Read(g, TRUE, FALSE)}
                   \cup {Wrote(g, n) : n \in 0..Chunks}
          /\ UNCHANGED modem
    /\ UNCHANGED <<rec, gate>>

(* The final OK or ERROR reaches the AT client, which takes it for the     *)
(* answer to its active command.                                           *)
ResultLine ==
    /\ wire # <<>> /\ Head1.stage \in {"ok", "error"}
    /\ wire' = Tail(wire)
    /\ IF OnWire /\ (Head1.stage = "error" \/ (g.state \in PayloadCommand => g.link = "given"))
       THEN g' \in CommandDone(g, Head1.stage)
       ELSE UNCHANGED g
    /\ UNCHANGED <<rec, gate, modem>>

Lost == /\ wire # <<>>
        /\ wire' = Tail(wire)
        /\ UNCHANGED <<g, rec, gate, modem>>

-----------------------------------------------------------------------------
(* The AT client: the command is written, and may time out.  Of the        *)
(* commands nobody waits for, at most Unanswered are still answered.       *)
Sent(c) == wire' = Append(IF Len(wire) < Unanswered THEN wire ELSE Tail(wire), c)

StartCommand ==
    /\ gate /\ g.link = "queued"
    /\ g' = [g EXCEPT !.link = "sent"]
    /\ Sent([cmd |-> g.state, stage |-> "asked",
             handle |-> IF UsesHandle(g.state) THEN g.handle ELSE "none"])
    /\ UNCHANGED <<rec, gate, modem>>

Escaped == [i \in DOMAIN wire |->
               IF wire[i].cmd \in PayloadCommand /\ wire[i].stage \in {"asked", "prompted"}
               THEN [wire[i] EXCEPT !.stage = "refused"] ELSE wire[i]]

Timeout ==
    /\ gate /\ OnWire
    /\ wire' = IF g.state \in PayloadCommand /\ g.link # "given" THEN Escaped ELSE wire
    /\ g' \in CommandDone(g, "timeout")
    /\ UNCHANGED <<rec, gate, modem>>

(* A failed write, or another owner, closes the session; what was waiting  *)
(* is answered while nothing more is accepted.                             *)
Shut(result) == {e \in CommandDone(g, result) : e.link = "none"}

Quarantine ==
    /\ gate /\ gate' = FALSE
    /\ IF g.link = "none" THEN UNCHANGED g
       ELSE \E result \in {"error", "send_fail"} : g' \in Shut(result)
    /\ wire' = Escaped
    /\ UNCHANGED <<rec, modem>>

(* ABoxEc800At_OnModemReset, then RDY: ABoxBootV2App_OnModemReset.         *)
ResetContext(e) ==
    [(IF e.busy THEN DownloadFailed(e) ELSE Cleared(e))
        EXCEPT !.provisioned = FALSE, !.stable_checked = FALSE, !.state = "RETRY"]

AppOnModemReset ==
    /\ gate' = TRUE /\ wire' = <<>>
    /\ \E e \in IF g.link = "none" THEN {g} ELSE Shut("error") : g' = ResetContext(e)
    /\ UNCHANGED <<rec, modem>>

-----------------------------------------------------------------------------
(* The product's calls.                                                    *)
BeginProvisioning ==
    /\ ~g.busy
    /\ g' \in StartProvisioning(g)
    /\ UNCHANGED <<rec, gate, wire, modem>>

(* ABoxBootV2App_Start: refused while a record is not settled.             *)
Start ==
    /\ g.provisioned /\ ~g.busy /\ ~rec.pending
    /\ g' = Begun(g, FALSE)
    /\ UNCHANGED <<rec, gate, wire, modem>>

TakeFailure == /\ g.failure_pending
               /\ g' = [g EXCEPT !.failure_pending = FALSE]
               /\ UNCHANGED <<rec, gate, wire, modem>>

TakeInstallReady == /\ g.install_ready
                    /\ g' = [g EXCEPT !.install_ready = FALSE]
                    /\ UNCHANGED <<rec, gate, wire, modem>>

(* A restart, asked for or not; the Boot has perhaps tried what was        *)
(* pending and gone back to the stable image.                              *)
Restart == /\ g' = Booted /\ gate' = TRUE /\ wire' = Escaped
           /\ rec' \in {rec, [rec EXCEPT !.pending = FALSE]}
           /\ UNCHANGED modem

-----------------------------------------------------------------------------
(* ABoxBootV2App_Task.                                                     *)
RetryDue == /\ g.state = "RETRY"
            /\ g' \in StartProvisioning(g)
            /\ UNCHANGED <<rec, gate, wire, modem>>

(* mqtt_stop and workspace_borrow, which may both fail.                    *)
Quiesce == /\ g.state = "MQTT_QUIESCE"
           /\ g' \in {DownloadFailed(g)}
                    \cup Succeeded([g EXCEPT !.borrowed = TRUE, !.state = "MQTT_CLOSE"])
           /\ UNCHANGED <<rec, gate, wire, modem>>

DownloaderCommand ==
    /\ g.state = "DOWNLOADER" /\ gate
    /\ Sent([cmd |-> Foreign, stage |-> "asked", handle |-> "none"])
    /\ UNCHANGED <<g, rec, gate, modem>>

(* commit_verified_candidate.  A save that fails may have taken effect.    *)
Committed == IF g.seeding THEN [seeded |-> TRUE, pending |-> FALSE]
             ELSE [rec EXCEPT !.pending = TRUE]

Commit == \/ /\ rec' = Committed
             /\ g' = [Resumed(Cleared(g)) EXCEPT !.busy = FALSE, !.seeding = FALSE,
                                                 !.install_ready = ~g.seeding, !.state = "IDLE"]
          \/ /\ rec' \in {rec, Committed}
             /\ g' = DownloadFailed(g)

Downloaded == /\ g.state = "DOWNLOADER"
              /\ \/ Commit
                 \/ g' = DownloadFailed(g) /\ UNCHANGED rec
              /\ UNCHANGED <<gate, wire, modem>>

(* stable_slot_check_eligible, stable_slot_needs_seed, begin_local_seed;   *)
(* the running image may be unreadable.                                    *)
StableCheck ==
    /\ g.state = "IDLE" /\ g.provisioned /\ ~g.busy /\ ~g.stable_checked /\ ~rec.pending
    /\ g' \in {IF rec.seeded THEN [g EXCEPT !.stable_checked = TRUE]
                ELSE Begun([g EXCEPT !.stable_checked = TRUE], TRUE),
                DownloadFailed(g)}
    /\ UNCHANGED <<rec, gate, wire, modem>>

SendPayload ==
    /\ g.state \in PayloadCommand
    /\ \/ /\ g.link = "prompted"
          /\ g' = [g EXCEPT !.link = "given"]
          /\ wire' = IF wire # <<>> /\ Head1.stage = "prompted"
                     THEN [wire EXCEPT ![1].stage = "given"] ELSE wire
       \/ /\ g.state = "FILE_WRITE" /\ g.link \in {"sent", "prompted"}
          /\ g' = DownloadFailed(g)
          /\ UNCHANGED wire
    /\ UNCHANGED <<rec, gate, modem>>

NextRead == /\ g.state = "VERIFY_READ" /\ g.link = "none"
            /\ g' \in Issue(g, "VERIFY_READ")
            /\ UNCHANGED <<rec, gate, wire, modem>>

ReadAgain == g.read_size = Chunks /\ g.crc_ok

VerifySeed == /\ g.state = "VERIFY"
              /\ \/ ReadAgain /\ Commit
                 \/ g' = DownloadFailed(g) /\ UNCHANGED rec
              /\ UNCHANGED <<gate, wire, modem>>

-----------------------------------------------------------------------------
StagingInit ==
    /\ g = Booted /\ gate = TRUE /\ wire = <<>>
    /\ rec = [seeded |-> FALSE, pending |-> FALSE]
    /\ files = [f \in Name |-> NoFile] /\ pos = [f \in Name |-> 0]

Task == \/ RetryDue \/ Quiesce \/ Downloaded \/ StableCheck
        \/ SendPayload \/ NextRead \/ VerifySeed

StagingNext == \/ Task \/ StartCommand \/ Timeout \/ DownloaderCommand
               \/ Prompts \/ Refuses \/ Obeys \/ ResultLine \/ Lost
               \/ Quarantine \/ AppOnModemReset
               \/ BeginProvisioning \/ Start \/ TakeFailure \/ TakeInstallReady \/ Restart

StagingSpec == StagingInit /\ [][StagingNext]_stagingvars

(* The main loop calls both Tasks, time passes, and mqtt_stop and the      *)
(* downloader come to an end (MqttTransport, UfsDownload).                 *)
FairSpec == /\ StagingSpec
            /\ WF_stagingvars(Task) /\ WF_stagingvars(StartCommand) /\ WF_stagingvars(Timeout)

-----------------------------------------------------------------------------
Whole(f, n) == files[f].there /\ files[f].chunks = n /\ files[f].sound

Seed == INSTANCE VerifiedTransfer
        WITH phase <- IF rec.seeded THEN "accepted"
                      ELSE IF g.seeding THEN "working" ELSE "resting",
             whole <- Whole("slot", Chunks)

Ca == INSTANCE VerifiedTransfer
      WITH phase <- IF g.provisioned THEN "accepted"
                    ELSE IF g.state \in Provisioning THEN "working" ELSE "resting",
           whole <- Whole("ca", CaChunks)

(* The record names a stable image only when its slot holds it, and the    *)
(* platform is provisioned only when the modem holds the right CA; from    *)
(* then on nothing late touches either file (ST_VERIFY, ca_matches), while *)
(* the modem owes few answers: at seven of them TLC finds the CA violated. *)
ImplementsTransfers == Seed!Spec /\ Ca!Spec

(* Whatever is begun ends, with the loan returned and MQTT running again   *)
(* (download_fail, commit_verified_candidate, resume_mqtt).                *)
Engaged == g.busy \/ g.borrowed \/ g.paused
StagingEnds == Engaged ~> ~Engaged
=============================================================================
