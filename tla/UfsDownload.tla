---------------------------- MODULE UfsDownload ----------------------------
(***************************************************************************)
(* The firmware download: the modem fetches an image over HTTPS into a     *)
(* file of its own, whole or in ranges, and the App reads the file back    *)
(* before it records the image for the boot loader.                        *)
(*                                                                         *)
(*   components/ota/src/abox_https_ufs_downloader.c       the downloader   *)
(*   components/boot_v2/src/abox_boot_v2_ec800_port.c     its way to the   *)
(*   components/boot_v2/src/abox_boot_v2_app.c            AT client, and   *)
(*                                                        the App's part   *)
(*                                                                         *)
(* The downloader cancels a command without closing the AT session, so the *)
(* modem may still carry out and answer a command nobody waits for any     *)
(* more, and its untagged answer completes whatever runs by then.  The     *)
(* file is a number of chunks and whether they are the image's.            *)
(***************************************************************************)
EXTENDS Naturals, Sequences

CONSTANTS Chunks,    \* length of the image in pieces of ABOX_HTTPS_UFS_RAW_CHUNK
          Settings,  \* commands from ST_TLS_VERSION to ST_RESPONSE_HEADER
          Backlog    \* bound on the commands the modem has still to answer

ASSUME DownloadAssumption ==
    Chunks \in Nat \ {0} /\ Settings \in Nat \ {0} /\ Backlog \in Nat \ {0}

VARIABLES d,         \* the downloader
          download,  \* what the App knows of the image
          gate,      \* the AT client takes commands
          wire,      \* external: commands the modem has not finished with
          job,       \* external: the HTTP transfer that runs in the modem
          file,      \* external: the candidate file
          pos        \* external: where the open file is read

downloadvars == <<d, download, gate, wire, job, file, pos>>
modemvars == <<job, file, pos>>

-----------------------------------------------------------------------------
(* Commands are named by the state that submits them.                      *)
Command == {"HTTP_STOP", "PDP_DEACT", "PDP_ACT", "SETTING", "URL", "FILE_DELETE",
            "DIRECT_GET", "DIRECT_STORE", "RANGE_OPEN", "RANGE_GET", "RANGE_READ",
            "RANGE_WRITE", "RANGE_CLOSE", "FILE_LIST", "VERIFY_OPEN", "VERIFY_READ",
            "VERIFY_CLOSE", "FAILURE_DELETE"}
State == Command \cup {"IDLE", "VERIFY", "ERROR"}

PayloadCommand == {"URL", "RANGE_WRITE"}
WaitsForUrc == {"DIRECT_GET", "DIRECT_STORE", "RANGE_GET", "RANGE_READ"}

busy == d.state \notin {"IDLE", "ERROR"}
OnWire(e) == e.link \notin {"none", "queued"}

-----------------------------------------------------------------------------
(* The downloader's own steps, as the values d may take.                   *)
Idle(e) == [e EXCEPT !.link = "none"]

(* What restart_session clears.  A failed session is cleared when it fails *)
(* instead: nothing reads it in between.                                   *)
Cleared(e) == [e EXCEPT !.settings = 0, !.downloaded = 0, !.read_size = 0, !.crc_ok = TRUE,
                        !.handle_valid = FALSE, !.listed = "no", !.http = "none",
                        !.received = FALSE]

(* submit: refused by a closed client, and by one whose table is full.     *)
Submitted(e, s) == {f \in {[e EXCEPT !.state = s, !.link = "queued"]} : gate}

(* finalize_failure                                                        *)
Finalized(e) == [Cleared(Idle(e)) EXCEPT !.state = "ERROR", !.failure_pending = TRUE]

FinishFailure(e) == Submitted(Cleared(e), "FAILURE_DELETE") \cup {Finalized(e)}

Issue(e, s) == Submitted(e, s) \cup FinishFailure(e)

RestartSession(e) == Issue(Cleared(e), "HTTP_STOP")

RetriesLeft(e) == e.direct_attempts < 2

(* fallback_or_fail                                                        *)
FallbackOrFail(e, reason) ==
    IF e.backend = "range" THEN FinishFailure(e)
    ELSE IF reason = "direct_error" /\ RetriesLeft(e)
    THEN RestartSession([e EXCEPT !.direct_attempts = @ + 1, !.recover_pdp = TRUE])
    ELSE RestartSession([e EXCEPT !.backend = "range",
                                  !.recover_pdp = @ \/ reason = "direct_error"])

(* A direct command that cannot be submitted counts as a failed transfer.  *)
IssueDirect(e, s) ==
    Submitted(e, s) \cup FallbackOrFail(e, "direct_error")

BeginVerify(e) == Issue([e EXCEPT !.downloaded = 0], "FILE_LIST")

Succeeded(e) ==
    CASE e.state = "HTTP_STOP" ->
            IF e.recover_pdp THEN Issue([e EXCEPT !.recover_pdp = FALSE], "PDP_DEACT")
            ELSE Issue([e EXCEPT !.settings = 1], "SETTING")
      [] e.state = "PDP_DEACT" -> Issue(e, "PDP_ACT")
      [] e.state = "PDP_ACT" -> Issue([e EXCEPT !.settings = 1], "SETTING")
      [] e.state = "SETTING" ->
            IF e.settings < Settings THEN Issue([e EXCEPT !.settings = @ + 1], "SETTING")
            ELSE Issue(e, "URL")
      [] e.state = "URL" -> Issue(e, "FILE_DELETE")
      [] e.state = "FILE_DELETE" ->
            IF e.backend = "direct" THEN IssueDirect([e EXCEPT !.http = "none"], "DIRECT_GET")
            ELSE Issue(e, "RANGE_OPEN")
      [] e.state = "DIRECT_GET" ->
            IF e.http = "DIRECT_GET" THEN IssueDirect([e EXCEPT !.http = "none"], "DIRECT_STORE")
            ELSE FallbackOrFail(e, "direct_error")
      [] e.state = "DIRECT_STORE" -> BeginVerify(e)
      [] e.state = "RANGE_OPEN" ->
            IF e.handle_valid THEN {[e EXCEPT !.state = "RANGE_GET"]} ELSE FinishFailure(e)
      [] e.state = "RANGE_GET" ->
            IF e.http = "RANGE_GET" THEN Issue([e EXCEPT !.http = "none"], "RANGE_READ")
            ELSE FinishFailure(e)
      [] e.state = "RANGE_READ" ->
            IF e.received THEN Issue([e EXCEPT !.received = FALSE], "RANGE_WRITE") ELSE FinishFailure(e)
      [] e.state = "RANGE_WRITE" ->
            IF e.written # e.downloaded + 1 THEN FinishFailure(e)
            ELSE IF e.written = Chunks
            THEN Issue([e EXCEPT !.downloaded = Chunks], "RANGE_CLOSE")
            ELSE {[e EXCEPT !.downloaded = @ + 1, !.state = "RANGE_GET"]}
      [] e.state = "RANGE_CLOSE" -> BeginVerify([e EXCEPT !.handle_valid = FALSE])
      [] e.state = "FILE_LIST" ->
            IF e.listed = "whole" THEN Issue([e EXCEPT !.listed = "no"], "VERIFY_OPEN")
            ELSE FallbackOrFail(e, "integrity")
      [] e.state = "VERIFY_OPEN" ->
            IF e.handle_valid
            THEN {[e EXCEPT !.read_size = 0, !.crc_ok = TRUE, !.state = "VERIFY_READ"]}
            ELSE FinishFailure(e)
      [] e.state = "VERIFY_READ" ->
            IF e.read_size = Chunks THEN Issue(e, "VERIFY_CLOSE") ELSE {e}
      [] e.state = "VERIFY_CLOSE" -> {[e EXCEPT !.handle_valid = FALSE, !.state = "VERIFY"]}
      [] OTHER -> {e}

(* command_done, reached through command_done of the port and              *)
(* downloader_bridge_done.                                                 *)
CommandDone(e, result) ==
    LET f == Idle(e) IN
    IF f.state \in {"IDLE", "ERROR"} THEN {f}
    ELSE IF f.state = "FAILURE_DELETE" THEN {Finalized(f)}
    ELSE IF \/ result = "ok"
            \/ result = "error" /\ f.state \in {"HTTP_STOP", "PDP_DEACT", "FILE_DELETE"}
    THEN Succeeded(f)
    ELSE IF f.backend = "direct" /\ f.state \in {"DIRECT_GET", "DIRECT_STORE"}
    THEN FallbackOrFail(f, "direct_error")
    ELSE FinishFailure(f)

-----------------------------------------------------------------------------
(* OnEvent: what the lines of an answer tell the downloader, whichever     *)
(* command they answer.                                                    *)
Opened(e) == IF busy THEN [e EXCEPT !.handle_valid = TRUE] ELSE e
Listed(e) == IF e.state = "FILE_LIST" THEN [e EXCEPT !.listed = IF file.chunks = Chunks THEN "whole" ELSE "short"]
             ELSE e
Wrote(e, total) == IF busy THEN [e EXCEPT !.written = total] ELSE e
Got(e, what) == IF e.state \in {"DIRECT_GET", "RANGE_GET"} THEN [e EXCEPT !.http = what] ELSE e

(* CONNECT and the raw bytes of QHTTPREAD.                                 *)
Received(e) ==
    IF e.state # "RANGE_READ" THEN {e}
    ELSE IF e.received THEN FinishFailure(e)
    ELSE {[e EXCEPT !.received = TRUE]}

(* CONNECT <length> and the raw bytes of QFREAD.                           *)
Read(e, some, good) ==
    IF e.state # "VERIFY_READ" THEN {e}
    ELSE IF ~some \/ e.read_size = Chunks THEN FinishFailure(e)
    ELSE {[e EXCEPT !.read_size = @ + 1, !.crc_ok = @ /\ good]}

-----------------------------------------------------------------------------
(* The modem carries out one command after the other; an HTTP transfer     *)
(* goes on behind an OK until its URC.                                     *)
NoFile == [chunks |-> 0, sound |-> TRUE, there |-> FALSE]
Head1 == wire[1]
HeadStage(stage) == wire' = [wire EXCEPT ![1].stage = stage]

Prompts == /\ wire # <<>> /\ Head1.cmd \in PayloadCommand /\ Head1.stage = "asked"
           /\ HeadStage("prompted")
           /\ d' = IF d.link = "sent" THEN [d EXCEPT !.link = "prompted"] ELSE d
           /\ UNCHANGED <<download, gate, modemvars>>

Ready == /\ wire # <<>>
         /\ Head1.stage = IF Head1.cmd \in PayloadCommand THEN "given" ELSE "asked"

EndsJob(c) == c \in {"HTTP_STOP", "PDP_DEACT"}

Refuses ==
    /\ wire # <<>>
    /\ Ready \/ Head1.stage = "refused"
    /\ HeadStage("error")
    /\ job' = IF EndsJob(Head1.cmd) THEN "none" ELSE job
    /\ UNCHANGED <<d, download, gate, file, pos>>

Obeys ==
    /\ Ready /\ HeadStage("ok")
    /\ \/ /\ EndsJob(Head1.cmd)
          /\ job' = "none"
          /\ UNCHANGED <<d, file, pos>>
       \/ /\ Head1.cmd \in {"PDP_ACT", "SETTING", "URL", "RANGE_CLOSE", "VERIFY_CLOSE"}
          /\ UNCHANGED <<d, modemvars>>
       \/ /\ Head1.cmd \in {"FILE_DELETE", "FAILURE_DELETE"}
          /\ file' = NoFile /\ pos' = 0
          /\ UNCHANGED <<d, job>>
       \/ /\ Head1.cmd \in {"DIRECT_GET", "DIRECT_STORE", "RANGE_GET"} /\ job = "none"
          /\ job' = Head1.cmd
          /\ UNCHANGED <<d, file, pos>>
       \/ /\ Head1.cmd = "RANGE_READ" /\ job = "none"
          /\ d' \in Received(d)
          /\ job' = "RANGE_READ"
          /\ UNCHANGED <<file, pos>>
       \/ /\ Head1.cmd = "RANGE_OPEN"
          /\ file' = [NoFile EXCEPT !.there = TRUE]
          /\ d' = Opened(d)
          /\ UNCHANGED <<job, pos>>
       \/ /\ Head1.cmd = "RANGE_WRITE" /\ file.there /\ file.chunks < Chunks
          /\ \E good \in BOOLEAN :
                file' = [file EXCEPT !.chunks = @ + 1, !.sound = @ /\ good]
          /\ d' = Wrote(d, file'.chunks)
          /\ UNCHANGED <<job, pos>>
       \/ /\ Head1.cmd = "FILE_LIST" /\ file.there
          /\ d' = Listed(d)
          /\ UNCHANGED modemvars
       \/ /\ Head1.cmd = "VERIFY_OPEN" /\ file.there
          /\ d' = Opened(d) /\ pos' = 0
          /\ UNCHANGED <<job, file>>
       \/ /\ Head1.cmd = "VERIFY_READ" /\ file.there
          /\ \E clean \in BOOLEAN : d' \in Read(d, pos < file.chunks, clean /\ file.sound)
          /\ pos' = IF pos < file.chunks THEN pos + 1 ELSE pos
          /\ UNCHANGED <<job, file>>
    /\ UNCHANGED <<download, gate>>

(* The final OK or ERROR reaches the AT client, which takes it for the     *)
(* answer to its active command (emit_line).                               *)
ResultLine ==
    /\ wire # <<>> /\ Head1.stage \in {"ok", "error"}
    /\ wire' = Tail(wire)
    /\ IF /\ OnWire(d)
          /\ \/ Head1.stage = "error"
             \/ d.state \notin WaitsForUrc /\ (d.state \in PayloadCommand => d.link = "given")
       THEN d' \in CommandDone(d, Head1.stage)
       ELSE UNCHANGED d
    /\ UNCHANGED <<download, gate, modemvars>>

(* The URC that ends a transfer, taken by a command of the same sort.      *)
SameUrc(s, c) == \/ s = c
                 \/ {s, c} = {"DIRECT_GET", "RANGE_GET"}
UrcDone(e, result) == IF OnWire(e) /\ SameUrc(e.state, job) THEN CommandDone(e, result) ELSE {e}

Stored == {[chunks |-> n, sound |-> TRUE, there |-> TRUE] : n \in 0..Chunks}
          \cup {[chunks |-> Chunks, sound |-> FALSE, there |-> TRUE]}

JobEnds ==
    /\ job # "none"
    /\ \/ /\ job \in {"DIRECT_GET", "RANGE_GET"}
          /\ \E what \in {job, "none"} : d' \in UrcDone(Got(d, what), "ok")
          /\ UNCHANGED file
       \/ /\ job = "DIRECT_STORE"
          /\ file' \in Stored
          /\ d' \in UrcDone(d, "ok")
       \/ /\ job = "RANGE_READ"
          /\ d' \in UrcDone(d, "ok")
          /\ UNCHANGED file
       \/ /\ d' \in UrcDone(d, "error")
          /\ file' \in IF job = "DIRECT_STORE" THEN Stored \cup {file} ELSE {file}
    /\ job' = "none"
    /\ UNCHANGED <<download, gate, wire, pos>>

(* The modem never answers, or has not even received, its next command.    *)
Lost == /\ wire # <<>>
        /\ wire' = Tail(wire)
        /\ UNCHANGED <<d, download, gate, modemvars>>

-----------------------------------------------------------------------------
(* The AT client: the command is written, and may time out.  Of the        *)
(* commands nobody waits for, at most Backlog are still answered.          *)
StartCommand ==
    /\ gate /\ d.link = "queued"
    /\ d' = [d EXCEPT !.link = "sent"]
    /\ wire' = Append(IF Len(wire) < Backlog THEN wire ELSE Tail(wire),
                      [cmd |-> d.state, stage |-> "asked"])
    /\ UNCHANGED <<download, gate, modemvars>>

Escaped == [i \in DOMAIN wire |->
               IF wire[i].cmd \in PayloadCommand /\ wire[i].stage \in {"asked", "prompted"}
               THEN [wire[i] EXCEPT !.stage = "refused"] ELSE wire[i]]

Timeout ==
    /\ gate /\ OnWire(d)
    /\ wire' = IF d.state \in PayloadCommand /\ d.link # "given" THEN Escaped ELSE wire
    /\ d' \in CommandDone(d, "timeout")
    /\ UNCHANGED <<download, gate, modemvars>>

(* A failed write, or another owner, closes the session; what was waiting  *)
(* is answered while nothing more is accepted.                             *)
Shut(result) == {e \in CommandDone(d, result) : e.state = "ERROR"}

Quarantine ==
    /\ gate /\ gate' = FALSE
    /\ IF d.link = "none" THEN UNCHANGED d
       ELSE \E result \in {"error", "send_fail"} : d' \in Shut(result)
    /\ wire' = Escaped
    /\ UNCHANGED <<download, modemvars>>

(* Faulty variant: only a command that is pending ends with the reset.     *)
ResetPending(e) == IF d.link = "none" THEN e ELSE Finalized(e)

ResetDownload(e) == IF busy THEN Finalized(e) ELSE Idle(e)

(* ABoxEc800At_OnModemReset, ABoxBootV2App_OnModemReset and the            *)
(* downloader's OnModemReset.                                              *)
OnModemReset ==
    /\ gate' = TRUE /\ wire' = <<>> /\ job' = "none"
    /\ \E e \in IF d.link = "none" THEN {d} ELSE Shut("error") :
          d' = [ResetDownload(e) EXCEPT !.handle_valid = FALSE]
    /\ download' = IF download = "waiting" THEN "failed" ELSE download
    /\ UNCHANGED <<file, pos>>

-----------------------------------------------------------------------------
(* start_common_downloader, and ABoxHttpsUfs_Start.                        *)
Fresh(e, direct) ==
    [e EXCEPT !.backend = IF direct THEN "direct" ELSE "range",
              !.direct_attempts = IF direct THEN 1 ELSE 0,
              !.failure_pending = FALSE]

StartDownload(direct) ==
    /\ download # "waiting"
    /\ \E e \in IF busy THEN {d} ELSE RestartSession(Fresh(d, direct)) :
          d' = e /\ download' = IF busy \/ e.state = "ERROR" THEN "failed" ELSE "waiting"
    /\ UNCHANGED <<gate, wire, modemvars>>

(* ABoxBootV2App_Task in ST_DOWNLOADER: a step of the downloader, whose    *)
(* failure the App takes in the same call.                                 *)
Taken(e) == /\ d' = [e EXCEPT !.failure_pending = FALSE]
            /\ download' = IF e.failure_pending THEN "failed" ELSE download

TakeFailure ==
    /\ download = "waiting" /\ ~busy /\ d.failure_pending
    /\ Taken(d)
    /\ UNCHANGED <<gate, wire, modemvars>>

SendPayload ==
    /\ download = "waiting" /\ d.state \in PayloadCommand /\ d.link = "prompted"
    /\ d' = [d EXCEPT !.link = "given"]
    /\ wire' = IF wire # <<>> /\ Head1.stage = "prompted"
               THEN [wire EXCEPT ![1].stage = "given"] ELSE wire
    /\ UNCHANGED <<download, gate, modemvars>>

NextRange ==
    /\ download = "waiting" /\ d.state = "RANGE_GET" /\ d.link = "none"
    /\ \E e \in Issue([d EXCEPT !.http = "none"], "RANGE_GET") : Taken(e)
    /\ UNCHANGED <<gate, wire, modemvars>>

NextRead ==
    /\ download = "waiting" /\ d.state = "VERIFY_READ" /\ d.link = "none"
    /\ \E e \in Issue(d, "VERIFY_READ") : Taken(e)
    /\ UNCHANGED <<gate, wire, modemvars>>

(* Faulty variant: the length that was read is all that counts.            *)
ReadBackSize(e) == e.read_size = Chunks

ReadBack(e) == e.read_size = Chunks /\ e.crc_ok

(* The file was read: its length, digest and vectors decide.  A failed     *)
(* StateSave, in commit_verified_candidate, is a failed download.          *)
Verify ==
    /\ download = "waiting" /\ d.state = "VERIFY"
    /\ \/ \E e \in FallbackOrFail(d, "integrity") : Taken(e)
       \/ /\ ReadBack(d)
          /\ d' = [Cleared(d) EXCEPT !.state = "IDLE"]
          /\ download' \in {"recorded", "failed"}
    /\ UNCHANGED <<gate, wire, modemvars>>

-----------------------------------------------------------------------------
DownloadInit ==
    /\ d = [state |-> "IDLE", link |-> "none", backend |-> "direct", direct_attempts |-> 0,
            recover_pdp |-> FALSE, handle_valid |-> FALSE,
            settings |-> 0, downloaded |-> 0, read_size |-> 0, crc_ok |-> TRUE, listed |-> "no",
            http |-> "none", received |-> FALSE, written |-> 0,
            failure_pending |-> FALSE]
    /\ download = "idle" /\ gate = TRUE /\ wire = <<>> /\ job = "none"
    /\ file = NoFile /\ pos = 0

Task == SendPayload \/ NextRange \/ NextRead \/ Verify \/ TakeFailure
Modem == Prompts \/ Refuses \/ Obeys \/ ResultLine \/ JobEnds \/ Lost

DownloadNext == \/ \E direct \in BOOLEAN : StartDownload(direct)
                \/ Task \/ StartCommand \/ Timeout \/ Modem
                \/ Quarantine \/ OnModemReset

DownloadSpec == DownloadInit /\ [][DownloadNext]_downloadvars

(* The main loop calls both Tasks and time passes; the modem may stay      *)
(* silent for ever.                                                        *)
FairSpec == /\ DownloadSpec
            /\ WF_downloadvars(Task) /\ WF_downloadvars(StartCommand) /\ WF_downloadvars(Timeout)

-----------------------------------------------------------------------------
Whole == file.there /\ file.chunks = Chunks /\ file.sound

Transfer == INSTANCE VerifiedTransfer
            WITH phase <- IF download = "recorded" THEN "accepted"
                          ELSE IF download = "waiting" THEN "working" ELSE "resting",
                 whole <- Whole

(* The boot record names an image only while its file is whole, and no     *)
(* command the modem still owes an answer to changes the file afterwards   *)
(* (commit_verified_candidate after ST_VERIFY).                            *)
ImplementsVerifiedTransfer == Transfer!Spec

(* Every download comes to a verdict, however silent the modem is, and     *)
(* leaves the downloader free for the next (Task, OnModemReset).           *)
Working == download = "waiting" \/ busy
DownloadEnds == Working ~> ~Working
=============================================================================
