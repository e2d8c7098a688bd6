# A TLA+ model of the A-Box firmware platform

The platform is the common part of a family of STM32F105 + EC800 devices: a Boot
that installs, tries and rolls back App images, and the components an App is built
from (the AT client of the modem, the MQTT session, its configuration trial, the
cloud service, OTA staging, enrolment). This directory models the parts of it whose
correctness depends on order: what is saved before what is erased, which callback
runs while which flag is up, which reply belongs to which command, what a reset
leaves behind. Every definition is translated from the C source; the comment at the
head of a module names the files, `PROJECT.json` maps each definition to its lines.

## 1. Inventory

### 1.1 Components

| Component | State it keeps | Operations | What makes it correct |
|---|---|---|---|
| Boot State store (`boot_v2_state.c`) | two Flash pages with a 112-byte record, a sequence and a CRC | load, save, confirm, acknowledge rollback | a save is atomic: a crash at any word leaves the old or the new record |
| Boot (`boot_v2_boot.c`, `ota_core.c`) | the App area, the fault mailbox in no-init RAM, the reset flags, one attempt per boot | one pass of `Boot_Task`: jump, try, install, roll back | never runs half an image, always has an image to return to, always ends at an App |
| App OTA staging (`boot_v2_app.c`) | a staging context, the two UFS slots | provision, seed the stable slot, request, transfer, verify, commit, restart | an install is requested only of an image that is whole in the slot that is not the stable one |
| HTTPS/UFS downloader (`abox_https_ufs_downloader.c`) | a transfer: phase, back end, counters | start, task, AT events, modem reset | success only of a whole, verified file; direct, retry, range, fail in that order; failure deletes the file |
| AT client (`abox_ec800_at.c`) | six queued commands, one active, raw and payload modes, quarantine | submit, task, feed, payload, cancel, reset, quarantine, abort | every accepted command is settled once; no command answers to another's reply; silence while quarantined |
| Command adapter (`abox_ec800_command_port.c`) | one operation of one owner | submit, poll, cancel | an uncertain outcome quarantines the wire |
| UART receiver (`abox_ec800_rx.c`) | a DMA position and a byte ring, written by an interrupt | DMA event, drain, restart | bytes leave in the order they came, or a restart is asked for |
| MQTT transport (`abox_mqtt_ec800.c`) | session state, one publish, one command in flight, retry timers, a lent workspace | start, poll, stop, publish, cancel, reset | one client connection, a receipt only for its own publish, a stop that is final |
| MQTT bridge, receipts, TLS (`abox_mqtt_ec800_bridge.c`, `abox_mqtt_receipt.c`, `abox_mqtt_tls.c`, `abox_ec800_tls.c`) | the pending receipt, the TLS lease and its pin | publish, take receipt, lease, bind, unbind | a context is never reconfigured while a connection uses it |
| MQTT runtime (`abox_mqtt_runtime.c`) | active and staged configuration, phase | stage, activate, restore, block, poll | never runs on a configuration nobody accepted; a failure without a way back blocks |
| MQTT trial and its executor (`abox_mqtt_trial.c`, `abox_mqtt_trial_executor.c`, `abox_maintenance_service.c`) | candidate, session, deadline, one deferred action | start, event, poll, cancel, take | the active configuration changes only when the candidate was proved and saved; every other end restores |
| Cloud service (`abox_cloud_service.c`, queue, dispatch, response) | bootstrap stage, one job in flight, pending responses and reports | next, begin, receipt, queue | manifest, heartbeat, state before anything else; a wake-up is never lost; a late receipt finishes nothing |
| Enrolment (`abox_enrollment*.c`) | a request, a poll token, a credential | poll, HTTP result, trial result, cancel | a credential is kept only as long as its trial; a cancelled enrolment ends |
| App service (`abox_app_service.c`) | the order of one poll, restart back-off | poll | no component runs on a receiver that is down |
| Modem power (`ec_power.c`, `abox_ec800_recovery.c`) | the power sequence, a cool-down | on, restart, off, task | a restart runs to its end, not more often than the cool-down |
| Clock, time sync, log ring, board I/O, configuration store | offsets and samples, a ring with three readers, debounced inputs | set, poll, read | see their rows in `PROJECT.json` |

### 1.2 How they interact

Everything runs on one bare-metal loop; only the UART receiver shares state with an
interrupt. `ABoxAppService_Poll` fixes the order of a pass: power sequence, receiver
restart, receiver drain, AT task, OTA staging, enrolment, MQTT, cloud. What makes the
code concurrent all the same:

* **callbacks inside calls.** The AT client calls its owners from `Task`, `Feed`,
  `Quarantine` and `Reset`; an owner may submit, cancel, quarantine or reset from there.
* **the modem.** Replies carry no tag, come late, or never; URCs come between them;
  the modem restarts on its own (`RDY`) or by a power cycle.
* **resets.** The Boot and the App hand the processor to each other through the record,
  the fault mailbox and the reset flags; power fails between any two Flash operations.
* **shared resources.** OTA staging stops MQTT and borrows its receive buffer; enrolment
  and a configuration trial pause it; one Flash holds the record, the App and the
  product's configuration.

### 1.3 Hazards

`PROJECT.json` lists them at their lines with the properties that would catch each.
They fall into four groups: crashes between two durable steps (record, App area, slots),
untagged and late replies of the modem, state read before a callback and used after it,
and deadlines racing late answers.

## 2. Plan

| Order | Module | Composes | Status |
|---|---|---|---|
| 1 | `AtomicRecord`: what the record store promises | | done |
| 2 | `BootState`: the two pages | implements 1 | done, checked, proved |
| 3 | `OtaLifecycle`: Boot and App over the record, the slots and the App area | uses 1 as its record | done, checked, proved |
| 4 | `OtaTrials`: 3 with the history of its trials | 3 | done, checked, proved |
| 5 | `CommandService`: what the AT client promises; `Ec800At`: the client and the command adapter | the second implements the first | done, checked, proved |
| 6 | `ConfigSwitch`: what a trial promises; `ConfigTrial`: trial, executor, service, store | the second implements the first | done, checked, proved |
| 7 | `CloudBootstrap`: the bootstrap cursor; `CloudService`: jobs, receipts, requests, wake-ups | the second implements the first | done, checked, proved |
| 8 | `PublishContract`: one verdict per publish; `MqttTransport`: session, publish, stop, workspace | the second implements the first | done, checked, proved |
| 9 | `MqttRuntime`: stage, activate, restore, stop, latch, TLS lease and binding | 8 and 5 as environment | done, checked, proved |
| 10 | `VerifiedTransfer`: an accepted image stays whole; `UfsDownload`: downloader, its port, the App's acceptance | the second implements the first | done, checked, proved |
| 11 | `EnrolmentRequest`: what becomes of a request; `Enrollment`: request, HTTPS adapter, service | the second implements the first | done, checked, proved |
| 12 | `AppService`: receiver and its interrupts, the pass, power and cooldown | | done, checked, proved |
| 13 | `OtaStaging`: provisioning, the copy of the running image, the loan of MQTT's buffer | implements 10's `VerifiedTransfer` twice, for the CA file and the stable slot | done, checked, proved |
| 14 | `LogRing`: a ring with three readers against a queue | | not begun (section 6) |

Every safety property of the runs has a theorem, under the bounds on its constants that section 5
explains; the liveness properties are model-checked.

## 3. What is modelled

### 3.1 `AtomicRecord` and `BootState`

`AtomicRecord` is the promise: one record, replaced at one instant by a save that may be
refused, may fail with or without effect, and may be cut short.

`BootState` is `boot_v2_state.c` at the grain of one Flash operation. A page is the
number of words programmed, whether they all read back, the sequence and the content;
`valid` needs all the words, since the CRC is the last one. `SaveBegin` takes the
sequence and the victim page, `ErasePage`, `WriteWord` and `Verify` follow, each may
fail, and `PowerLoss` may come before any of them. The 28 words of the record are a
constant; the runs use 3 (a first, a middle and a last word), the proofs any number.

### 3.2 `OtaLifecycle` and `OtaTrials`

The processor runs either the Boot (`pc` names its step) or the App (`pc = "app"`).

| Variable | In the code |
|---|---|
| `rec` | what `ABoxBootV2_StateLoad` answers; the store is used as `AtomicRecord` promises |
| `flash` | the App area; `Bad` from the erase until the last byte is programmed |
| `ufs` | the two slot files in the modem |
| `mailbox` | `ABoxBootV2_FaultValid()` |
| `rcc`, `reset_reason` | the reset flags, and the Boot's copy taken once per boot |
| `r`, `attempted` | `Boot_Task`'s copy of the record, `g_attempted` |
| `app` | the App's staging context `g` |
| `faults` | how many faults were injected |

An image is a model value that stands for its size, CRC and version, so that "the CRC
agrees" is equality; `Misnamed` images are released under a version they do not report.
`trial`, `install` and `rollback` are split where they save, since a save may fail or
power may be lost there; the result of each save is honoured or ignored as the code does
(`JumpSave` jumps only after success, `PlainSave` does not look). `ProgramApp` stands for
the whole programming loop: until its end the App area is `Bad`, which is what a reset in
the middle leaves. The App's actions follow `ABoxBootV2App_Task`, `_Start`,
`commit_verified_candidate`, `_OnModemReset`, `ABoxBootV2_Confirm` and
`ABoxBootV2_AcknowledgeRollback`. A product's decisions (when to start an OTA, when to
confirm, when to acknowledge) are free; `ReadyGate` says whether it asks `IsReady` first.

`OtaTrials` adds a history variable: how often the candidate on trial really failed.

### 3.3 `CommandService` and `Ec800At`

`CommandService` is what an owner may rely on: an accepted command is withdrawn or answered
exactly once, one is on the wire at a time, nothing is accepted or written while the session
is closed.

`Ec800At` is `abox_ec800_at.c` with the command adapter. Its difficulty is that the client
calls its owners in the middle of its own work and they call back. A call that calls back is
therefore several actions, and `phase` says where it stands: `"line"` while a line is offered
to its owner, `"notify"` while `terminate_all` tells the owners of detached commands,
`"broadcast"` while the reset is announced; the gates `driving`, `notifying` and
`terminating` of the code are conditions on `phase`. `queue`, `active`, `wait_payload`,
`payload_sent`, `raw`, `guard` and `quarantined` are the fields of the structure; `adapter` is
`result` of each adapter; `modem` says how far the modem is with each command and therefore
which lines it may still send, late or never; `outcome` is history. A command is one of four
kinds (plain, with payload, answered by a URC, both); the run has one of each but the last,
which the proofs cover. `BeginRaw` is open to any owner while no command is on the wire, since
every owner is shown the line then. An owner without a command adapter that takes a command
back, or lets one time out, lets its late OK complete whatever runs next; `Disciplined` says
that none did so far, and `ReplyIsOwn` is stated under it. Left out: the text of commands and
lines, the tick, `+QMTPUBEX`, which only the MQTT transport causes and `MqttTransport` has.

### 3.4 `ConfigSwitch` and `ConfigTrial`

`ConfigSwitch` is the promise of a trial: the configuration in use and the stored one change
together and only to a configuration that was proved; every other end leaves both alone.

`ConfigTrial` has the trial's record (`trial`), the executor's one deferred action (`slot`),
the action the product works on (`work`), what the runtime drives (`net`), the proofs
(`proofs`), the Flash (`stored`) and, as history, the proved candidate. Events carry the
session they were caused in or none, exactly as `abox_maintenance_service.c` delivers them, so
that reports of an earlier trial or of the old connection arrive in any state. A deadline is
found by any poll, also by the one inside `ABoxMqttTrial_Event`. The product is external under
the contract of `docs/internal/mqtt_tls_foundation.md`: it reports RESTORED only with the old
configuration running and stored. No power loss hits the store of the configuration.

### 3.5 `CloudBootstrap` and `CloudService`

`CloudBootstrap` is the cursor of one connection (manifest, heartbeat, state) with the rule
which receipts count; it is code as well (`ABoxCloudBootstrap`). `CloudService` is the
scheduler: the record `s` holds the service's fields; a call of `Next`, `Begin`, `Receipt`,
`Queue...` is one action. `sent` says what is known of each publish and what it told,
`linked` whether the transport is ready, `asked`, `acked` and `shown` are history: requests
accepted, requests whose response the broker has, what the broker was last told of each
state. `SetStateCount` is part of `Init`. A parked request is adopted by the product, in `publish`
or before; what it then publishes in the same call is refused by `Begin` (`Emptied`). Names of
publishes are used again once nothing more is heard of one, the periods are flags that may be
raised at any time.

### 3.6 `PublishContract` and `MqttTransport`

`PublishContract` is what `publish_event` may report of a publish: SUBMITTED at most once,
then exactly one of CONFIRMED and FAILED. `MqttTransport` is the session: the record `m`
holds `ABoxMqttEc800` with its one command at the AT client, `modem` the client in the modem
and the result lines it has yet to say (`duty`). A turn of `Poll`, a call, a line of the modem
are each one action; a turn (`Turn`) says what it meets: a deadline, room in the command
queue, silence on the line. Assumed of the modem: when a line has been silent for the drain
time no result line is outstanding; a client whose close is refused is gone. Left out: the
text of the configuration commands (they are a number), the delivery of received messages
(no state of the transport depends on it), `RequestReconnect`, which nothing under `src/`
calls, counters, the ICCID query.

### 3.7 `MqttRuntime`

The record `r` holds `ABoxMqttRuntime` with its TLS lease (`lease`, `step`, `cred`), its
binding (`bind`, `pinned`) and its command adapter (`op`, `result`, `cmd`). Every phase of
`Poll` is an action (`PollReady` to `PollBind`), with the polls of lease and binding it makes;
`Stage`, `Activate`, `Restore`, `StopFirst`, `Block`, `RecoveryComplete` and `OnModemReset`
are the calls. `modem` has the session, the binding and the credentials in the context, as
external state: a command changes it when it is answered, when it is refused (perhaps) and
when it was given up but had been sent (`LateEffect`). Of `active` only its presence matters
to the code. Every async status that is neither pending, done nor quarantined is one value.
A runtime without `mqtt_stop` is left out, since `ABoxMqttRuntimePort_BindCore` demands one.

### 3.8 `VerifiedTransfer` and `UfsDownload`

`VerifiedTransfer` is what the Boot relies on when it reads a slot: an image is accepted only
while its file is whole, and from then on nothing the modem still has to do changes the file
until the next transfer of it.

`UfsDownload` is the downloader (`d`: state, its command at the AT client, attempts, ranges,
what it counted), its port and what the App knows of the image (`download`: none asked for,
`"waiting"`, `"failed"`, `"recorded"`; `gate` is the AT session). The modem has the commands it
has not finished with (`wire`), the HTTP transfer it runs (`job`), the file and the position it
is read at. The file is a number of chunks and whether they are the image's. The downloader
cancels a command without closing the AT session: the modem may still carry it out, and its
untagged answer completes whatever runs by then. The App begins a download (`StartDownload`) and
calls the downloader (`Task`); the AT client writes a command, gives it up, is closed or reset
(`StartCommand`, `Timeout`, `Quarantine`, `OnModemReset`); the modem prompts, refuses, obeys,
answers, ends a transfer or says nothing (`Modem`). The direct attempts, the ranges, the
verification and the deletion after a failure are the states of the code.

### 3.9 `EnrolmentRequest` and `Enrollment`

`EnrolmentRequest` is the promise to the operator. Asking the server is a step of its own: a box
asks only while it has no configuration and was not abandoned, one question at a time, and
a request is granted, tried or released only at the end of a question. The request the operator
sees is kept through failed transfers, restarts and failed trials until the server has declined
it or, once approved, closed it; the two are told apart, so a declined request can never be tried.

`Enrollment` has the request (`e`), the HTTPS adapter with its command (`h`) and the product's
trial; external are the modem's backlog (`wire`), its HTTP session, the CA file as the set of
its chunks that are right, and the server's side of the request. The product with a pinned CA
is modelled: the file is listed, read back, deleted and uploaded again before a request that
relies on it. The modem works off its commands in order and may answer one late, when the next
already waits for its OK; POST and READ carry the modem's own limit of 80 s, below the
client's 90 s, and are never answered late.

### 3.10 `AppService`

One poll is a sequence of steps (`stage`), and the receive interrupt may come between any two of
them, which is the point: `rx` is the ring with its counters, `rx_starting` and `rx_failed` are
the receiver's restart, `quarantined` and `power` what the service looks at, `waiting` and
`ahead` the recovery's cooldown on a tick that wraps (`ahead` is `now - next_restart_ms`), and
`held` says that an OTA transfer or maintenance forbids a restart. Bytes carry the serial
number of their place in the modem's stream; `fed`, `torn` and `since` are history. The ports
of a product that always enables its communication are assumed; what the later components of a
pass do is in their own modules.

### 3.11 `OtaStaging`

`OtaLifecycle` has each transfer of the App as one step; `OtaStaging` is the dialogue inside,
`abox_boot_v2_app.c` command by command. `g` is the staging context (its state, how far its
command is at the AT client, `link`, and the fields of the code), `rec` what the record says,
`gate` the AT session, `wire` the commands the modem has not finished with, `files` and `pos`
the CA file and the stable slot in the modem. Provisioning asks for the capabilities, then
opens, reads, compares and, if need be, deletes and uploads the CA file; seeding writes the
running image into slot 0, lists it and reads it back; a download hands over to the downloader,
which is one state here that leaves commands behind. As in `UfsDownload`, a cancelled command
may still be carried out and answered, also into the next provisioning, and `event_received`
takes every line for the state it is in. `ST_RETRY` and `ST_ERROR` are one state. The two
instances of `VerifiedTransfer` say that the record names a stable image only while its slot is
whole, and that the App counts as provisioned only while the modem holds the right CA file;
`StagingImplementsTransfers` proves both.
The platform's port is assumed, which always offers `mqtt_stop`; the stop and the loan either
succeed or fail (`MqttTransport` has their inside).

## 4. What is checked

| Run | Instance | Shows |
|---|---|---|
| `boot_state` | two contents, three words, sequences up to 5 | every step of the store is a step or a stutter of one atomic record, with a crash or a Flash error at any word |
| `ota_lifecycle` | a factory, a good and a faulty image, up to 5 faults | the App that runs is whole and recorded (`RunsRecordedImage`), the slots the record relies on are whole (`SlotsIntact`), no device is stranded (`NotStranded`), a candidate is abandoned after at least two failures of its own (`FailuresAreItsOwn`), the Boot reaches an App (`BootReachesApp`), a candidate that keeps failing is rolled back and reported (`FaultyRolledBack`) |
| `at_client` | an upload, a plain command and a query of two owners, one of them without adapter; a table of two | a line completes only the command it answers (`ReplyIsOwn`), an adapter waits exactly while its command lives (`AdapterInStep`), refinement of `CommandService`, every command is settled in the end (`AllSettle`) |
| `config_trial` | three configurations, three trials in a row | refinement of `ConfigSwitch`, no late or foreign action is begun (`ActionInTime`), every trial ends (`TrialEnds`) |
| `cloud_service` | a request, two connections, two wake-ups, two states, one publish at a time | a connection counts as reported only when all was told on it (`BootstrapIsWhole`), a queued report is dropped only when reported (`QueuedIsReported`), refinement of `CloudBootstrap`; on a connection that stays, whatever is queued is reported once the product stops putting states of its own first (`AllReported`) |
| `mqtt_transport` | two configurations, two publishes, two clients opened | the transport never thinks a client closed that is not (`ClientInStep`), it stops only when every line it caused was heard or waited out (`RestIsDrained`), nothing runs on a lent workspace (`BorrowedIsQuiet`), a confirmation is the publish's own (`ConfirmedByOwn`), refinement of `PublishContract`, a stop ends (`StopEnds`) |
| `mqtt_runtime` | a plain, a CA and a PSK configuration, a set-up of two commands, builds with and without capability probe and clock mode, one disturbance of a change under way | no session of a TLS configuration without its binding and its credentials (`Secured`), the safety latch stays shut (`LockedIsShut`), a stop leaves nothing behind (`StopIsClean`), a change comes to rest (`Settles`) |
| `ufs_download` | an image of two chunks, one setting, two commands outstanding | refinement of `VerifiedTransfer`, every download ends (`DownloadEnds`) |
| `ota_staging` | two probes, a CA file and an image of two chunks, two commands outstanding | two refinements of `VerifiedTransfer`, for the CA file and for the stable slot; whatever is begun gives back the loan and MQTT (`StagingEnds`) |
| `app_service` | a ring of two bytes, counters modulo 4, a tick modulo 4 | the client is never fed a byte that does not follow unless it was told of the break (`NeverTorn`), power cycles are apart by the cooldown (`RestartsSpaced`), a quarantined session is reopened (`SessionReopens`) |
| `recovery_cooldown` | the same | finding: after half a turn of the tick an old cooldown counts again |
| `enrollment` | a certificate of three chunks, three settings, four commands outstanding | request and adapter agree (`RequestInStep`), a request relies only on a CA file that is right (`TrustsPinnedCa`), an adapter at rest left no session behind (`SessionClosed`), refinement of `EnrolmentRequest` (asked only when it may be, kept until declined or closed, tried only when approved), a request ends (`RequestEnds`) |

Types are proved in every module that has proofs.

Bounds. Two slots and two pages are the code's own. Three images give a stable one, a
candidate and a next candidate, so every slot can be reused; five faults cover a failed save,
a power loss in the erase, one in the following rollback, a modem loss and one more. A
sequence of five is two full rounds of the two pages. A command table of two fills up with
three commands, and each kind gets behind each other. Three trials let a report of the first
meet the third. Two states give a report a beginning and a middle; in `cloud_service` the
name of a publish is used again on the next connection, where its receipt may still arrive
(several requests and publishes that overlap are left to `CloudServiceProofs`). Two publishes and two
clients let a result line of one meet the other (497,000 states). In `mqtt_runtime` a
disturbance is a staging, a restore, an unexpected restart of the modem or a quarantine while
a change is under way; without a bound these could follow each other for ever and no change
would end. At rest they are not bounded, but for the quarantine. Two chunks give a download a
first and a last range; a backlog of two, an answer that is late for one command and on time for
the next; what a larger one does is in section 5. In `ota_staging` two probes are the one that may be refused and one that may not
(918,000 states). Three chunks give the CA file of an enrolment a first, a middle and a short last piece. A ring of two
can be empty, half full, full and asked for more, and its counters wrap within a pass.

Fairness. `OtaLifecycle`: weak fairness of the Boot as a whole, because `Boot_Task` is called
in an endless loop and every call in it returns (each AT exchange and each Flash operation has
a timeout), and of a faulty image's fault, because that is what faulty means; nothing of the
product. `BootReachesApp` excepts one state, `WaitsForReset`: an install whose beginning could
not be saved, with no stable image in Flash, is not tried again before the next reset
(`g_attempted`), and nothing in the Boot brings one about. `Ec800At`: `Task` is called in every
pass and finds what is due (a lock, a timeout, the guard's end, the next command), and a
callback returns. `ConfigTrial`: polls come, and a
deadline that has passed is found. `CloudService` (`FairSpec`, on a
connection that stays): polls come, strongly fair for the submission of the next job, which
external work may interrupt but not for ever, and for the adoption of a parked request, which
is the product's to do; the broker confirms again and again what is
published; and what is known of an old publish is forgotten in the end. `MqttTransport`: polls come and time passes, the AT
client writes what is queued and times out, the modem falls silent. `MqttRuntime`: polls come
and time passes, `mqtt_stop` ends (`StopEnds` of the transport), a command is answered, and a
quarantined modem is restarted (`recover` in `abox_app_service.c`, when the product is not in
maintenance and its modem has power). `UfsDownload` and `Enrollment`: the task is called, the AT
client writes a queued command and finds its timeout (`Ec800At`, `AllSettle`); a modem that owes
as many answers as `Backlog` allows is restarted, which stands for a timeout of the command
that the bound keeps from the wire. `OtaStaging`: the same task, command and timeout; the stop
of MQTT and the downloader end (`StopEnds`, `DownloadEnds`); the modem owes nothing.
`AppService`: polls come, and again and again a poll finds
that time has passed, that the power sequence moved on, that the hold is over and that the
drain reached its end.

`CHECK_DEADLOCK FALSE` where the bounds, or a device that waits for its product, leave nothing
to do.

### Where the code and its texts differ

One difference has a run of its own: the cooldown of the modem's recovery
(`recovery_cooldown`). Others, seen while modelling:

* an error report that comes after the deadline of a trial fails the restoration instead of
  being ignored: `ABoxMqttTrial_Event` polls first (`abox_mqtt_trial.c:71`), which begins the
  restoration, and then hands it the error of the connection that was given up
  (`docs/internal/mqtt_tls_foundation.md:99,114`).
* a report that is asked for between two parts of another starts in its middle
  (`abox_cloud_service.c:288`; `abox_cloud_service.h:139` has it begin with the first state).
* a stop asked for in READY right after a `+QMTSTAT` line leaves `close_requested` set when the
  transport is at rest (`abox_mqtt_ec800.c:591`, 515): a later poll goes from IDLE to CLOSING and
  blocks on commands that are refused (`abox_mqtt_ec800.h:100`, `mqtt_ec800_transport.md:14`).
* the repair of the CA file has no end of its own: an upload whose file cannot be opened
  (`abox_boot_v2_app.c:823`) or read (830) leads to the next upload without a look at
  `ca_repair_attempted`, and without the 5, 15 and 60 s that `PLATFORM_CONTRACT.md:58` puts
  between two tries: as long as the modem takes the file and refuses to give it back, it is
  uploaded again.
* a download that is ended by a restart of the modem, or whose deletion times out, leaves its
  file (`ST_FAILURE_DELETE`; `PLATFORM_CONTRACT.md`, section 4, has every failure delete it).
  The file is not recorded, and the next transfer deletes it first.
* an enrolment cancelled during its trial stays CANCELLING, with its credential, until the modem
  is restarted (`abox_enrollment_service.c:85`; `docs/internal/enrollment.md:15` waits for the
  trial's end).
* the serial number of wake-ups wraps to 0, which also means "none" (`abox_cloud_service.c:277`):
  after 2^32 of them.
* `ABoxBootV2App_Start` accepts a request when no stable slot is recorded
  (`abox_boot_v2_app.c:1050`); `PLATFORM_CONTRACT.md:57` asks for `IsReady` first. The models
  have it as `ReadyGate`; the properties of `ota_lifecycle` need it.
* an image that reports another version than it was released under is seeded again into slot 0
  after its confirmation, whichever slot is the stable one (`abox_boot_v2_app.c:476`):
  `Misnamed`, empty in the run and in the proofs.
* three failures of a trial need not be consecutive (`abox_boot_v2_boot.c:33`;
  `PLATFORM_CONTRACT.md:59` says they are): a good boot in between does not reset the count.
* a product that adopts a parked request in its `publish` and publishes it there has `Begin`
  refuse the publish: the job's id is the parked storage, which `QueueResponse` empties
  (`abox_cloud_service.c:309`, 217, 354). The response is published again by a later poll. The test
  asks `Next` again after adopting (`tests/abox_cloud_service_test.c:330`).
* an event's report begins at the cursor another report left (`abox_cloud_service.c:388`,
  header line 117).
* `ABoxMqttEc800_CancelPublish` of a queued command leaves `command_pending` set for ever
  (`abox_mqtt_ec800.c:678`, against the comment at 70): `Stranded`, which `StopEnds` excepts.
* `ABoxMqttEc800_Publish` does not look at `paused` (639-643; `abox_mqtt_ec800.h:97`).
* a publish of QoS 0 carries identifier 0, and so does every other: a late `+QMTPUBEX` confirms
  the next one. `ConfirmedByOwn` is about QoS 1.
* `ABoxMqttRuntime_Stage` in PREPARED overwrites `requested`, and READY commits it as active
  although another configuration connected (`abox_mqtt_runtime.c:169`, 57;
  `docs/internal/mqtt_runtime_contract.md`, section 4, reports "the committed active").
* `OnModemReset` starts `requested`, where `abox_mqtt_runtime.h:31` says the active
  configuration is applied again.
* a failed set-up or binding keeps its lease until the modem is reset: a restore of a TLS
  configuration then fails in `prepare_tls`, although section 2 of the contract has the
  restore withdraw binding and lease.
* `RecoveryComplete` answers UNENROLLED when nothing was committed yet, and `StopFirst` then
  returns 1, "fully stopped", whatever the transport does.

## 5. What is proved

The modules that are proved about, what each theorem rests on, and along which argument:

`DeviceProofs`, on `BootState`. The inductive invariant says what a page can hold while a save
runs: the victim is not the selected page, its sequence is the next one as soon as its first
word is written, the other page is untouched, and no valid page carries a sequence higher than
the selected one's. From it follow the type invariant, `SparePageOnly`, `SavedIsLoaded` and, step
by step, the refinement `Spec => ImplementsAtomicRecord`, for every record content, every
number of words and every bound.

`DeviceProofs`, on `AppService` (the names of its specification begin with `Loop`, so that one
module can speak of both). `StreamIsWhole` proves `NeverTorn` for any ring that divides the range of
its counters, and any stream and DMA spans. `NeverTorn` alone is not inductive, since what the client is fed was put into the ring
many steps before. `StreamInv` adds that, while the receiver is live, the ring holds a run of the
stream: a byte `b` that the client waits for (or any, after a break it was told of), each byte
the successor of the one before, and the modem's next byte the successor of the last unless a
restart is due; and that outside of such times the client was told (`Told`). Under it lies the
arithmetic of the ring, for counters that wrap: a remainder taken on the way changes nothing, so
a wrapped counter still names its place (`Wrapped`), a push stores behind the run and touches
none of it (`Stored`, `PushKeeps`), a drain leaves the rest of it (`TakeKeeps`). It uses
that the ring divides the range of its counters, or that the tail has not passed the head
(`Aligned`). The product's ring of 1152 bytes does not divide 2^32, and there it is not true for
ever: with a ring of three and counters of four TLC finds `NeverTorn` violated at the first wrap.
`StreamIsWholeUntilWrap` is what holds for such a ring: the stream is whole as long as the
reception is restarted before its head comes within a DMA event of the end of its range, 4 GiB
after the last restart in the product. `PowerCyclesAreSpaced` proves `RestartsSpaced` for any tick and
any cooldown below half its range: until the cooldown is over, the distance to its end is
exactly what is missing, which is on the negative half of the tick.

`OtaLifecycleProofs`. `TypeOK` and the properties of the run are not inductive: what the Boot
does next depends on its copy `r` and on the step it is at. `IInv` adds, for every `pc`, what
`r` is relative to `rec` and `flash` (for instance: at `jump_save` the image to be jumped to
is in Flash whatever becomes of the save; at `erase` and `program` the record already says
INSTALLING or ROLLBACK), and for every App phase which slot may be open and what is in it.
One lemma per action, a theorem per property, and `EraseIsJournalled` besides. The theorems
assume `ReadyGate` and `Misnamed = {}`, for the reasons above.

`GivenUpForItsOwnFailures` proves `FailuresAreItsOwn` of `OtaTrials`, under the same assumptions.
A failure is counted in the record some steps after it happened: the mailbox, the reset flags
and the Boot's copy of the reset reason carry it there (`Pending`), the save that counts it may
fail and have its effect all the same, and power may be lost in between. `Counted` bounds the
record by what happened (`causes`): it is ahead by at most one, and by none while a failure is
pending, at every step of the Boot.

`OtaLifecycleProofs`, on `UfsDownload` (the names of its specification begin with `Download`).
`DownloadsImplementTransfer` is the refinement of `VerifiedTransfer`, for an image of any length.
It is not true of every `Backlog`, for a late OK answers whatever runs: a listing or a transfer
into the file that nobody waits for any more must not speak for the present session. The theorem
assumes `Backlog <= Settings + 4`, which is twelve for the eight settings of the code: before it
asks for the file a session has written as many commands, and each of them came after what an
earlier session left behind. `Aged` of the invariant (`DownloadInv`) is that argument: a listing
on the wire, or a store not yet carried out, is the downloader's own or has at least the
commands of the session (`Behind`) after it. Hence a listing that finds the file whole is the
downloader's own (`Vouched`), the modem has nothing else from then on, the file stands still
while it is read (`ReadAlone`, `Storing`), and a recorded image leaves a modem without work
(`Over`). TLC finds the refinement still true for one answer more.

`DeviceProofs`, on `OtaStaging` (the names of its specification begin with `Staging`).
`StagingImplementsTransfers` is both refinements of `VerifiedTransfer`, for any number of probes
and of chunks of either file, under a bound of the same kind: `Unanswered <= Probes + 1`, which
is sixteen for the fifteen probes of the code. `StagingInv` has three parts. While provisioning
asks for the capabilities, what an earlier work left on the wire has the probes sent so far
behind it (`Aged`), so that by the first read of the CA file none of it is left. From then
on the wire has only what this provisioning, and the seed after it, have come to: commands of no
higher rank than the state (`Ranked`, `Bound`), and of an upload or a write only the one under
way. A file is therefore read with nothing on the wire that could change it (`ReadAlone`), what
was compared is what the file holds (`Compared`), and what the platform or the record relies on
stays as it was (`CaStays`, `SlotStays`). With two probes TLC finds no violation for up to six
answers (three are proved) and one for the CA file at seven: provisioning begun anew again and
again lets its reads, and the deletion of a repair that was given up, lag one round behind; the
late read vouches for the file, and then the late deletion removes it from a platform that
counts as provisioned.

`Ec800AtProofs`. The invariant (`ClientInvariant`) is bookkeeping that the answers depend on:
queued, active and detached commands are disjoint and in one place each, the history agrees
with the tables, commands are detached only while `terminate_all` runs. `ClientKeepsPromise`
is the refinement of `CommandService`, a step or a stutter for each action, for any set of
commands and owners and any table size. `RepliesAreOwn` proves `ReplyIsOwn`: while the owners
are `Disciplined`, every line on the wire belongs to a command that is still active.
`AdaptersInStep` proves `AdapterInStep`, for which the invariant has to add that an owner behind
an adapter has at most one command in the client (`OneEach`): what is answered or withdrawn is
then the command the adapter waits for, also while `terminate_all` tells them one by one.

`ConfigTrialProofs`. `Step` and `Invariance` establish what each state of the trial implies
for the deferred action, the product's work and the network; from it the type invariant, `NetInStep`
(`ConnectionIsTheTrials`), `ActionInTime` (`NoLateAction`) and the refinement of `ConfigSwitch`
(`TrialSwitchesOrLeaves`), for any set of configurations and any number of trials.

`CloudServiceProofs`. The invariant relates the service's record to what is known outside of
it: `Sound` (stage, job and cursor agree), `Publishing` (the job in flight is the publish that
was begun), `Confirmed` and `Told` (what was told on this connection), `Answers` (a response
waits only for a request that was accepted). Every handler is a function of the record and
keeps it; `Poll` composes two of them. From it `BootstrapAlwaysWhole`, `ResponseAlwaysFirst`,
`QueuedAlwaysReported` and the refinement of `CloudBootstrap` (`CursorIsKept`), for any number
of requests, states and publishes. A publish whose `Begin` was refused stays on the wire
with no job in flight (`ParkedIssued`): only a response can.

`MqttTransportProofs`. `IInv` says of the record what each state admits (`Record`: which command
may be pending in which phase, when the workspace is lent, when a publish is under way), and of
the modem which lines it may still owe and for which client (`Modems`, `Owned`). `Moves` is what
one turn of `Poll` may do to it, `Reports` what a step may tell of a publish. From it
`ClientKnown`, `LoanIsQuiet`, `StopsDrained`, `ConfirmsOwn` and the refinement of
`PublishContract` (`KeepsContract`), for any number of publishes, clients, configurations and
subscriptions.

`MqttRuntimeProofs`. Every handler is a function of the record, and one lemma per handler shows
that it keeps `Line` (operation, command and modem agree) and `Phases` (what each phase implies
for lease, binding and session). From it `AlwaysSecured`, `LatchHolds` and `StopsClean`.

`EnrollmentProofs`. `IInv` has the types, the sanity of both records, request and adapter in step
(`InStep`), what an adapter at rest means (`AtRest`), the session in the modem (`Opened`) and
what the box believes of the server (`Honest`). Late answers make the difference: a state of the
adapter says nothing of the modem unless the command that led to it cannot be answered by an
older OK. `RequestAlwaysInStep` follows. So does the refinement of `EnrolmentRequest` (`RequestIsKept`): every
action moves the core as `Allowed` says, by asking, by an answer or while the asking goes on as
it did, and what an answer says is still true of the server when it arrives (`Honest`).
`OnlyPinnedCaIsTrusted` proves `TrustsPinnedCa`, with an invariant over adapter, wire and file
(`Pinned`): while the adapter lists or reads the file, its own command is the only one the modem
has (`ReadsAlone`); while it replaces the file, only listings and deletions come first
(`Replaces`); so what it has compared is what the file holds (`Compared`), and once it trusts the
file, only HTTP commands are left on the wire.
`NoSessionIsLeftOpen` proves `SessionClosed`. It is not true of every `Backlog`: after a row of
timeouts every late OK answers the next command, a POST that nobody waits for any more is given
its prompt by the URL command of the next request, and its OK is taken for that of QHTTPSTOP.
The theorem assumes `Backlog <= Settings + 3`, which is sixteen for the thirteen settings of the
code. Its invariant (`Sound`) gives each POST left behind an age: the commands a request has
to send from one POST to its next payload (`Sends`) are all behind it on the wire (`Aged`), so a
modem that owes no more than those has answered it when a payload is prompted. An open session
is then the one the adapter posts to, reads from or stops (`Accounted`), and QHTTPSTOP is taken
for done only when it is (`Stopped`). A blocked adapter may leave a session open, but starts
nothing before the modem restarts. TLC, with one and with two settings, confirms
`SessionClosed` for one answer more (`Settings + 4`) and finds it violated for two.

Only model-checked, and why:

* The liveness properties (`BootReachesApp`, `FaultyRolledBack`, `AllSettle`, `TrialEnds`,
  `AllReported`, `StopEnds`, `Settles`, `DownloadEnds`, `StagingEnds`, `SessionReopens`,
  `RequestEnds`): liveness under fairness and ENABLED are out of the prover's reach.

Out of reach as well are induction over data with the library's theorems that take an operator,
and anything that depends on a RECURSIVE operator; no module that is proved about declares one.

## 6. What is not modelled

Most lines under `src/` are not this project's: HAL, CMSIS, cJSON and start-up code make up nine
tenths of them, and hold none of the behaviour described here. Of the platform's own code
(about 10,300 lines without comments) just under half are mapped. The rest:

* Vendored and generated code, the build, the tools and the tests.
* Of `abox_boot_v2_app.c`: a port without `mqtt_stop` (`ST_MQTT_DISC`), which the platform does
  not have; the states from `ST_HTTP_STOP` to `ST_HTTP_READ`, which nothing enters since the
  downloader is a component of its own; the lengths of the delays; the texts.
* The MQTT receive parser, but for the lines it reports (`abox_mqtt_ec800_rx.c`), and the pieces
  of the bridge that copy a message; `RequestReconnect`, which nothing calls.
* Pure codecs (digests, SHA-256, number formatting, JSON builders): functions of their
  input without state; their tests cover them better than a bounded model would.
* The log ring, the clock and time synchronisation, board I/O, diagnostics and ICCID: state of
  their own that no other component's correctness depends on. The log ring is worth a module:
  its readers compare a distance with `LINE_COUNT`, which the count itself never exceeds.
* The legacy OTA path in `components/legacy`: kept for products that have not migrated.
* Times as numbers, but for the cooldown in `AppService`: a deadline is an action that may come
  at any time after it was armed.
