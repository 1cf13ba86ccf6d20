# Verification of the JUXTA5-8 firmware

This directory holds TLA+ models of the production firmware in
`applications/juxta5-8-prod/src` and of the reference firmware it descends from,
in `Reference/nRF`, model-checked with TLC on small instances, and proofs about
them checked with TLAPS. All paths below are relative to the production
firmware's `src` directory, or to `Reference/nRF` in the parts about it.

The firmware is a small animal-worn logger: it counts motion, scans for other
devices, appends rows to CSV pseudo-files in a NOR flash, keeps a one-second
"draft" of the session in a ring at the end of the same flash, and lets a
gateway fetch the files over BLE. It loses power without warning and must go on
from what the flash holds. The reference firmware does the same on another board:
binary rows in an FRAM, which needs no erase, and no shelf.

## Inventory

| Component | State it keeps | Operations | Talks to |
|---|---|---|---|
| NOR CSV log, `juxta_log.c` | flash regions JXS, JXV, JXB; in RAM the file table, the three active slots, `region_full[]`, the last calendar day; a copy of the table in NVS | `init`, `append_event/vitals/ble_observation`, `format`, `list_files`, `find_file`, `read_file_for_transfer`, `memory_level_percent`; all under `s_log_mutex` | settings (cache), every producer of rows, Hublink |
| Checkpoint ring, `juxta_checkpoint.c` | flash ring of 32-byte records; in RAM head, next sequence number, newest record, `s_scanned`, `s_disabled` | `init`, `load`, `write`, `reset`, `disable`, `erase`; all under `s_lock` | the 1 Hz work item, boot, shelf entry, clearMemory |
| Settings, `juxta_settings.c` | NVS keys: settings, op_mode, boot count, log cache, breadcrumb; RAM copy | load/save, `set_op_mode` (skips equal values), early read | everything |
| Clock, `juxta_time.c` | Unix time and its uptime base, retained snapshot with checksum | `set`, `now`, `ymd`, `date_string`, `retained_update/valid/unix/invalidate` | boot, log, 1 Hz timer, Hublink |
| Power-fail witness, `juxta_pof.c` | retained witness written in the POF interrupt | arm, take | forensics rows |
| Life cycle, `main.c` boot part | op_mode, reset reasons, retained RAM, LED state | boot decision, shelf entry and wake, DFU, recovery boot, forensics, draft flush, activation | all of the above |
| Radio and vitals, `main.c` timers and work items | advertise/scan state, scan queue (16), scan table (64), motion counter, magnet hold | 1 Hz work item, scan start/stop, vitals row per `vitals_interval_s`, magnet loop | log, ring, Hublink |
| Gateway commands, `ble_service.c`, `juxta_settings.c` | settings in RAM and in NVS, rows that wait for the clock | look up each field in the text, apply, save, reply; the one-shot rows of a boot | settings, log, life cycle |
| Hublink GATT service, `ble_service.c` | connection, listing buffer and offset, transfer entry and offset, two flags | filename write (a name, or `LIST`), confirmations, gateway commands, connect, disconnect | log (list, find, read), settings, main callbacks |
| LED, ADC, accelerometer, watchdog | none the others depend on | pure I/O | - |

The reference firmware:

| Component | State it keeps | Operations | Talks to |
|---|---|---|---|
| FRAM file system, `lib/juxta_framfs` | on the chip a header, file entries, a table of MAC addresses, settings, data; in RAM a copy of the headers, the active file, its date | `init`, `format`, `ensure_current_file`, `append_*`, `seal_active`, `mac_find_or_add`, `read`, `clear_*`; encoders and decoders of rows | FRAM driver, minute rows, Hublink |
| Application, `applications/juxta-ble/src/main.c` | radio state, scan queue and table, flags of the first session | first session until the clock is set, `state_work_handler`, connection callbacks, minute rows | file system, Bluetooth stack |
| Hublink service, `applications/juxta-ble/src/ble_service.c` | one transfer: name, size, offset, state | list, fetch by indications or reads, commands | file system, application |
| Drivers and test applications | none the others depend on | bus I/O, one peripheral each | - |

Three execution contexts share this state in each of the two: the main thread (boot, then the
magnet loop), the system workqueue (1 Hz work item, clearMemory, vitals rows),
and the Bluetooth receive thread (GATT callbacks); interrupts add the motion
counter, the timers and the power-fail warning. Power cuts, brownouts and
watchdog resets end all three at any point.

**What is hard to test**, and what makes each component correct:

* NOR log: power lost in the middle of a rotation, of a row or of an erase; the
  cached table of an older time; a region that fills in the middle of a
  rotation; days that change between the calls. Correct when every row
  accepted is in exactly one file a gateway can fetch, in the file of its day,
  never changed, and the next row goes behind the last one.
* Ring: torn records, erase on entry at the wrap, failed operations, wipes
  interrupted or run from another thread. Correct when a boot finds the last
  record put, nothing is programmed over remains, and a session that was ended
  cannot come back.
* Life cycle: two threads entering the shelf, resets between two NVS writes,
  decisions taken before the settings are loaded. Correct when a session
  resumes exactly when the operator has not ended it.
* Hublink: writes that arrive in the middle of a transfer, disconnects between
  indication and confirmation, a file that changes while it is sent. Correct
  when what the client gets is a prefix of the file, and the whole file when it
  gets the end mark.
* Radio and vitals: counters read and reset by one context while another may
  skip the row; bursts that a timer, a work item or the magnet loop ends. Correct
  when every motion interrupt is accounted for, a burst reports each device once
  and at its strongest, and the radio never stays on, nor off, for want of a timer.
* Gateway commands: numbers at the edge of a field, records of older firmware, a
  write that is refused, rows that wait for a clock that comes in the
  middle of a connection, a supply sag between count and checksum. Correct when
  what was acknowledged is in force at every later boot and the rows of a boot
  come in order and once.
* FRAM file system: power lost between the writes of one operation, a failed
  write in the middle, a table that fills in the middle of a row. Correct when an
  acknowledged row stays whole in its file and its indices lead to its addresses.
* Reference application: a connection while a command to the controller is out,
  a refused start or stop, a flag set after the event it announces. Correct when
  scans go on and a gateway can come until the clock is set.
* Reference Hublink service: requests in the middle of a transfer, indications
  that are refused. Correct when a client that waits gets exactly the file.

`PROJECT.json` lists every component, and under `hazards` each of these at its
line.

## Modules

| Module | Models | |
|---|---|---|
| `NorLog` | `juxta_log.c`, its cache in `juxta_settings.c`, its callers in `main.c` | detailed |
| `RowJournal` | what the log promises: per type an append-only journal | abstract, `NorLog` implements it (proved while the file table has room) |
| `MCNorLog` | region sizes for TLC | |
| `NorLogProofs` | theorems about `NorLog` | |
| `CheckpointRing` | `juxta_checkpoint.c` and its callers | detailed |
| `DurableDraft` | what the ring promises: a boot finds the last record put | abstract, `CheckpointRing` implements it |
| `CheckpointRingProofs` | theorems about `CheckpointRing` | |
| `Hublink` | `ble_service.c`: listing and transfer, with the log reduced to one type | detailed |
| `HublinkProofs` | theorems about `Hublink` | |
| `Lifecycle` | `main.c` from reset to System OFF, with op_mode, breadcrumb, boot count and retained snapshot | detailed, the ring reduced to its newest draft |
| `LifecycleProofs` | theorems about `Lifecycle` | |
| `Radio` | `main.c` in production: state machine, vitals, checkpoint tick, motion, magnet | detailed, rows and drafts reduced to the motion count |
| `MCRadio` | settings for TLC | |
| `RadioProofs` | theorems about `Radio` | |
| `Gateway` | `juxta_settings.c`, the commands of `ble_service.c`, the one-shot rows of `main.c`, `juxta_pof.c` | detailed, boots reduced to their kind |
| `JsonFields` | how a command's fields are looked up | operators, used by `Gateway` |
| `Calendar` | `juxta_time_ymd`, the battery percentage | functions and their reference definitions |
| `MCGateway` | messages and stored records for TLC; the comparisons of `Calendar` and `JsonFields` | |
| `GatewayProofs` | theorems about `Gateway` | |
| `FramFs` | reference: `framfs.c` | detailed |
| `FramCodec` | reference: encoders, decoders, the table served as a file | operators |
| `MCFramFs` | rows for TLC; the comparisons of `FramCodec` | |
| `JuxtaBle` | reference: `main.c` of juxta-ble | detailed |
| `MCJuxtaBle` | stored modes and intervals for TLC | |
| `ReferenceProofs` | theorems about `FramFs` and `JuxtaBle` | |
| `RefTransfer` | reference: `ble_service.c` of juxta-ble | detailed |
| `RefTransferProofs` | theorem about `RefTransfer` | |

The modules meet where one component calls the other: `NorLog` contains the cache
it keeps in NVS and the calls of `main.c`; `CheckpointRing` contains the shelf
entry, clearMemory and the 1 Hz item as far as they touch the ring; `Lifecycle`
has both as their abstract promise; `Hublink` has the log as a frontier and a
table; `Gateway` extends `JsonFields` and has the log as rows, with or without a date,
and whether a JXS file is open for them; it takes the log to have room.

### NorLog

Flash is modelled in cells: one cell is a line of a file (`name`, `cols`,
`start` for the day_start row, `row`, `eof`) or a fragment of a longer line
without its newline (`part`). Programming a cell that is not erased ANDs the two
contents; unless both are the same fixed text the result is `smear`, which
nothing recognises. A cut in the middle of a program leaves any prefix of the
cells, the last one perhaps torn; a cut in an erase leaves any number of leading
sectors erased. A row or name is told apart by its calendar day, which is
all the properties need.

Every `juxta_log_*` call is an agenda of tasks (`todo`), made when the mutex is
taken: on a new calendar day `ensure` for each type in the order of
`regions[]`, then `ymd` (remember the day), then `ensure` and `row` for the type
itself; for `juxta_log_format` an `erase` for each region and `clear`.
`ensure_file` is one action per flash or NVS write, in the order of the code:
`EnsureReturns`/`EnsureLatches`/`EnsureBegins` are its checks, then `CloseOld`
(#EOF), `WriteHeader` (header and table entry), `WriteDayStart`, `SaveCache`.
Between any two of them power may be cut (`PowerCut`), a flash operation may
fail (`WriteFails`, after which the call unwinds), or the NVS write may fail
(`SaveFails`, which the code ignores).

A boot takes its table from the cache (`BootFromCache`: only active entries are
reconciled, as in the code, and `closed` is discarded), by scanning the regions
(`BootByScan`), or erases what it does not recognise (`BootFormats`); then it
runs the agenda of `juxta_log_init`: files for the day, and the boot row. A
failed init ends in the hardware-fault loop (`FaultIndication`).

`Env` switches on what the environment may do beyond power cuts outside an
erase; each run names its own choice, so that a property says under which
circumstances it holds.

### CheckpointRing

One slot is erased, holds a record, or is torn. Every public function is split
at its flash operations: `Scan` (`ensure_scanned_locked`), `StartWrite`,
`EnterSector` (the on-entry erase), `ProgramSlot`; `StartWipe`, `WipeSector`,
`FinishWipe` for `reset` and `erase`. While `s_lock` is held no other function
runs, so `op` is the one in progress. The callers are `enter_shelf_mode`
(`Disable`, `EraseForShelf`, `SystemOff`), activation and clearMemory (`Reset`)
and the 1 Hz work item (`StartWrite`). An erase or program that is cut or fails
leaves each slot as it was, erased, or torn.

`halfWiped` is a history variable: a wipe has failed half way and nothing has
set the head since. The code returns from `erase_ring_locked` at once and leaves
head and newest record in RAM as they were, while some sectors are erased. The
head may then be anywhere: `HeadClean` and `EntrySparesNewest` are stated outside
that window, and for `DurableDraft` the wipe is still going on
(`wiping <- op = "wipe" \/ halfWiped`), during which alone an older
record may become the newest.

### Hublink

GATT writes, reads and confirmations are handled one at a time on the Bluetooth
receive thread, so each handler is one action, except that
`write_filename_char` makes two log calls (find, then the first read) between
which the workqueue may log a row or erase the log: `WriteFilename` and
`SendFirst`, with `starting` in between. `ConfirmTransfer`, `ConfirmListing` and
`IndicationFails` are the two confirmation callbacks. `Sent` and `Refused` are
the outcomes of `send_indication`: a second indication while one is out is
refused with `-EBUSY`, and the host may refuse any (`HostFault`).

The log is one type, in cells: frontier, file table, number of erasures. A cell
is told apart by where it is and after which erasure it was written, so a
download that mixes two files, skips or repeats a cell, or reads beyond the
payload differs from `want`, the payload when the file was found. That an open
file grows, that midnight closes it (its `#EOF` is not payload) and that
clearMemory erases it under the transfer are actions of the log (`LogRow`,
`Midnight`, `ClearMemory`). How the log itself works is `NorLog`'s subject.

The gateway is part of the model: what it asked, what it has received, and
`tangled`, a history variable set when it asked while an indication was out or
read the filename characteristic, which rewrites the buffer a listing is sent
from. What it may rightly expect (`DownloadIsPrefix`, `ListingIsSnapshot`) is
stated for a gateway that is not tangled; `ActiveIsDriven` for every gateway.

### Lifecycle

A boot decides from `RESETREAS`, op_mode, the draft and the retained snapshot
whether it resumes the session of the life before. `pc` is where the main thread
is: `StartMain`, the shelf entries before the settings are loaded (`EarlyShelf`:
battery gate, fresh boot, magnet not held), DFU, the five outcomes of the
recovery decision (`Recovers...`, `ResumesDraft`, `NoRecovery`, each with the
initialisation before it), the sync gate, `Activates` (with the ring's wipe as
`RingReset`), `EntersProd`, the identity rows and the magnet loop. `wq` is the
system workqueue, which runs one handler at a time: a shelf entry for a low
battery or a gateway's reset, clearMemory, the 1 Hz `Checkpoint`. `rx` is the
Bluetooth receive thread between the calls of
`juxta_ble_datetime_synchronized`. `Tick` is the timer's interrupt.

`enter_shelf_mode` is the steps `Claim` to `ShelfPowersOff`, run by whichever
thread came first (`owner`); the other is parked. Each NVS write and each wipe
is a step of its own, so a cut, a reset, the other threads and the timer may
come in between. `current_op_mode` is the copy in RAM that
`juxta_settings_set_op_mode` compares with, `shelf` at every reset until
`juxta_settings_init`. `lock` is the ring's mutex as far as a wipe holds it.

Sessions are numbered. `ending` says how far the last one has been ended, `owed`
that it has a draft and nobody has begun to end it (shelf entry, clearMemory, a
new session), `told` how many rows have reported the breadcrumb in NVS, `missed`
how many deletes of it have failed or were cut off by a reset: history variables,
which no action reads. A draft or snapshot is the number of its session.

### Radio

One second is one `Tick`; what falls due in it is handled before the next one, in
any order. Each of the four timers counts down in `timer`, `work` is the
workqueue, `job` where the handler in progress stands: a handler is cut wherever
it waits for the controller (`StateHandler`, `DrainEvent`, `FlushTable`,
`StartScanning`, `StartAdvertising`, `PhaseStarted`, `WaitForDeadline` are
`state_work_handler`), so the scan callback, the motion interrupt and the magnet
loop may come in between. The vitals handler is `TakeMotion`, then `SkipRow` or
`WriteRow`, then `BrownoutShelves`. `MagnetCommits`, `MagnetStopsScan` and
`MagnetNotesIdle` are the three statements of the magnet loop that race with the
workqueue. `ble_state` is what the firmware believes of the radio, `radio` what
the controller does. `last_adv_ts` and `last_scan_ts` are kept as ages that
saturate at the longest interval.

`moved`, `reported`, `lost`, `heard` and `skips` are history variables. Cuts,
failures, the magnet and a low battery are counted together as troubles.

### Gateway

`SettingsInit` loads and sanitises the record; `CommandArrives` is
`apply_gateway_command` up to `juxta_settings_update`, `CommandApplied` the save,
the reply and the rows. `Update` saves first and copies then, as the code. The
boots are reduced to their kind (`wake`, `resume`, `resync`, `plain`), which
decides the one-shot rows (`Identity`). `LogInit` is `juxta_log_init`: a boot that
resumes has its clock by then, so a file is opened and a first boot row written,
before the one of `log_boot_identity`. A row without a date goes to the JXS file
that is open (`jxs_open`), or nowhere; `ClearsMemory` closes it. The power-fail handler is `Sag` (count)
and `SagSealed` (checksum), and a reset may fall between the two.

`JsonFields` has the text of a command as the sequence of its fields: each reader
looks for the first place of a key, takes a value of its kind or none. `Parsed`
looks for all of them. `Calendar` has `juxta_time_ymd`'s subtraction of whole
years and months as recursive functions beside a definition by counting days; the
ASSUMEs of `MCGateway` compare them for every day of 32-bit time.

### FramFs and FramCodec

An operation decides on what it reads when it starts, and its writes go to the
chip one by one (`todo`, `juxta_fram_write`); `phase` names what follows them.
Between two writes power may be cut, and a write may fail (`WriteFails`), after
which the operation returns with the context as the code leaves it (`CtxBefore`).
`EnsureWrites` is `juxta_framfs_ensure_current_file` with sealing, reuse of the
file of the day and creation. `FindOrAddMac` runs once per address of a row,
`AppendRow` puts its cells, then the entry's length, then the header with the new
end of data.

`FramCodec` has the bytes: rows with devices, simple records, ADC bursts and
the MAC table in pieces. `MCFramFs` compares encoders and decoders at
the edges of every field.

### JuxtaBle

`main` is where the main thread is, `restart` the work item that restarts the
first session's advertising, `pc` the step of `state_work_handler`, cut wherever
it writes to the FRAM or waits for the controller. An armed timer may expire at
any time. `HandlesNothing`, `StopsBurst`, `StartsScan`, `StartsAdvertising`, `Waits` ask;
`BurstStopped`, `StopFails`, `ScanStarted`, `AdvertisingStarted`, `StartFails`,
`GatewayStartFails` are the controller's answers. `gave_up`,
`let_go` and `missed` are history variables that name the ways in which the code
stops for good. `settings` is the operating mode and the two intervals in the file
system: a gateway may save any byte (`GatewayWrites`), `main` (`MainRuns`) and
`disconnected` read the mode again, the handler the intervals. Modes are `NORMAL`,
`ADC_ONLY` or anything else (`UNKNOWN`), which `main` runs as `NORMAL`.

### RefTransfer

Handlers run one after the other on the Bluetooth thread, so each is one action.
`pending` is the indication that is out: a second one is refused and nobody looks
at it (`send_indication`). The offset moves on when a chunk is read, before it is
known whether it went out. The client is part of the model: `asked`, `wanted`,
`got`, `told`, and `pushy`, set when it did not wait for the end of a transfer.

## Runs

| Run | Question | Result |
|---|---|---|
| `days` | two types, two days, one cut, rows with and without a clock, clearMemory | every dated row in exactly one fetchable file, of its day; appends at the frontier; a dated call gets to its day; a rotation once begun completes; implements `RowJournal` |
| `harsh` | two regions that fill, clock set back, draft flush, flash and NVS errors, lost cache | types, no file leaves its region, the day the log remembers has a file of every type whatever failed (one not latched, in a table with room) |
| `ring` | three sectors of two slots, a lap and more, two cuts, one failed operation | types, clean head, entry spares the newest, quiet on the shelf, implements `DurableDraft` |
| `hublink` | a log that grows, rotates or is erased under listing and transfer; overlapping requests, one fault, disconnects | a download is a prefix, with the end mark all of it; a listing is one moment's and lists what can be fetched; nothing stays active with nothing out; requests finish |
| `life` | five boots, cuts and resets anywhere, low battery, gateway reset and clearMemory, one failed NVS write, wipe or initialisation | an interrupted session can be resumed, one that ended with System OFF is not, a draft resumed is of the last session, production with a clock has its rows, a breadcrumb is reported once, a shelf entry ends |
| `radio` | two modes, two devices over a queue of two, motion, skipped rows, a cut or a failure or the magnet or a low battery | a radio that is on is timed, a burst reports its best, motion is accounted for, scans recur |
| `gateway` | three lives, commands at the edges of the fields, clearMemory, stored records in and out of range, two sags, one failed write | what was acknowledged is in force, dated rows in order and a boot's own rows once (twice `boot` for one that resumes), a sag is reported by the next boot that knows the time; calendar, percentage and lookups agree with their references |
| `framfs` | three rows over three addresses, two files, two days, one cut or one failed write | acknowledged rows stay whole, indices lead to addresses; the codec reads back what it wrote |
| `juxtable` | a device and a gateway that saves modes and intervals, one refused command, low battery, minutes | the state machine is driven, a gateway can come until the clock is set, scans recur |
| `transfer` | a file and the table, two payloads, overlapping requests, one failed indication or read | a client that waits has a prefix of the file, and all of it if nothing failed; a transfer ends |
| `eof` | violation | closed files do not end with `#EOF` |
| `rollcut` | violation | two cuts, an undated row behind `#EOF` between them: the next `#EOF` is programmed over that row |

The type invariants of `Hublink`, `Radio`, `Gateway`, `FramFs`, `JuxtaBle` and
`RefTransfer` are stated in the modules and hold at the bounds of these runs; the
runs spend their time on the properties above.

**Bounds.** Regions are as small as they can be with the interesting cases still
in: a JXS file without rows takes three cells (name, columns, day_start), a JXV
file two, so regions of 8 and 5 cells hold two files with a row or two and have
no room for a third; four cells (`harsh`) hold one file and are full after it.
`DayStartLen` and `DayStartReserve` are one cell. Two days make one rotation,
three (`eof`, `rollcut`) a table that overflows. In `days` the table has room for
five files, one more than can be made, since the properties about rows are
stated for a table with room (see "Observed"); the runs with three fill it. Two power cuts (`rollcut`,
`ring`) let a recovery be interrupted and recovered from: the row `rollcut` loses is
written between the two. The ring of three sectors with two
slots and seven records goes round more than once; a single sector pair would
never have an entry erase that is neither the newest nor the next sector.
`MaxFaults = 1`: every property is about what one failing operation leaves
behind. `EntrySparesNewest` and `ImplementsDraft` need fewer failed operations than there
are other sectors; a flash that fails for a whole lap is out of scope.
In `hublink` six cells hold two files, chunks of two cells leave an odd rest, two
requests give every pair of overlapping ones, and one erasure can fall between
any two handlers. In `life` a session takes two boots when it starts (fresh power
goes to the shelf first), so five are room for a session, its interruption, a
failed early life, its end and what comes after. One fault shows what a single
failed operation does; the properties about sessions and `ShelfCompletes` are
stated for `faults = 0`, the others through it.
In `radio` an interval of three seconds stretched to four passes the cap, a vitals
period of two falls in and between bursts of one, and a queue of two is overrun by
two devices at two strengths. In `gateway` 16 bits are shrunk to 0..3 with the
clamp at 2, so that every field has values below, at and above each limit; three
lives are a wake, a reset with a witness and the boot that reports it; two sags make
a valid witness torn again. In `framfs`
three rows of one or two cells overflow four cells, two days make a second file,
and the table of addresses has one entry less than there are addresses. In `juxtable`
intervals of one second with a queue and a table of one make every order of the
two bursts; one fault shows each refused command. In `transfer` a file has two or
three bytes, sent in pieces of one or two: an odd rest, an exact fit, and a single
piece. The theorems have no bounds.

**Fairness.** `FairSpec` of `NorLog` assumes weak fairness of `Step`,
the next flash or NVS write of the call in progress. Driver calls are
synchronous and the mutex keeps other calls out, so a call that has begun runs
on. `FairSpec` of `Hublink` assumes weak fairness of `Answering`: the receive
thread returns from its handler, and a connected gateway confirms the indication
it has (the ATT protocol drops the connection of one that does not). `FairSpec`
of `Lifecycle` assumes it of the shelf entry, the wipe at activation and the
wipe of clearMemory: flash and NVS calls return, so whoever holds the ring's
lock gives it back. `Radio`: the kernel runs what is ready and time passes
(`Tick \/ Handler \/ MainSteps`, together: which of them is next is open), and a
shelf entry gets on. `JuxtaBle`: threads run, an armed timer expires, seconds pass
and the controller's commands succeed again and again; a command that fails at
every attempt is not excluded by the code, and then nothing recurs.
`RefTransfer`: a connected client confirms what it receives, as above. Nothing is
assumed about when calls or requests are made, about power, or about faults.

## Proofs

`NorLogProofs` proves for all types, region sizes, table sizes, days and every
choice of `Env`:

* `TypeCorrect`, `FilesStayInRegion`: `TypeOK` and `FilesInRegion` are invariant.
  Neither is inductive. `TypeOK` alone cannot bound the table, since
  `WriteHeader` appends without looking: that there was room was checked in
  another step. `IInv == TypeOK /\ FilesInRegion /\ Committed` adds what
  `ensure_file` established before it left its first stage (room in the table,
  a dated call, an open file to close), and that files lie in their region,
  which is what makes the scanned lengths of a boot numbers. One lemma per
  action, then `NextInv`, `InitInv`, `Inductive`.
* `RememberedDaysHaveFiles`: `RememberedDayHasFiles`, with no assumption about the
  clock, flash or NVS. `TouchInv` follows the day from the agenda to `ymd`: an
  agenda that records one ensures every type first and erases nothing (`Recording`),
  ensuring leaves the type a file, a full region or a full table, or ends the call
  before it records anything, and no later step takes a file back but the clearing
  that forgets the day too.

and, assuming `Calm`, for all types, sizes and days and any number of cuts, torn
writes, resets and rows without a clock:

* `AppendsGoToFrontier`, `RotationsComplete`: `AppendsAtFrontier` and
  `RotationCompletes`. What they need is what a cut leaves for the next boot, so
  `LogInv` relates the table in RAM, its copy in NVS and the flash: every region
  is programmed up to an edge and erased behind it (`Regions`), no file reaches
  behind the edge (`Behind`), RAM has the files of the cache and perhaps the one
  being opened (`Saved`), a rotation has written nothing but the old file's `#EOF`
  before its header (`Rotating`), the newest file of a type is open in RAM and in
  NVS, has no `#EOF` and ends at the edge if it is today's (`NewestOpen`,
  `NewestSaved`), and a day that is remembered has been seen to by every type
  (`DayDone`). `LogInvariant` has one lemma per action; the longest are the two
  boots, which must find at the edge what the last life wrote before it was cut.
* `RowsKeepTheirDay`: `RowsInFileOfTheirDay`. Payloads change at every boot, so
  `DayInv` speaks of the cells from the start of a file to that of the next of its
  type: dated rows in them are of its day (`Sorted`), and files do not overlap but
  for the `#EOF` a header may be written over (`Ordered`).
* `RowsAreDeliverable`: `RowsDeliverable`. That a row is found again depends on
  what the next boot does, so `SendInv` says it of the table in NVS: for each dated
  row there is an entry that keeps it, open with no `#EOF` up to it or closed
  behind it, and in RAM the same entry has the row in its payload (`AllSent`);
  names of a type's files are increasing days (`Named`), so that one file only is
  found under a name.
* `DatedRowsAreJournal`, assuming `Calm`, and `JournalImplemented`, assuming
  `Env = {}` (no row is logged without a date, so all rows are dated by `Stamped`):
  `Spec /\ []HasRoom` implies `RowJournal`'s specification, of the dated rows and
  of all rows (`ImplementsJournal`). The refinement mapping takes the rows where
  they lie, so that it needs no recursion and also says that no row moves.
  The step that matters is `RowsBeforeWrite`: whatever the next write to a region
  is (an `#EOF`, a header, a row), all dated rows of the region lie before its
  place, and none is of a later day. It follows from `SendInv` (each row is in
  the payload of a file), `DayInv` (the files do not overlap) and `LogInv` (where a
  rotation has got to); a write torn by a cut goes to the same place. `HasRoom`,
  the saved table has fewer than `MaxFiles` entries, is needed in each state: with
  a full table a row can be written over (see "Observed"), and so can an undated
  one with room, which is why the second theorem excludes them.

`Calm` is `Env \subseteq {"undated"}`: the clock is not set back, no row carries a
time before that, flash and NVS operations succeed, the cache is not lost, and no
cut falls in an erase. Each of these is a case where the code does not keep the
promise (see "Observed") or which only `harsh` looks at; cuts between and within
writes are not among them.

`CheckpointRingProofs` proves for every geometry and every choice of `Env`
unless stated:

* `TypeCorrect`: the head never leaves the ring.
* `HeadStaysClean`: from the head to the end of its sector everything is erased.
  The invariant adds `Phases`: what is known in the middle of a write.
* `ShelvedStaysQuiet`, assuming `"clearshelf" \notin Env`: once the ring is
  disabled for the shelf no record appears. The invariant `Shelved` says that
  the ring is then disabled and no write or enabling wipe is under way.
* `EntrySparesTheNewest` and `RingImplementsDraft`, assuming
  `MaxFaults + 1 < Sectors`: erasing a sector to enter it never costs the record a
  boot would recover, and every step of the ring is one of `DurableDraft` or a
  stutter. The invariant `RInv` adds that numbers and times of records
  agree and none occurs twice (`Numbered`), and that the head is at most one
  sector further ahead of the newest record than programs have failed
  (`Anchored`): each failed program moves the head on without a new record, and
  with as many of them as there are other sectors it would come round to the
  newest one. The code has 16 sectors.

`HublinkProofs` proves for every size, chunk and choice of `Env`:

* `ActiveStaysDriven`: `ActiveIsDriven` is invariant, so no order of requests,
  refusals, failed confirmations and disconnects leaves a transfer or listing
  active without an indication out whose answer ends it or drives it on. The
  invariant adds that the flags are Booleans and that a handler between its two
  calls has a connection.
* `DownloadsArePrefixes`, `ListingsAreSnapshots`, `ListedFilesAreFetched`:
  `DownloadIsPrefix`, `ListingIsSnapshot`, `ListedIsFetched`. `DataInv` says that
  the payload of the entry being sent lies below the frontier, where only an
  erasure writes again (`Found`), that what was received and what is out make up
  what was sent up to the offset (`Sending`, and `Slicing` for a listing), and that
  a file once listed is still in the table and no shorter (`Listings`). The
  properties alone are not inductive: they look at what has arrived, which is
  right only because what is out is.

`LifecycleProofs` proves for any number of boots and faults and every choice of
`Env`:

* `TypeCorrect`. `Places` alone does not say that a thread in the shelf entry has
  claimed it (`OneOwner`), nor `Numbers` that a boot starts one session at most
  (`OneSession`).
* `InterruptedStaysResumable`: `InterruptedIsResumable` is invariant. The
  invariant `RInv` adds that what has claimed the shelf, wipes the ring or comes
  out of System OFF owes nothing (`Ended`, `Wiping`, `Asleep`), that drafts are
  written in production only (`Ticks`), and that from `juxta_settings_init` to
  the shelf entry the copy of op_mode is right (`Copied`).
* `OffStaysEnded`: `OffEndsSession`. `Erased` is the argument: either the erase
  was the last write to the ring, or the main thread left production, then op_mode is
  no longer `prod`, and a draft that clearMemory's race let through is of no use.
* `NewestIsResumed`: `ResumesNewest`. `Entering` says what is in the ring in a
  boot before its session starts.
* `BreadcrumbReportedOnce`, `ProductionIsIdentified`: `ReportedOnce`, which counts the
  rows against the deletes that failed or were cut off, and `ProductionIdentified`. `CInv` adds that until the shelf saves this life's
  breadcrumb all there is to report is of earlier lives (`Fresh`), that a gateway
  is connected only while main waits for the time (`Linked`), so that two threads
  never report at once, and that the copy main and the receive thread
  report from is that of NVS (`Crumbs`).

`InterruptedStaysResumable`, `OffStaysEnded`, `NewestIsResumed` and the breadcrumb
part of `ProductionIsIdentified` are stated for lives without failed operations;
`Invariant` proves their parts together, one lemma per part and group of actions.

`RadioProofs` proves for any settings, devices and sizes:

* `MotionStaysAccounted`: `MotionAccounted`. The invariant adds that a count in
  hand belongs to the vitals handler (`HandsEmpty`), so that no other step loses
  it, and that only a cut leads to a boot that flushes a draft.
* `RadioStaysTimed`: `RadioIsTimed`. `TimeInv` adds what the controller does at each
  place the state machine's handler can be interrupted (`RadioKnown`), and that
  one which has begun to choose has ended the phase before (`Choosing`); it names
  whoever turns off what is on (`Timed`).
* `BurstsReportBest`: `BurstReportsBest`. `ScanInv` says that what was heard is
  queued or no stronger than the table has it (`Covered`), and that table
  and queue together never hold more than the queue's size (`Room`): the
  code drops an event when its table is full, which therefore never happens
  (assumption: the table is at least as large as the queue, 64 and 16 in the code).

`GatewayProofs` proves for any widths, stored records and messages:

* `AckedStaysInForce`: `AckedInForce`. It rests on lemmas about the conversions:
  sanitising makes any record sane and leaves a sane one alone
  (`SanitizedIsSane`, `SanitizedTwice`), and what a command makes of sane
  settings is sane (`AppliedInLimits`). The invariant adds that a readable record
  loads as it was acknowledged, before and after `juxta_settings_init`.
* `RowsStayInOrder`, `WitnessIsReported`: `RowsInOrder` and `WitnessReported`.
  `RowInv` adds that before the gate there is at most the boot row of a boot that
  resumes (`BeforeGate`), that the rows which waited for the clock are flushed
  together and no connection follows (`GateRows`), and what the witness in retained RAM, or the count a boot took
  from it, is worth in each phase of a life (`WitnessKept`).

`ReferenceProofs` proves about `FramFs`, for any numbers of files, addresses, cells,
days, rows and troubles:

* `FramTypes`: `FsTypeOK`, with the types of everything left to write (`TypeInv`).
* `AckedRowsStay`: `AckedRowsIntact`. `FramInv` is the argument. `Kept` says what the
  chip holds between any two writes, in whatever phase: the entries that count are
  of different days, one is active at most, and it does not end before the end of
  data in the header (`FilesApart`); no part of a row is there twice
  (`CellsApart`); an acknowledged row is inside its file and in front of the end of
  data (`AckedPlaces`), and behind the rows before it (`AckedInOrder`). `PhaseInv`
  says which writes are left in each phase, by their distance from the end of the
  script (`IsFormat`, `IsMacClear`, `IsClear`, `IsAppend`): that is what a cut or a
  failed write leaves undone. It also says that RAM and chip agree on the count of
  files (`InRam`) and that the file in use is the active one (`Chosen`). After the three
  failures of `spoilt` this no longer holds.
* `IdsLeadToAddresses`: `MacIdsResolve`. The table only grows while rows refer to it:
  an entry is written before the header that counts it (`Adding`), so a cut between
  the two leaves an entry which the next address overwrites; a new index is of use
  to its row only once it is counted (`RowMacs`). The clearing writes the table while
  there are no rows (`Nothing`). The theorem rests on `FramInv` for that.

About `JuxtaBle`, for any devices, gateways, saved modes and intervals and numbers
of faults:

* `GatewayCanAlwaysCome`: `GatewayCanCome`. The invariant adds what the flag
  `connectable_adv_active` says during a connection (`FlagTellsTruth`) and that
  the state machine is asleep until the first session is over.
* `RunStaysDriven`: `RunIsDriven`. The event of an expired timer is kept until
  the handler takes it (`EventIsKept`), and whoever keeps it has a handler coming
  or a connection whose end submits one (`EventIsDriven`).

`RefTransferProofs` proves for any files, payloads and requests:

* `DownloadStaysExact`: `DownloadIsExact`, through refused indications and failed
  reads. The argument is `Sending`: what is out continues what the client has, up to
  the offset, unless one was refused, then nothing is out and nothing follows; with the lemmas that a chunk
  has at least one byte and stops at the end (`ChunkLength`) and that adjacent
  pieces join (`BytesJoin`).

The assumptions are those of the modules' ASSUMEs: sizes are positive numbers,
the reserve for the day_start row is at least its length (256 bytes in the
code, the row is shorter), bounds are naturals.

**Only model-checked.** Liveness (`DatedCallsReachTheirDay`, `RequestsFinish`,
`ShelfCompletes`, `DownloadEnds`, both `ScansRecur`) is out of the prover's reach.
The conversions of `Calendar` and `FramCodec` are recursive or need induction over
data, and stay with TLC too. `ImplementsJournal` is proved without undated rows;
with them, TLC checks it for one cut.

## Observed while modelling

Beyond the two runs with a counterexample, in the production firmware:

* clearMemory erases the regions before the cache in NVS is dropped
  (`juxta_log.c:1127`). A reset in between boots from the old cache and continues
  its files over the remains, although the logging specification (453-459) says
  "no row mutation". The runs take clearMemory without a cut in its middle.
* A draft flushed after midnight (`main.c:2170`) carries the time of the day
  before, so the log opens a second file with an old name that no gateway can
  fetch; 2161-2165 say the row is recovered. Only `harsh` has such drafts.
* A clearMemory that is pending when the shelf entry has disabled the ring
  enables it again (`main.c:1678` after 433-435), against
  `juxta_checkpoint.h:56`; `ShelvedRingQuiet` is checked and proved without.
* The battery gate enters the shelf before the settings are loaded.
  `set_op_mode` compares with the default in RAM (`juxta_settings.c:372`) and
  does not write, so op_mode PROD stays in NVS, and a cut before the ring is
  erased resumes the session.
* A vitals tick during a scan writes no row and does not look for a brownout.
  When the scan period divides the vitals period every tick can fall in a burst,
  although `main.c:925-927` speaks of one sample (`SkipsAreSingle`).
* The magnet loop stops the radio and sets `ble_state` (`main.c:2230-2234`), but
  `state_timer` runs on, so that advertising restarts during the countdown the
  comment wants quiet (`QuietCountdown`); `ble_state` is written by two threads
  without a lock.
* A cut between a JXV row and the next checkpoint leaves a draft whose motion the
  row has already reported (`MotionReportedOnce`, `main.c:2165`).
  `MotionAccounted` is therefore about sessions without a cut.
* The scan table of 64 can never hold more than the 16 events of the queue.
* Production without a clock never scans or advertises: `juxta_time_now()` is 0 and
  no interval elapses. The README's pause of 100 ms before a scan is not in the
  code. A vitals tick submits the state machine and so may cut a burst short.
* The witness of a sag is reset by `juxta_pof_init` at the next boot, so it is lost
  if that boot ends before it knows the time, although the comment at `main.c:779`
  has each reported; a reset in the middle of `pof_warn_handler` loses it too.
* A timestamp of 0 in a command opens the gate without setting the clock; the rows
  that waited are marked as written, and are written without a date or, when no
  file is open, dropped (`main.c:1619`, 2107; `WaitingRowsFlushed`).
* A boot that resumes writes two boot rows, one in `juxta_log_init`
  (`juxta_log.c:1053`) and one in `log_boot_identity` (`main.c:763`), whose rows the
  comment at 750 calls one-shot; `juxta_log.c:1024-1027` leaves the boot event to
  the caller when there is no clock.
* A subjectId whose value is not a string takes the next quoted text of the
  message, which is the next key.
* A row with `unix_time` 0 is not always dropped (`juxta_log.c:668` only skips
  opening a file; `append_row` writes to whatever file of the type is open),
  although the application's README line 736 and `main.c:752` and 1095 say that such
  rows are. `RowsInFileOfTheirDay` exempts undated rows for that reason.
* Such a row can get lost. A cut in a rotation, after its `#EOF` and before the new
  header, leaves the old file open in the cache; the boot takes the length up to and
  with the `#EOF`, forgets that it closes the file (`juxta_log.c:977`) and continues the
  file there, which for a call without a clock means a row behind the `#EOF`. After a
  second cut the boot stops at the `#EOF` again and no longer counts the row; if it has
  the clock of a later day, its rotation closes the file again and programs `#EOF` over
  the row (`rollcut`). Rows with a clock are not affected: `ensure_file` first opens
  the file of their day. `RowsDeliverable` is about dated rows for that reason, and
  `ImplementsJournal` is checked for one cut.
* A full file table (`JUXTA_MAX_FILES` is 48, which three types fill in 16 days)
  makes `ensure_file` return before it rotates (`juxta_log.c:700`). A file whose
  rotation was cut by the reset before is then left as it was, open with an
  `#EOF` inside, and dated rows go behind it too. `RowsDeliverable`,
  `RowsInFileOfTheirDay` and `AppendsAtFrontier` are stated for a table with room.
* When the day_start row meets a flash error, `ensure_file` returns
  (`juxta_log.c:799-802`) after the new file is in the RAM table and before the
  cache is saved; later calls find the file by name and do not save. The comment
  at 691-698 promises all or nothing.
* When an erase fails inside a wipe, the RAM copy of the newest record stays,
  while the flash may not hold it any more (`juxta_checkpoint.c:343-349`).
* A gateway that writes a file name while an indication is out is told the write
  succeeded, but the first chunk is refused with `-EBUSY` and the transfer ends
  without an end mark; a second `LIST` ends the first in the same way. Reading
  the filename characteristic during a listing rewrites the rest of it.
* clearMemory during a transfer is not noticed by it: the rest of the download is
  erased flash, although the application's README line 510 says that only CSV is
  sent. `DownloadIsPrefix` is therefore stated for a log that is not erased.
* A silent reset with op_mode other than `prod` (in the shelf entry, in DFU or by
  MCUboot after an update) is neither a recovery nor a wake: `main.c:2111` skips
  the gate and production starts with no clock, although 2109 says "Never
  proceeds without a valid timestamp". It wipes the ring, dates none of its rows and is
  not connectable until the magnet ends it. `ProductionIdentified` is stated for
  production that has a clock.
* The 1 Hz timer is never stopped, so the snapshot that `enter_shelf_mode`
  invalidates (`main.c:464`) is valid again a second later if the erase takes
  that long. System OFF loses it; after a reset in the shelf entry and another
  in the production that follows, the old snapshot is resumed. `ResumesNewest`
  is therefore about drafts.
* With one failed operation an ended session may be resumed: the return codes of
  the wipe at activation (`main.c:2137`), of `set_op_mode` and of the erase are
  ignored.
* The workqueue may save a breadcrumb while the receive thread reports and
  deletes the one before: the new one is deleted unreported. A life that ends
  between the row and the delete reports its breadcrumb again.
* When a snapshot was valid, the draft of the same session is not loaded, so its
  motion count is lost (`main.c:2034-2045`).
* `enter_dfu_mode` is commented "does not return" where it is called, but returns
  when Bluetooth fails; main then goes on without clock and gate.

In the reference firmware:

* After a reboot on a later day `init_with_time` takes today as the date of the
  active file, which is yesterday's, so today's rows go there
  (`framfs.h:655-657` says otherwise; `RowsInFileOfTheirDay` of `FramFs`).
* A failed header write when a file is made leaves two active files; a failed
  read at boot is taken for an empty chip, which is formatted; a failed clearing
  leaves RAM and chip at odds. `AckedRowsIntact` names and leaves out these three.
  Clearing an entry writes 32 bytes over one of 24.
* A full MAC table drops the whole minute's row. A simple record of type 0 cannot
  be told from a row without devices. The decoder of ADC bursts expects a header
  one byte shorter than the one written. The library has no lock between the
  Bluetooth thread and the workqueue.
* A full scan table drops events even of devices it lists. The table is reset
  when a scan starts, so a minute's row lists the devices of the last burst only.
* A low battery in the minute row, a failed stop, and a failed gateway
  advertising (`main.c:791` says to move on) end the state machine for good;
  the watchdog is fed by a timer and does not notice (`gave_up`).
* operatingMode is saved as any byte (`ble_service.c:510-519`) and takes effect when a
  connection ends: one that lasts longer than the 30 s timer and ends with a mode
  other than 0 leaves no timer and no work (`main.c:1072-1091`), and the device
  neither scans nor advertises until it is reset (`let_go`). For ADC_ONLY the comment at
  1089-1090 says that the ADC timer continues, but only `main` starts that timer
  (1446-1451), so nothing runs. At the next boot a mode that is neither is run as
  NORMAL (1455-1460), until the first long connection.
* An interval of 0, "none" in `HUBLINK.md:54-55`, is always due: a scan interval of 0
  leaves no time to advertise. An interval from 128 s overflows its byte when doubled.
* `connectable_adv_active` is set after advertising has started: a connection in
  between is announced before it and advertising is never restarted (`missed`).
  A failed restart is not retried either. After five retries the main thread
  goes on with the default date.
* No end marker follows the last chunk, although `HUBLINK.md:86` has "EOF" when a
  transfer completes (`EndsWithMarker`). A request during a transfer stalls it or
  loses its first chunk, as does reading instead of taking indications.
  `indication_timeout` is set and never used. The listing of sendFilenames goes
  out before its conflict with clearMemory is found; clearMemory together with a
  settings key writes the old settings back; a save refused for a low battery
  is answered with OK.
* `main.c` calls functions the library no longer has at this commit; it is
  modelled from its own text, as it was meant to run.

## Not modelled

Flash read errors (every path returns the error before it changes state); the
text of rows and headers, `memory_level_percent`; the drivers (LED, ADC,
accelerometer, watchdog), which are register and bus I/O; the paths of `main.c`
with a debugger attached; a boot count that cannot be saved; the bring-up
applications under `applications/` other than `juxta5-8-prod`. NVS is taken to be
atomic per key, which is what Zephyr's NVS provides. A gateway's connection in
production is left out of `Radio`, since advertising is not connectable there.

Of the reference firmware: the accelerometer's register driver is third-party
code; the FRAM, ADC and vitals libraries are bus I/O and unit conversion; of the
file system `get_stats` and the counts of MAC usage; of the application its
self-tests, the sampling of the ADC, and the ten-minute timer, which
nothing starts; of the service the node response's text and the ADC settings.

## Plan

Every component with logic of its own has a module. What is left:

1. Proofs: the theorems about rows with less
   than `Calm`, which means to say what a lost cache and a failed NVS write leave.
2. An abstract specification of sessions (started, interrupted, resumed, ended)
   that `Lifecycle` without faults implements, and one of a day's file that
   `FramFs` implements.
3. `FramFs` under `JuxtaBle`: a minute's row interrupted by a gateway's request on
   the other thread, which the library does not lock against.
