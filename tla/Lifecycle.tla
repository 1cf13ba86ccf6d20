----------------------------- MODULE Lifecycle -----------------------------
(***************************************************************************)
(* The life cycle of the device (main.c): what a boot does with what the   *)
(* life before it left, and how a life ends on the shelf.                  *)
(*                                                                         *)
(* Three things outlive a reset: op_mode and the breadcrumb in NVS, the    *)
(* draft in the checkpoint ring, and, unless power was lost, the snapshot  *)
(* in retained RAM.  A boot decides from them and from RESETREAS whether   *)
(* it resumes the session that was interrupted.  The main thread boots and *)
(* runs the session, the system workqueue writes drafts, clears the memory *)
(* and may put the device on the shelf, the Bluetooth receive thread       *)
(* handles the gateway, and the 1 Hz timer refreshes the snapshot.         *)
(*                                                                         *)
(* A session is a number: drafts and snapshots are told apart by whose     *)
(* they are.  The ring is the one of CheckpointRing, as a boot sees it.    *)
(* The paths taken with a debugger attached are left out.                  *)
(***************************************************************************)
EXTENDS Naturals

CONSTANTS
  MaxBoots,   \* bound: boots of a behaviour
  MaxFaults,  \* bound: NVS writes, wipes and initialisations that fail
  Env         \* what the environment may do, see Events

\* "gate"     the battery may be low at a boot
\* "brownout" the battery may be low in production
\* "reset"    the gateway sends reset
\* "clear"    the gateway sends clearMemory
Events == {"gate", "brownout", "reset", "clear"}

ASSUME BoundAssumption ==
  MaxBoots \in Nat /\ MaxFaults \in Nat /\ Env \subseteq Events

VARIABLES
  \* NVS and NOR
  op_mode,
  breadcrumb,             \* the boot that saved it, 0 when there is none
  boot_count,
  draft,                  \* the newest record's session, 0 when there is none
  \* retained RAM
  retained,               \* the snapshot's session, 0 when it is not valid
  \* RAM
  current_op_mode, current_breadcrumb,  \* the copies of juxta_settings.c
  clock,                  \* juxta_time_now() is not 0
  need_datetime_sync, datetime_synchronized, ble_connected,
  hardware_ready,
  por_resume,             \* g_por_resume
  recovery_attempted,
  restored,               \* recovery_full: the session resumed, or 0
  boot_logged,            \* boot_logged_this_boot
  forensics_emitted,
  ticking,                \* rtc_checkpoint_timer runs
  s_disabled,
  \* threads
  RESETREAS,              \* por, off (System OFF wake) or silent (DOG, LOCKUP, SREQ)
  pc,                     \* the main thread; off and dead when nothing runs
  wq,                     \* the system workqueue
  rx,                     \* the Bluetooth receive thread
  requested,              \* work items the gateway's commands have submitted
  owner, shelf,           \* who is in enter_shelf_mode, and how far
  lock,                   \* who holds the ring's s_lock over a wipe
  \* history and bounds
  session,                \* sessions started
  ending,                 \* of the last one: open, closed (op_mode set) or off
  owed,                   \* it has a draft and nobody has ended it
  told,                   \* rows that have reported the breadcrumb there is
  missed,                 \* deletes of it that failed or that a reset came before
  faults

nvsVars    == <<op_mode, breadcrumb, boot_count>>
copyVars   == <<current_op_mode, current_breadcrumb>>
syncVars   == <<need_datetime_sync, datetime_synchronized, ble_connected>>
resumeVars == <<por_resume, recovery_attempted, restored>>
rowVars    == <<boot_logged, forensics_emitted>>
lifeVars   == <<clock, syncVars, hardware_ready, resumeVars, rowVars, ticking>>
workVars   == <<wq, rx, requested>>
shelfVars  == <<owner, shelf>>
histVars   == <<session, ending, owed, told, missed>>
vars == <<nvsVars, draft, retained, copyVars, lifeVars, s_disabled, RESETREAS, pc,
          workVars, shelfVars, lock, histVars, faults>>

-----------------------------------------------------------------------------
(* Common parts. *)

Fault == faults < MaxFaults /\ faults' = faults + 1

\* juxta_settings_set_op_mode: nothing is written when the copy has the value.
SetMode(m) ==
  \/ /\ current_op_mode = m
     /\ UNCHANGED <<op_mode, current_op_mode, faults>>
  \/ /\ current_op_mode # m
     /\ op_mode' = m /\ current_op_mode' = m
     /\ UNCHANGED faults
  \/ /\ current_op_mode # m
     /\ Fault
     /\ UNCHANGED <<op_mode, current_op_mode>>

\* erase_ring_locked, which may fail before it gets to the newest record.
WipeEnds ==
  \/ draft' = 0 /\ UNCHANGED faults
  \/ Fault /\ UNCHANGED draft

\* log_boot_identity and emit_boot_forensics up to the crumb row.
Pending == clock /\ ~forensics_emitted /\ current_breadcrumb # 0
LogIdentity ==
  /\ boot_logged' = (boot_logged \/ clock)
  /\ forensics_emitted' = (forensics_emitted \/ clock)
  /\ told' = IF Pending THEN told + 1 ELSE told

\* Seeded fault: only the copy is cleared.
ClearCopyOnly ==
  /\ current_breadcrumb' = 0
  /\ UNCHANGED <<breadcrumb, told, missed, faults>>

\* juxta_settings_clear_breadcrumb; a delete that fails leaves it to be told again.
ClearBreadcrumb ==
  /\ current_breadcrumb' = 0
  /\ \/ breadcrumb' = 0 /\ told' = 0 /\ missed' = 0 /\ UNCHANGED faults
     \/ Fault /\ missed' = missed + 1 /\ UNCHANGED <<breadcrumb, told>>

\* A thread is between the row and the delete.
Reporting == pc = "clear" \/ rx = "clear"

-----------------------------------------------------------------------------
(* Power and resets. *)

\* A new life: RAM is as the C run time leaves it and no thread has run.
RamLost ==
  /\ current_op_mode' = "shelf" /\ current_breadcrumb' = 0
  /\ clock' = FALSE
  /\ need_datetime_sync' = FALSE /\ datetime_synchronized' = FALSE
  /\ ble_connected' = FALSE
  /\ hardware_ready' = FALSE
  /\ por_resume' = FALSE /\ recovery_attempted' = FALSE /\ restored' = 0
  /\ boot_logged' = FALSE /\ forensics_emitted' = FALSE
  /\ ticking' = FALSE /\ s_disabled' = FALSE
  /\ wq' = "idle" /\ rx' = "idle" /\ requested' = {}
  /\ owner' = "none" /\ shelf' = "no" /\ lock' = "free"
  \* a crumb whose row was written and that is still there is told again
  /\ missed' = IF Reporting THEN missed + 1 ELSE missed

PowerCut ==
  /\ pc # "dead"
  /\ pc' = "dead" /\ retained' = 0
  /\ RamLost
  /\ UNCHANGED <<nvsVars, draft, RESETREAS, session, ending, owed, told, faults>>

PowerOn ==
  /\ pc = "dead"
  /\ pc' = "reset" /\ RESETREAS' = "por"
  /\ UNCHANGED <<nvsVars, draft, retained, copyVars, lifeVars, s_disabled, workVars,
                 shelfVars, lock, histVars, faults>>

MagnetWakes ==
  /\ pc = "off"
  /\ pc' = "reset" /\ RESETREAS' = "off"
  /\ UNCHANGED <<nvsVars, draft, retained, copyVars, lifeVars, s_disabled, workVars,
                 shelfVars, lock, histVars, faults>>

\* Watchdog, lockup or a reboot by software.  RESETREAS accumulates until main
\* clears it, and OFF wins over the bits of a silent reset.
SilentReset ==
  /\ pc \notin {"off", "dead"}
  /\ pc' = "reset"
  /\ RESETREAS' = IF pc = "reset" /\ RESETREAS = "off" THEN "off" ELSE "silent"
  /\ RamLost
  /\ UNCHANGED <<nvsVars, draft, retained, session, ending, owed, told, faults>>

-----------------------------------------------------------------------------
(* enter_shelf_mode, on the main thread or on the workqueue. *)

\* The caller that comes second is parked for ever.
Claim(thread) ==
  IF owner = "none"
    THEN owner' = thread /\ shelf' = "claimed" /\ owed' = FALSE
    ELSE UNCHANGED <<shelfVars, owed>>
Claimed == IF owner = "none" THEN "shelf" ELSE "parked"

MainShelves ==
  /\ Claim("main") /\ pc' = Claimed
  /\ UNCHANGED <<nvsVars, draft, retained, copyVars, lifeVars, s_disabled, RESETREAS,
                 workVars, lock, session, ending, told, missed, faults>>

\* Seeded fault: the breadcrumb names the boot that is to come.
ShelfDisablesNext ==
  /\ shelf = "claimed" /\ lock = "free"
  /\ shelf' = "disabled"
  /\ s_disabled' = TRUE
  /\ breadcrumb' = boot_count + 1 /\ current_breadcrumb' = boot_count + 1
  /\ UNCHANGED <<op_mode, boot_count, draft, retained, current_op_mode, lifeVars,
                 RESETREAS, pc, workVars, owner, lock, histVars, faults>>

\* juxta_checkpoint_disable, and the breadcrumb of this life.
ShelfDisables ==
  /\ shelf = "claimed" /\ lock = "free"
  /\ shelf' = "disabled"
  /\ s_disabled' = TRUE
  /\ \/ /\ breadcrumb' = boot_count /\ current_breadcrumb' = boot_count
        /\ UNCHANGED faults
        /\ told' = 0 /\ missed' = 0
     \/ Fault /\ UNCHANGED <<breadcrumb, current_breadcrumb, told, missed>>
  /\ UNCHANGED <<op_mode, boot_count, draft, retained, current_op_mode, lifeVars,
                 RESETREAS, pc, workVars, owner, lock, session, ending, owed>>

\* Seeded fault: neither op_mode nor the snapshot is touched.
ShelfForgetsMode ==
  /\ shelf = "disabled"
  /\ shelf' = "moded"
  /\ ending' = IF ending = "off" THEN "off" ELSE "closed"
  /\ UNCHANGED <<nvsVars, draft, retained, copyVars, lifeVars, s_disabled, RESETREAS,
                 pc, workVars, owner, lock, session, owed, told, missed, faults>>

ShelfSetsMode ==
  /\ shelf = "disabled"
  /\ shelf' = "moded"
  /\ SetMode("shelf")
  /\ retained' = 0
  /\ ending' = IF ending = "off" THEN "off" ELSE "closed"
  /\ UNCHANGED <<breadcrumb, boot_count, draft, current_breadcrumb, lifeVars, s_disabled,
                 RESETREAS, pc, workVars, owner, lock, session, owed, told, missed>>

\* juxta_checkpoint_erase
ShelfErases ==
  /\ shelf = "moded" /\ lock = "free"
  /\ shelf' = "erasing" /\ lock' = owner
  /\ UNCHANGED <<nvsVars, draft, retained, copyVars, lifeVars, s_disabled, RESETREAS,
                 pc, workVars, owner, histVars, faults>>

ShelfErased ==
  /\ shelf = "erasing"
  /\ shelf' = "erased" /\ lock' = "free"
  /\ WipeEnds
  /\ UNCHANGED <<nvsVars, retained, copyVars, lifeVars, s_disabled, RESETREAS, pc,
                 workVars, owner, histVars>>

\* System OFF; RAM is not retained in it.
ShelfPowersOff ==
  /\ shelf = "erased"
  /\ pc' = "off" /\ retained' = 0 /\ ending' = "off"
  /\ RamLost
  /\ UNCHANGED <<nvsVars, draft, RESETREAS, session, owed, told, faults>>

\* The magnet cannot be armed as wake source: the caller waits for ever.
ShelfStuck ==
  /\ shelf = "erased"
  /\ Fault
  /\ shelf' = "stuck"
  /\ UNCHANGED <<nvsVars, draft, retained, copyVars, lifeVars, s_disabled, RESETREAS,
                 pc, workVars, owner, lock, histVars>>

-----------------------------------------------------------------------------
(* The boot decision. *)

\* The top of main: RESETREAS is read and cleared, the boot is counted (a count
\* that is not saved is not modelled).
StartMain ==
  /\ pc = "reset" /\ boot_count < MaxBoots
  /\ pc' = "decide" /\ boot_count' = boot_count + 1
  /\ UNCHANGED <<op_mode, breadcrumb, draft, retained, copyVars, lifeVars, s_disabled,
                 RESETREAS, workVars, shelfVars, lock, histVars, faults>>

\* Shelf entries before the settings are loaded: a battery that is low three
\* times, power without a session to resume, a magnet that was not held.
Resumable == op_mode = "prod" /\ draft # 0
EarlyShelf ==
  /\ pc = "decide"
  /\ \/ "gate" \in Env
     \/ RESETREAS = "por" /\ ~Resumable
     \/ RESETREAS = "off"
  /\ MainShelves

\* To the rest of the boot, past the battery gate.
ToInit(resume, sync) ==
  /\ pc = "decide"
  /\ pc' = "init"
  /\ por_resume' = resume /\ need_datetime_sync' = sync
  /\ UNCHANGED <<nvsVars, draft, retained, copyVars, clock, datetime_synchronized,
                 ble_connected, hardware_ready, recovery_attempted, restored, rowVars,
                 ticking, s_disabled, RESETREAS, workVars, shelfVars, lock, histVars,
                 faults>>

PowerOnResumes == RESETREAS = "por" /\ Resumable /\ ToInit(TRUE, FALSE)
MagnetHeld     == RESETREAS = "off" /\ ToInit(FALSE, TRUE)
SilentBoots    == RESETREAS = "silent" /\ ToInit(FALSE, FALSE)

\* enter_dfu_mode; the magnet ends it.
MagnetHeldLong ==
  /\ pc = "decide" /\ RESETREAS = "off"
  /\ pc' = "dfu"
  /\ SetMode("dfu")
  /\ UNCHANGED <<breadcrumb, boot_count, draft, retained, current_breadcrumb, lifeVars,
                 s_disabled, RESETREAS, workVars, shelfVars, lock, histVars>>

DfuEnds == pc = "dfu" /\ MainShelves

\* enter_dfu_mode returns when Bluetooth fails; main goes on or returns as well.
DfuFails ==
  /\ pc = "dfu"
  /\ Fault
  /\ pc' \in {"init", "fault"}
  /\ UNCHANGED <<nvsVars, draft, retained, copyVars, lifeVars, s_disabled, RESETREAS,
                 workVars, shelfVars, lock, histVars>>

-----------------------------------------------------------------------------
(* Settings, recovery decision, log and service initialisation. *)

\* bt_enable and juxta_settings_init come first in each of the five outcomes.
InitEnds(sync) ==
  /\ pc = "init"
  /\ need_datetime_sync' = sync
  /\ current_op_mode' = op_mode /\ current_breadcrumb' = breadcrumb
  /\ pc' = IF sync THEN "sync" ELSE "ready"
  /\ UNCHANGED <<nvsVars, draft, retained, datetime_synchronized, ble_connected,
                 hardware_ready, por_resume, rowVars, ticking, s_disabled, RESETREAS,
                 workVars, shelfVars, lock, histVars, faults>>

Recovers(source) ==
  /\ InitEnds(need_datetime_sync \/ source = 0)
  /\ recovery_attempted' = TRUE /\ restored' = source
  /\ clock' = (source # 0)

SilentInProd == RESETREAS = "silent" /\ op_mode = "prod"

RecoversSnapshot == SilentInProd /\ retained # 0 /\ Recovers(retained)
RecoversDraft    == SilentInProd /\ retained = 0 /\ draft # 0 /\ Recovers(draft)
RecoversNothing  == SilentInProd /\ retained = 0 /\ draft = 0 /\ Recovers(0)
ResumesDraft     == por_resume /\ op_mode = "prod" /\ Recovers(draft)
NoRecovery ==
  /\ ~SilentInProd /\ ~(por_resume /\ op_mode = "prod")
  /\ InitEnds(need_datetime_sync)
  /\ UNCHANGED <<clock, recovery_attempted, restored>>

\* main returns, or shows the fault by the LED for ever.
InitFails ==
  /\ pc \in {"init", "ready"}
  /\ Fault
  /\ pc' = "fault"
  /\ UNCHANGED <<nvsVars, draft, retained, copyVars, lifeVars, s_disabled, RESETREAS,
                 workVars, shelfVars, lock, histVars>>

-----------------------------------------------------------------------------
(* wait_for_datetime_sync and the gateway. *)

Unchanged ==
  UNCHANGED <<op_mode, boot_count, draft, retained, current_op_mode, need_datetime_sync,
              hardware_ready, resumeVars, ticking, s_disabled, RESETREAS, shelfVars, lock,
              session, ending, owed>>

Connects ==
  /\ pc = "sync" /\ ~datetime_synchronized /\ ~ble_connected
  /\ ble_connected' = TRUE
  /\ Unchanged
  /\ UNCHANGED <<breadcrumb, current_breadcrumb, clock, datetime_synchronized, rowVars,
                 pc, workVars, told, missed, faults>>

Disconnects ==
  /\ ble_connected /\ rx = "idle"
  /\ ble_connected' = FALSE
  /\ Unchanged
  /\ UNCHANGED <<breadcrumb, current_breadcrumb, clock, datetime_synchronized, rowVars,
                 pc, workVars, told, missed, faults>>

\* The gateway sends the time: the clock and the flag first, ...
GatewaySetsClock ==
  /\ ble_connected /\ rx = "idle"
  /\ clock' = TRUE /\ datetime_synchronized' = TRUE
  /\ rx' = "identity"
  /\ Unchanged
  /\ UNCHANGED <<breadcrumb, current_breadcrumb, ble_connected, rowVars, pc, wq,
                 requested, told, missed, faults>>

\* ... then the rows that waited for it, ...
GatewayIdentity ==
  /\ rx = "identity"
  /\ LogIdentity
  /\ rx' = IF Pending THEN "clear" ELSE "idle"
  /\ Unchanged
  /\ UNCHANGED <<breadcrumb, current_breadcrumb, clock, datetime_synchronized,
                 ble_connected, pc, wq, requested, missed, faults>>

\* ... and the breadcrumb that has been reported is cleared.
GatewayClears ==
  /\ rx = "clear"
  /\ ClearBreadcrumb
  /\ rx' = "idle"
  /\ Unchanged
  /\ UNCHANGED <<clock, datetime_synchronized, ble_connected, rowVars, pc, wq, requested>>

\* reset and clearMemory are submitted to the workqueue.
GatewayRequests ==
  /\ ble_connected /\ rx = "idle"
  /\ \E r \in Env \intersect {"reset", "clear"} : requested' = requested \union {r}
  /\ Unchanged
  /\ UNCHANGED <<breadcrumb, current_breadcrumb, clock, datetime_synchronized,
                 ble_connected, rowVars, pc, wq, rx, told, missed, faults>>

\* Seeded fault: the session starts while the gateway is still connected.
SyncEndsConnected ==
  /\ pc = "sync" /\ datetime_synchronized
  /\ pc' = "ready"
  /\ Unchanged
  /\ UNCHANGED <<breadcrumb, current_breadcrumb, clock, datetime_synchronized,
                 ble_connected, rowVars, workVars, told, missed, faults>>

SyncEnds ==
  /\ pc = "sync" /\ datetime_synchronized /\ ~ble_connected
  /\ pc' = "ready"
  /\ Unchanged
  /\ UNCHANGED <<breadcrumb, current_breadcrumb, clock, datetime_synchronized,
                 ble_connected, rowVars, workVars, told, missed, faults>>

-----------------------------------------------------------------------------
(* Production. *)

\* A boot that resumed nothing starts a session.
StartsSession ==
  IF restored # 0
    THEN UNCHANGED <<session, ending, owed>>
    ELSE session' = session + 1 /\ ending' = "open" /\ owed' = FALSE

Ready ==
  /\ pc = "ready"
  /\ hardware_ready' = TRUE
  /\ StartsSession
  /\ UNCHANGED <<nvsVars, draft, retained, copyVars, clock, syncVars, resumeVars, rowVars,
                 ticking, s_disabled, RESETREAS, workVars, shelfVars, told, missed,
                 faults>>

Wipes == pc' = "wipe" /\ lock = "free" /\ lock' = "main"

\* Seeded faults: a recovery boot wipes the ring too; no boot does.
ActivatesAfresh == Ready /\ Wipes
ActivatesKeeping == Ready /\ pc' = "mode" /\ UNCHANGED lock

\* The hardware is ready; unless the boot recovers a session the ring is wiped.
Activates ==
  /\ Ready
  /\ \/ recovery_attempted /\ pc' = "mode" /\ UNCHANGED lock
     \/ ~recovery_attempted /\ Wipes

\* juxta_checkpoint_reset; it enables the ring when it succeeds.
WipeEnables == WipeEnds /\ s_disabled' = IF faults' = faults THEN FALSE ELSE s_disabled

RingReset ==
  /\ pc = "wipe"
  /\ pc' = "mode" /\ lock' = "free"
  /\ WipeEnables
  /\ UNCHANGED <<nvsVars, retained, copyVars, lifeVars, RESETREAS, workVars, shelfVars,
                 histVars>>

\* op_mode is set and the 1 Hz timer started.
EntersProd ==
  /\ pc = "mode"
  /\ pc' = "rows"
  /\ SetMode("prod")
  /\ ticking' = TRUE
  /\ UNCHANGED <<breadcrumb, boot_count, draft, retained, current_breadcrumb, clock,
                 syncVars, hardware_ready, resumeVars, rowVars, s_disabled, RESETREAS,
                 workVars, shelfVars, lock, histVars>>

MainIdentity ==
  /\ pc = "rows"
  /\ LogIdentity
  /\ pc' = IF Pending THEN "clear" ELSE "prod"
  /\ UNCHANGED <<nvsVars, draft, retained, copyVars, clock, syncVars, hardware_ready,
                 resumeVars, ticking, s_disabled, RESETREAS, workVars, shelfVars, lock,
                 session, ending, owed, missed, faults>>

MainClears ==
  /\ pc = "clear"
  /\ ClearBreadcrumb
  /\ pc' = "prod"
  /\ UNCHANGED <<op_mode, boot_count, draft, retained, current_op_mode, lifeVars,
                 s_disabled, RESETREAS, workVars, shelfVars, lock, session, ending, owed>>

\* The magnet loop.
ProdEnds == pc = "prod" /\ MainShelves

\* rtc_checkpoint_cb, in the timer's interrupt; nothing stops the timer.
Tick ==
  /\ ticking /\ clock
  /\ retained' = session
  /\ UNCHANGED <<nvsVars, draft, copyVars, lifeVars, s_disabled, RESETREAS, pc, workVars,
                 shelfVars, lock, histVars, faults>>

\* checkpoint_work_handler, on the workqueue.
Checkpoint ==
  /\ ticking /\ clock /\ hardware_ready
  /\ wq = "idle" /\ lock = "free" /\ ~s_disabled
  /\ draft' = session
  /\ owed' = (owner = "none")
  /\ UNCHANGED <<nvsVars, retained, copyVars, lifeVars, s_disabled, RESETREAS, pc,
                 workVars, shelfVars, lock, session, ending, told, missed, faults>>

\* vitals_work_handler with a low battery, shelf_work_handler.
WorkShelves ==
  /\ wq = "idle"
  /\ \/ /\ "brownout" \in Env /\ pc \in {"prod", "shelf", "parked"} /\ ticking
        /\ UNCHANGED requested
     \/ "reset" \in requested /\ requested' = requested \ {"reset"}
  /\ Claim("wq") /\ wq' = Claimed
  /\ UNCHANGED <<nvsVars, draft, retained, copyVars, lifeVars, s_disabled, RESETREAS, pc,
                 rx, lock, session, ending, told, missed, faults>>

\* clear_memory_work_handler: the log is formatted for many seconds, ...
ClearBegins ==
  /\ wq = "idle" /\ "clear" \in requested
  /\ wq' = "format" /\ requested' = requested \ {"clear"}
  /\ UNCHANGED <<nvsVars, draft, retained, copyVars, lifeVars, s_disabled, RESETREAS, pc,
                 rx, shelfVars, lock, histVars, faults>>

\* ... then the ring is reset.
ClearWipes ==
  /\ wq = "format" /\ lock = "free"
  /\ wq' = "wipe" /\ lock' = "wq" /\ owed' = FALSE
  /\ UNCHANGED <<nvsVars, draft, retained, copyVars, lifeVars, s_disabled, RESETREAS, pc,
                 rx, requested, shelfVars, session, ending, told, missed, faults>>

\* Seeded fault: the lock is not given back.
ClearEndsLocked ==
  /\ wq = "wipe"
  /\ wq' = "idle"
  /\ WipeEnables
  /\ UNCHANGED <<nvsVars, retained, copyVars, lifeVars, RESETREAS, pc, rx, requested,
                 shelfVars, lock, histVars>>

ClearEnds ==
  /\ wq = "wipe"
  /\ wq' = "idle" /\ lock' = "free"
  /\ WipeEnables
  /\ UNCHANGED <<nvsVars, retained, copyVars, lifeVars, RESETREAS, pc, rx, requested,
                 shelfVars, histVars>>

-----------------------------------------------------------------------------
(* The specification. *)

\* A unit that has never run.
Init ==
  /\ op_mode = "shelf" /\ breadcrumb = 0 /\ boot_count = 0
  /\ draft = 0 /\ retained = 0
  /\ current_op_mode = "shelf" /\ current_breadcrumb = 0
  /\ clock = FALSE
  /\ need_datetime_sync = FALSE /\ datetime_synchronized = FALSE /\ ble_connected = FALSE
  /\ hardware_ready = FALSE
  /\ por_resume = FALSE /\ recovery_attempted = FALSE /\ restored = 0
  /\ boot_logged = FALSE /\ forensics_emitted = FALSE
  /\ ticking = FALSE /\ s_disabled = FALSE
  /\ RESETREAS = "por" /\ pc = "dead"
  /\ wq = "idle" /\ rx = "idle" /\ requested = {}
  /\ owner = "none" /\ shelf = "no" /\ lock = "free"
  /\ session = 0 /\ ending = "off" /\ owed = FALSE /\ told = 0 /\ missed = 0
  /\ faults = 0

Power == PowerCut \/ PowerOn \/ MagnetWakes \/ SilentReset

Shelving ==
  \/ ShelfDisables \/ ShelfSetsMode \/ ShelfErases \/ ShelfErased \/ ShelfPowersOff
  \/ ShelfStuck

Booting ==
  \/ StartMain \/ EarlyShelf \/ PowerOnResumes \/ MagnetHeld \/ SilentBoots
  \/ MagnetHeldLong \/ DfuEnds \/ DfuFails
  \/ RecoversSnapshot \/ RecoversDraft \/ RecoversNothing \/ ResumesDraft \/ NoRecovery
  \/ InitFails

Syncing ==
  \/ Connects \/ Disconnects \/ GatewaySetsClock \/ GatewayIdentity \/ GatewayClears
  \/ GatewayRequests \/ SyncEnds

Producing ==
  \/ Activates \/ RingReset \/ EntersProd \/ MainIdentity \/ MainClears \/ ProdEnds
  \/ Tick \/ Checkpoint \/ WorkShelves \/ ClearBegins \/ ClearWipes \/ ClearEnds

Next == Power \/ Shelving \/ Booting \/ Syncing \/ Producing

Spec == Init /\ [][Next]_vars

\* Flash and NVS calls return, so whoever holds the ring's lock lets it go.
FairSpec == Spec /\ WF_vars(Shelving) /\ WF_vars(RingReset) /\ WF_vars(ClearEnds)

-----------------------------------------------------------------------------
(* Properties. *)

\* The parts of TypeOK.
Modes == {"shelf", "prod", "dfu"}
Numbers ==
  /\ boot_count \in 0..MaxBoots
  /\ breadcrumb \in 0..boot_count /\ current_breadcrumb \in 0..boot_count
  /\ session \in 0..boot_count
  /\ told \in Nat /\ missed \in Nat
  /\ draft \in 0..session /\ retained \in 0..session /\ restored \in 0..session
  /\ faults \in 0..MaxFaults
Flags ==
  /\ clock \in BOOLEAN /\ need_datetime_sync \in BOOLEAN
  /\ datetime_synchronized \in BOOLEAN /\ ble_connected \in BOOLEAN
  /\ hardware_ready \in BOOLEAN /\ por_resume \in BOOLEAN
  /\ recovery_attempted \in BOOLEAN /\ boot_logged \in BOOLEAN
  /\ forensics_emitted \in BOOLEAN /\ ticking \in BOOLEAN
  /\ s_disabled \in BOOLEAN /\ owed \in BOOLEAN
Places ==
  /\ op_mode \in Modes /\ current_op_mode \in Modes
  /\ RESETREAS \in {"por", "off", "silent"}
  /\ pc \in {"dead", "off", "reset", "decide", "init", "dfu", "fault", "sync", "ready",
             "wipe", "mode", "rows", "clear", "prod", "shelf", "parked"}
  /\ wq \in {"idle", "format", "wipe", "shelf", "parked"}
  /\ rx \in {"idle", "identity", "clear"}
  /\ requested \subseteq {"reset", "clear"}
  /\ owner \in {"none", "main", "wq"} /\ lock \in {"free", "main", "wq"}
  /\ shelf \in {"no", "claimed", "disabled", "moded", "erasing", "erased", "stuck"}
  /\ ending \in {"open", "closed", "off"}

\* Type correctness: no session outnumbers the boots, drafts and snapshots are of
\* sessions there were, breadcrumbs of boots there were.
TypeOK == Numbers /\ Flags /\ Places

\* A boot that gets its clock without the gateway resumes a session.
Resumes == restored' # restored /\ restored' # 0

\* What has ended with System OFF is never resumed, whatever the battery gate,
\* the gateway and the workqueue did on the way there.
OffEndsSession == [][Resumes /\ faults = 0 => ending # "off"]_vars

\* The draft a boot resumes from is one of the session that was started last.
ResumesNewest == [][Resumes /\ retained = 0 /\ faults = 0 => draft = session]_vars

\* As long as nobody has ended it, a session with a draft survives any order of
\* power cuts and resets: the next boot that gets to decide resumes it.
InterruptedIsResumable ==
  owed /\ faults = 0 => op_mode = "prod" /\ draft # 0

\* Production that has a clock has identified its life in the log, and the
\* breadcrumb of the life before is reported.
ProductionIdentified ==
  pc = "prod" /\ clock =>
    /\ boot_logged
    /\ faults = 0 => breadcrumb \in {0, boot_count}

\* A breadcrumb is reported once, and once more for every delete of it that failed
\* or that a reset came before; main and the gateway's thread never both report it.
ReportedOnce ==
  breadcrumb # 0 => told <= missed + (IF Reporting THEN 1 ELSE 0)

\* A shelf entry ends in System OFF or in a reset: no thread waits for ever for
\* the ring's lock, and the one that is parked is not the one that goes on.
ShelfCompletes == owner # "none" ~> (owner = "none" \/ faults > 0)

=============================================================================
