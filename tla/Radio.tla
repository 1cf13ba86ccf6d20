------------------------------- MODULE Radio -------------------------------
(***************************************************************************)
(* Production in main.c once the session runs: the radio's state machine   *)
(* (state_work_handler), the vitals tick, the 1 Hz checkpoint, the motion  *)
(* interrupt, the scan callback and the magnet loop.                       *)
(*                                                                         *)
(* Work items run one after another on the system workqueue, a handler may *)
(* be interrupted between its blocking calls by the main thread, by the    *)
(* Bluetooth receive thread and by interrupts.  Time is in seconds: what   *)
(* falls due within a second does so at its end, in any order.  Timers     *)
(* count down; the stamps last_adv_ts and last_scan_ts are kept as their   *)
(* age, which is all the code uses them for.  Handlers are taken to be     *)
(* quicker than a second, the end of a session too.                        *)
(*                                                                         *)
(* Advertising in production is not connectable, so ble_connected is FALSE *)
(* throughout and the branches for a connection are left out.              *)
(***************************************************************************)
EXTENDS Integers, Sequences, FiniteSets, SequencesExt

CONSTANTS
  SettingsChoices,      \* settings a session may have: records of Settings
  MaxInterval,  \* JUXTA_MAX_BLE_INTERVAL_S
  Countdown,    \* seconds from the magnet's commit to enter_shelf_mode
  Peers, Rssis, \* devices in range and how strongly they are heard
  QueueSize,    \* SCAN_EVENT_QUEUE_SIZE
  TableSize,    \* MAX_JUXTA_SCAN_ENTRIES
  MaxMotion,    \* bound: motion interrupts
  MaxTroubles   \* bound: of power cuts, failures, magnet and low battery, how many

Settings == [vitals : 1..MaxInterval, scan : 0..MaxInterval, adv : 0..MaxInterval,
             multiplier : Nat \ {0}, motion : BOOLEAN]

ASSUME ClockAssumption ==
  /\ MaxInterval \in Nat \ {0} /\ Countdown \in Nat \ {0}
  /\ SettingsChoices \subseteq Settings
ASSUME ScanAssumption ==
  /\ Rssis \subseteq Int
  /\ QueueSize \in Nat \ {0} /\ TableSize \in Nat /\ TableSize >= QueueSize
ASSUME RadioBoundAssumption ==
  /\ MaxMotion \in Nat /\ MaxTroubles \in Nat

VARIABLES
  settings,
  adv_age, scan_age,    \* seconds since last_adv_ts and last_scan_ts
  timer,                \* seconds to go per timer, Off if not armed
  work,                 \* items submitted to the workqueue
  job,                  \* where the handler in progress is
  ble_state,            \* what the firmware believes of the radio
  radio,                \* what the controller does
  scan_event_q, scan_table,
  heard,                \* history: events queued since the last burst was logged
  motion_events,        \* counted by the interrupt
  motion,               \* local of vitals_work_handler
  last_vitals_period_zero_motion,
  batt,                 \* what sample_battery_mv finds
  draft,                \* motion count of the newest record in the ring, None if empty
  main,                 \* where the main thread is
  ending,               \* how far enter_shelf_mode is
  moved, reported, lost,\* history: motion interrupts, those in JXV rows, those dropped
  skips,                \* history: vitals ticks without a row, in a row
  cuts, faults          \* counters of the bounds

timeVars   == <<adv_age, scan_age>>
scanVars   == <<scan_event_q, scan_table, heard>>
motionVars == <<motion_events, motion, last_vitals_period_zero_motion, moved, reported,
                lost, skips>>
mainVars   == <<main, ending>>
restVars   == <<settings, batt, draft, cuts, faults>>
vars == <<timeVars, timer, work, job, ble_state, radio, scanVars, motionVars,
          mainVars, restVars>>

-----------------------------------------------------------------------------
Off    == -1
None   == -1
Least(a, b) == IF a < b THEN a ELSE b

Items  == {"state", "vitals", "checkpoint"}
Timers == Items \cup {"main"}           \* a work item's timer has its name
Burst  == 1                             \* ADV_BURST_MS, SCAN_BURST_MS
LongAgo == MaxInterval                  \* last_*_ts = 0

Running == main \in {"loop", "stopping", "noting", "countdown", "shelf"}

Period(t) == CASE t = "vitals"     -> settings.vitals
               [] t = "checkpoint" -> 1
               [] OTHER            -> Off

Troubles == cuts + faults + (IF main = "loop" THEN 0 ELSE 1) + (IF batt = "good" THEN 0 ELSE 1)
CanWorsen == Troubles < MaxTroubles

Fault == CanWorsen /\ faults' = faults + 1

\* k_work_submit: an item that is queued is not queued twice.
Submitted(w, item) == IF Contains(w, item) THEN w ELSE Append(w, item)

(* The decisions of the state machine. *)

\* Stretched after a vitals window without motion, and capped.
EffectiveScan ==
  IF settings.multiplier <= 1 \/ ~last_vitals_period_zero_motion
  THEN settings.scan
  ELSE Least(settings.scan * settings.multiplier, MaxInterval)

SecondsUntil(age, interval) == IF age >= interval THEN 0 ELSE interval - age

ScanDueLast ==                          \* advertising first
  /\ settings.scan # 0 /\ scan_age >= EffectiveScan
  /\ settings.adv = 0 \/ adv_age < settings.adv

ScanDue == settings.scan # 0 /\ scan_age >= EffectiveScan
AdvDue  == settings.adv # 0 /\ adv_age >= settings.adv

\* Seconds to the deadlines of the modes that are on.
Waits == (IF settings.adv # 0 THEN {SecondsUntil(adv_age, settings.adv)} ELSE {})
         \cup (IF settings.scan # 0 THEN {SecondsUntil(scan_age, EffectiveScan)} ELSE {})

-----------------------------------------------------------------------------
(* Production starts and stops. *)

\* Nothing runs: System OFF, or a boot before its production.  RAM is cleared.
Halts ==
  /\ adv_age' = LongAgo /\ scan_age' = LongAgo
  /\ timer' = [t \in Timers |-> Off] /\ work' = <<>> /\ job' = "idle"
  /\ ble_state' = "idle" /\ radio' = {}
  /\ scan_event_q' = <<>> /\ scan_table' = <<>> /\ heard' = {}
  /\ motion_events' = 0 /\ motion' = 0 /\ last_vitals_period_zero_motion' = FALSE
  /\ skips' = 0

\* The ring is erased, by the shelf entry or the next activation; the histories
\* and the bounds are those of one session.
SessionOver ==
  /\ main' = "off" /\ draft' = None /\ moved' = 0 /\ reported' = 0 /\ lost' = 0
  /\ cuts' = 0 /\ faults' = 0
  /\ UNCHANGED <<settings, batt>>

\* The end of main's initialisation.
StartsProduction ==
  /\ timer' = [t \in Timers |-> Period(t)']
  /\ work' = <<"state">>
  /\ main' = "loop"
  /\ UNCHANGED <<adv_age, scan_age, job, ble_state, radio, scanVars, motion_events, motion,
                 last_vitals_period_zero_motion, skips, ending, moved>>

Init ==
  /\ settings \in SettingsChoices
  /\ adv_age = LongAgo /\ scan_age = LongAgo
  /\ timer = [t \in Timers |-> Off] /\ work = <<>> /\ job = "idle"
  /\ ble_state = "idle" /\ radio = {}
  /\ scan_event_q = <<>> /\ scan_table = <<>> /\ heard = {}
  /\ motion_events = 0 /\ motion = 0 /\ last_vitals_period_zero_motion = FALSE
  /\ batt = "good" /\ draft = None
  /\ main = "off" /\ ending = "no"
  /\ moved = 0 /\ reported = 0 /\ lost = 0 /\ skips = 0
  /\ cuts = 0 /\ faults = 0

\* A magnet wake with a good battery and a gateway: the ring is wiped.
Activate ==
  /\ main = "off"
  /\ settings' \in SettingsChoices /\ batt' = "good"
  /\ StartsProduction
  /\ UNCHANGED <<draft, reported, lost, cuts, faults>>

\* Production stays op_mode's value until the shelf entry; a boot with a good
\* battery and a draft resumes it.
PowerCut ==
  /\ Running /\ CanWorsen
  /\ Halts /\ ending' = "no"
  /\ IF draft # None /\ ending = "no" /\ batt = "good"
     THEN main' = "boot" /\ cuts' = cuts + 1 /\ UNCHANGED <<settings, batt, draft, moved,
                                                            reported, lost, faults>>
     ELSE SessionOver

\* The draft becomes a JXV row; the ring keeps it until the next checkpoint.
RecoveryFlush ==
  /\ main = "boot"
  /\ reported' = reported + draft
  /\ UNCHANGED <<lost, restVars>>
  /\ StartsProduction

-----------------------------------------------------------------------------
(* Interrupts, timers and the Bluetooth receive thread. *)

\* Bound: the world outside acts until the magnet commits or the battery ends
\* the session; what would be counted after that is dropped with the rest.
InSession == main = "loop" /\ ending = "no"

\* accel_int_callback.
MotionInterrupt ==
  /\ InSession
  /\ settings.motion /\ moved < MaxMotion
  /\ motion_events' = motion_events + 1
  /\ moved' = moved + 1
  /\ UNCHANGED <<timeVars, timer, work, job, ble_state, radio, scanVars, motion,
                 last_vitals_period_zero_motion, reported, lost, skips, mainVars, restVars>>

\* scan_cb: the event is dropped when the queue is full.
ScanReport(p, r) ==
  /\ InSession /\ "scan" \in radio /\ Len(scan_event_q) < QueueSize
  /\ scan_event_q' = Append(scan_event_q, [peer |-> p, rssi |-> r])
  /\ heard' = heard \cup {[peer |-> p, rssi |-> r]}
  /\ UNCHANGED <<timeVars, timer, work, job, ble_state, radio, scan_table, motionVars,
                 mainVars, restVars>>

\* Time passes when the threads wait.  The callbacks of the timers that expire
\* together run in any order and only submit; vitals and rtc are periodic.
Tick ==
  /\ main \in {"loop", "countdown"} /\ ending = "no" /\ job = "idle" /\ work = <<>>
  /\ timer["main"] # 0
  /\ LET left == [t \in Timers |-> IF timer[t] = Off THEN Off ELSE timer[t] - 1]
         due  == {t \in Timers \ {"main"} : left[t] = 0}
     IN  /\ timer' = [t \in Timers |-> IF t \in due THEN Period(t) ELSE left[t]]
         /\ work' \in SetToSeqs(due)
  /\ adv_age' = Least(adv_age + 1, LongAgo) /\ scan_age' = Least(scan_age + 1, LongAgo)
  /\ UNCHANGED <<job, ble_state, radio, scanVars, motionVars, mainVars, restVars>>

BatteryDrops ==
  /\ InSession /\ CanWorsen /\ batt = "good" /\ batt' = "low"
  /\ UNCHANGED <<timeVars, timer, work, job, ble_state, radio, scanVars, motionVars,
                 mainVars, settings, draft, cuts, faults>>

-----------------------------------------------------------------------------
(* state_work_handler.  The main thread may run in each of its blocking calls. *)

Handles(item) == Running /\ job = "idle" /\ work # <<>> /\ Head(work) = item

StateHandler ==
  /\ Handles("state")
  /\ work' = Tail(work)
  /\ \/ /\ ble_state = "advertising"
        /\ radio' = radio \ {"adv"} /\ ble_state' = "idle" /\ job' = "choose"
     \/ /\ ble_state = "scanning"
        /\ radio' = radio \ {"scan"} /\ job' = "drain" /\ UNCHANGED ble_state
     \/ /\ ble_state = "idle" /\ job' = "choose" /\ UNCHANGED <<radio, ble_state>>
  /\ UNCHANGED <<timeVars, timer, scanVars, motionVars, mainVars, restVars>>

DrainEventLatest ==                     \* the last event counts
  /\ job = "drain" /\ scan_event_q # <<>>
  /\ LET evt == Head(scan_event_q)
     IN  scan_table' = [p \in DOMAIN scan_table \cup {evt.peer} |->
                          IF p = evt.peer THEN evt.rssi ELSE scan_table[p]]
  /\ scan_event_q' = Tail(scan_event_q)
  /\ UNCHANGED <<timeVars, timer, work, job, ble_state, radio, heard, motionVars,
                 mainVars, restVars>>

\* process_scan_events: one event into the table.
DrainEvent ==
  /\ job = "drain" /\ scan_event_q # <<>>
  /\ LET evt == Head(scan_event_q)
         found == evt.peer \in DOMAIN scan_table
     IN  scan_table' =
           IF found /\ evt.rssi <= scan_table[evt.peer] THEN scan_table
           ELSE IF found \/ Cardinality(DOMAIN scan_table) < TableSize
           THEN [p \in DOMAIN scan_table \cup {evt.peer} |->
                   IF p = evt.peer THEN evt.rssi ELSE scan_table[p]]
           ELSE scan_table
  /\ scan_event_q' = Tail(scan_event_q)
  /\ UNCHANGED <<timeVars, timer, work, job, ble_state, radio, heard, motionVars,
                 mainVars, restVars>>

\* flush_scan_table: a JXB row per entry; the stamp and the state follow.
FlushTable ==
  /\ job = "drain" /\ scan_event_q = <<>>
  /\ scan_table' = <<>> /\ heard' = {}
  /\ scan_age' = 0 /\ ble_state' = "idle" /\ job' = "choose"
  /\ UNCHANGED <<adv_age, timer, work, radio, scan_event_q, motionVars,
                 mainVars, restVars>>

\* start_scanning: any advertising is stopped first.
StartScanning ==
  /\ job = "choose" /\ ScanDue
  /\ \/ /\ "scan" \notin radio
        /\ radio' = (radio \ {"adv"}) \cup {"scan"} /\ job' = "scanning"
        /\ UNCHANGED faults
     \/ /\ Fault \/ ("scan" \in radio /\ UNCHANGED faults)
        /\ radio' = radio \ {"adv"} /\ job' = "advertise"
  /\ UNCHANGED <<timeVars, timer, work, ble_state, scanVars, motionVars, mainVars,
                 settings, batt, draft, cuts>>

StartAdvertising ==
  /\ AdvDue /\ (job = "advertise" \/ (job = "choose" /\ ~ScanDue))
  /\ \/ /\ "adv" \notin radio
        /\ radio' = radio \cup {"adv"} /\ job' = "advertising" /\ UNCHANGED faults
     \/ /\ Fault \/ ("adv" \in radio /\ UNCHANGED faults)
        /\ job' = "wait" /\ UNCHANGED radio
  /\ UNCHANGED <<timeVars, timer, work, ble_state, scanVars, motionVars, mainVars,
                 settings, batt, draft, cuts>>

PhaseStartedUntimed ==                  \* no state_timer for a scan
  /\ job \in {"scanning", "advertising"}
  /\ ble_state' = job
  /\ timer' = IF job = "scanning" THEN timer ELSE [timer EXCEPT !["state"] = Burst]
  /\ adv_age' = IF job = "advertising" THEN 0 ELSE adv_age
  /\ job' = "idle"
  /\ UNCHANGED <<scan_age, work, radio, scanVars, motionVars, mainVars, restVars>>

\* The phase that was started is recorded and its timer armed.
PhaseStarted ==
  /\ job \in {"scanning", "advertising"}
  /\ ble_state' = job /\ timer' = [timer EXCEPT !["state"] = Burst]
  /\ IF job = "advertising" THEN adv_age' = 0 ELSE UNCHANGED adv_age
  /\ job' = "idle"
  /\ UNCHANGED <<scan_age, work, radio, scanVars, motionVars, mainVars, restVars>>

\* Nothing started: sleep until the next deadline and less than a second more.
WaitForDeadline ==
  /\ \/ job = "wait"
     \/ job = "advertise" /\ ~AdvDue
     \/ job = "choose" /\ ~ScanDue /\ ~AdvDue
  /\ \E jitter \in 0..1 :
       LET delay == IF Waits = {} THEN Off
                    ELSE (CHOOSE w \in Waits : \A v \in Waits : w <= v) + jitter
       IN  /\ timer' = [timer EXCEPT !["state"] = IF delay = 0 THEN Off ELSE delay]
           /\ work' = IF delay = 0 THEN Submitted(work, "state") ELSE work
  /\ job' = "idle"
  /\ UNCHANGED <<timeVars, ble_state, radio, scanVars, motionVars, mainVars, restVars>>

-----------------------------------------------------------------------------
(* vitals_work_handler and checkpoint_work_handler. *)

\* The count is taken with interrupts locked; the sensors are read after it.
TakeMotion ==
  /\ Handles("vitals")
  /\ work' = Submitted(Tail(work), "state")
  /\ job' = "vitals"
  /\ IF settings.motion
     THEN /\ motion' = motion_events
          /\ motion_events' = 0
          /\ last_vitals_period_zero_motion' = (motion' = 0)
     ELSE /\ motion' = 0 /\ last_vitals_period_zero_motion' = FALSE
          /\ UNCHANGED motion_events
  /\ UNCHANGED <<timeVars, timer, ble_state, radio, scanVars, moved, reported, lost,
                 skips, mainVars, restVars>>

\* No row while a scan is on, and no look at the battery either.
SkipRow ==
  /\ job = "vitals" /\ ble_state = "scanning"
  /\ lost' = lost + motion /\ motion' = 0
  /\ skips' = Least(skips + 1, 2)
  /\ job' = "idle"
  /\ UNCHANGED <<timeVars, timer, work, ble_state, radio, scanVars, motion_events,
                 last_vitals_period_zero_motion, moved, reported, mainVars, restVars>>

WriteRowClears ==                       \* the count cleared when the row is written
  /\ job = "vitals" /\ ble_state # "scanning"
  /\ reported' = reported + motion /\ motion_events' = 0
  /\ motion' = 0 /\ skips' = 0
  /\ job' = IF batt = "low" THEN "brownout" ELSE "idle"
  /\ UNCHANGED <<timeVars, timer, work, ble_state, radio, scanVars, lost, faults,
                 last_vitals_period_zero_motion, moved, mainVars, settings,
                 batt, draft, cuts>>

\* The row is appended or, its error ignored, not; then the battery is judged.
WriteRow ==
  /\ job = "vitals" /\ ble_state # "scanning"
  /\ \/ reported' = reported + motion /\ UNCHANGED <<lost, faults>>
     \/ Fault /\ lost' = lost + motion /\ UNCHANGED reported
  /\ motion' = 0 /\ skips' = 0
  /\ job' = IF batt = "low" THEN "brownout" ELSE "idle"
  /\ UNCHANGED <<timeVars, timer, work, ble_state, radio, scanVars, motion_events,
                 last_vitals_period_zero_motion, moved, mainVars, settings,
                 batt, draft, cuts>>

\* enter_shelf_mode on the workqueue, or parked if the main thread was first.
BrownoutShelves ==
  /\ job = "brownout" /\ job' = "parked"
  /\ ending' = IF ending = "no" THEN "claimed" ELSE ending
  /\ UNCHANGED <<timeVars, timer, work, ble_state, radio, scanVars, motionVars, main, restVars>>

Checkpoint ==
  /\ Handles("checkpoint")
  /\ work' = Tail(work)
  /\ IF ending = "no" THEN draft' = motion_events ELSE UNCHANGED draft
  /\ UNCHANGED <<timeVars, timer, job, ble_state, radio, scanVars, motion_events, motion,
                 last_vitals_period_zero_motion, moved, reported, lost, skips, mainVars,
                 settings, batt, cuts, faults>>

-----------------------------------------------------------------------------
(* The magnet loop on the main thread. *)

\* A hold was confirmed: advertising is stopped, then scanning, then noted.
MagnetCommits ==
  /\ main = "loop" /\ CanWorsen /\ main' = "stopping"
  /\ radio' = radio \ {"adv"}
  /\ UNCHANGED <<timeVars, timer, work, job, ble_state, scanVars, motionVars, ending, restVars>>

MagnetStopsScan ==
  /\ main = "stopping" /\ main' = "noting"
  /\ radio' = radio \ {"scan"}
  /\ UNCHANGED <<timeVars, timer, work, job, ble_state, scanVars, motionVars, ending, restVars>>

MagnetNotesIdle ==
  /\ main = "noting" /\ main' = "countdown"
  /\ ble_state' = "idle"
  /\ timer' = [timer EXCEPT !["main"] = Countdown]
  /\ UNCHANGED <<timeVars, work, job, radio, scanVars, motionVars, ending, restVars>>

CountdownEnds ==
  /\ main = "countdown" /\ timer["main"] = 0
  /\ main' = "shelf" /\ timer' = [timer EXCEPT !["main"] = Off]
  /\ ending' = IF ending = "no" THEN "claimed" ELSE ending
  /\ UNCHANGED <<timeVars, work, job, ble_state, radio, scanVars, motionVars, restVars>>

(* prepare_for_shelf_mode, on whichever thread is first. *)

\* A handler that runs is not waited for.
ShelfStopsTimers ==
  /\ Running /\ ending = "claimed" /\ ending' = "quiet"
  /\ timer' = [timer EXCEPT !["state"] = Off, !["vitals"] = Off]
  /\ work' = SelectSeq(work, LAMBDA i : i = "checkpoint")
  /\ UNCHANGED <<timeVars, job, ble_state, radio, scanVars, motionVars, main, restVars>>

ShelfStopsRadio ==
  /\ Running /\ ending = "quiet" /\ ending' = "dark"
  /\ radio' = {} /\ ble_state' = "idle"
  /\ UNCHANGED <<timeVars, timer, work, job, scanVars, motionVars, main, restVars>>

PowerOff ==
  /\ Running /\ ending = "dark"
  /\ Halts /\ ending' = "no"
  /\ SessionOver

-----------------------------------------------------------------------------
Interrupts == MotionInterrupt \/ \E p \in Peers, r \in Rssis : ScanReport(p, r)

Handler ==
  \/ StateHandler \/ DrainEvent \/ FlushTable
  \/ StartScanning \/ StartAdvertising \/ PhaseStarted \/ WaitForDeadline
  \/ TakeMotion \/ SkipRow \/ WriteRow \/ BrownoutShelves \/ Checkpoint

MainSteps == MagnetStopsScan \/ MagnetNotesIdle \/ CountdownEnds

Shelving == ShelfStopsTimers \/ ShelfStopsRadio \/ PowerOff

Next ==
  \/ Activate \/ RecoveryFlush \/ PowerCut \/ BatteryDrops
  \/ Interrupts \/ Tick \/ Handler
  \/ MagnetCommits \/ MainSteps \/ Shelving

Spec == Init /\ [][Next]_vars

\* The kernel runs what is ready and time passes; a shelf entry gets on.
FairSpec == Spec /\ WF_vars(Tick \/ Handler \/ MainSteps) /\ WF_vars(Shelving)

-----------------------------------------------------------------------------
(* Properties. *)

Longest == MaxInterval + 1 + Countdown

Events == [peer : Peers, rssi : Rssis]

TypeOK ==
  /\ settings \in Settings
  /\ adv_age \in 0..LongAgo /\ scan_age \in 0..LongAgo
  /\ timer \in [Timers -> Off..Longest]
  /\ work \in Seq(Items)
  /\ job \in {"idle", "drain", "choose", "advertise", "wait", "scanning", "advertising",
              "vitals", "brownout", "parked"}
  /\ ble_state \in {"idle", "advertising", "scanning"}
  /\ radio \subseteq {"adv", "scan"}
  /\ scan_event_q \in Seq(Events) /\ heard \subseteq Events
  /\ \A p \in DOMAIN scan_table : p \in Peers /\ scan_table[p] \in Rssis
  /\ motion_events \in Nat /\ motion \in Nat
  /\ last_vitals_period_zero_motion \in BOOLEAN
  /\ batt \in {"good", "low"} /\ draft \in Nat \cup {None}
  /\ main \in {"off", "boot", "loop", "stopping", "noting", "countdown", "shelf"}
  /\ ending \in {"no", "claimed", "quiet", "dark"}
  /\ moved \in Nat /\ reported \in Nat /\ lost \in Nat
  /\ skips \in 0..2 /\ cuts \in Nat /\ faults \in Nat

\* The receiver and the transmitter never stay on for want of somebody to turn
\* them off, and are never on together: while production runs, whatever is on
\* has its timer armed, its work item queued or a handler under way.
RadioIsTimed ==
  main = "loop" /\ ending = "no" /\ radio # {} =>
    /\ Cardinality(radio) = 1
    /\ timer["state"] # Off \/ Contains(work, "state")
       \/ job \in {"choose", "scanning", "advertising"}

\* When a burst's events are through, the table has every peer that was heard,
\* once, as strong as it was heard best: what goes into the JXB rows.
BurstReportsBest ==
  job = "drain" /\ scan_event_q = <<>> =>
    /\ DOMAIN scan_table = {e.peer : e \in heard}
    /\ \A e \in heard : e.rssi <= scan_table[e.peer]
    /\ \A p \in DOMAIN scan_table : [peer |-> p, rssi |-> scan_table[p]] \in heard

\* Without a power cut every motion interrupt is in exactly one row, waits for
\* the next, or was dropped with a row that was skipped or failed.
MotionAccounted == cuts = 0 => moved = reported + lost + motion_events + motion

\* A session that scans keeps scanning: no order of ticks, failed starts and
\* stretched intervals leaves the state machine without a timer.
ScansRecur ==
  settings.scan # 0 /\ main = "loop" ~> radio = {"scan"} \/ main # "loop" \/ ending # "no"

(* What comments say and TLC refutes; no run checks these. *)

\* main.c:927: "one sample is acceptable to skip."  When scans are as frequent as
\* vitals rows, every tick can fall into a scan.
SkipsAreSingle == skips <= 1

\* main.c:2230: the radio is stopped "so state machine doesn't restart
\* advertising during the countdown".
QuietCountdown == main = "countdown" => radio = {}

\* main.c:2165: "the draft row just consumed the pre-reset count".
MotionReportedOnce == reported <= moved

=============================================================================
