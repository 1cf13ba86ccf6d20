------------------------------ MODULE JuxtaBle ------------------------------
(***************************************************************************)
(* The application of the reference firmware (juxta-ble): the main thread  *)
(* that waits for a gateway to set the clock, the radio state machine that *)
(* runs as state_work on the system work queue, the callbacks of the       *)
(* Bluetooth stack, and the rows it hands to the file system.              *)
(*                                                                         *)
(* A handler of the work queue is cut into steps where it blocks: at each  *)
(* transfer to the FRAM and each command to the controller, where          *)
(* connected() and scan_cb may run.  Ages of the last bursts stand for     *)
(* timestamps; they saturate where the comparisons no longer change.  A    *)
(* timer that is armed expires at any time.                                *)
(*                                                                         *)
(* The settings are whatever a gateway has saved: main.c reads them from   *)
(* the file system anew at every use, and nobody checks a byte of them.    *)
(***************************************************************************)
EXTENDS Integers, Sequences, FiniteSets

CONSTANTS
  Saved,        \* settings a gateway may save, or has saved in an earlier life
  SCAN_EVENT_QUEUE_SIZE, MAX_JUXTA_DEVICES,
  Devices,      \* JX_ names in range
  Gateways,     \* JXGA_ names in range
  Strengths,    \* RSSI values
  MaxRetries,   \* retries of the first session before going on without it
  MaxFaults     \* bound: controller commands, and steps of main, that fail

\* Bytes each; a mode that is neither of the two is "UNKNOWN".
Settings == [operating_mode : {"NORMAL", "ADC_ONLY", "UNKNOWN"},
             adv_interval : 0..255, scan_interval : 0..255]

ASSUME SettingsAssumption == Saved \subseteq Settings /\ Saved # {}
ASSUME QueueAssumption ==
  /\ SCAN_EVENT_QUEUE_SIZE \in Nat \ {0} /\ MAX_JUXTA_DEVICES \in Nat \ {0}
  /\ Strengths \subseteq Nat \ {0} /\ Devices \cap Gateways = {}
  /\ MaxRetries \in Nat /\ MaxFaults \in Nat

VARIABLES
  main,         \* where the main thread is
  ble_state, ble_connected, doGatewayAdvertise, connectable_adv_active,
  datetime_synchronized, datetime_sync_retry_count,
  adv, scanning,           \* the controller: kind of advertising, scanning
  state_timer, state_event, state_work,
  pc,           \* the step of state_work_handler that runs
  restart,      \* datetime_sync_restart_work
  age_adv, age_scan,       \* seconds since the last bursts
  fresh,        \* current_minute # last_logged_minute
  quiet,        \* lis2dh12_should_use_extended_intervals
  low,          \* juxta_vitals_is_low_battery
  settings,     \* user settings in the file system
  adc_timer,    \* ADC_ONLY was the mode when main started the application
  scan_event_q, juxta_scan_table,
  gave_up,      \* history: the state machine stopped without a timer
  let_go,       \* history: a connection ended in another mode, with nothing pending
  missed,       \* history: the first session cannot be advertised any more
  faults

boot  == <<main, connectable_adv_active, datetime_synchronized, datetime_sync_retry_count,
           restart, missed>>
ages  == <<age_adv, age_scan>>
work  == <<state_timer, state_event, state_work, pc, gave_up, let_go>>
table == <<scan_event_q, juxta_scan_table>>
world == <<fresh, quiet, low, settings, adc_timer>>
vars  == <<boot, ages, work, table, world, ble_state, ble_connected, doGatewayAdvertise,
           adv, scanning, faults>>

-----------------------------------------------------------------------------
Names == Devices \cup Gateways

\* The interval is kept in eight bits, doubled while nothing moves; 0 is a burst
\* that is always due.
Interval(seconds) == (IF quiet THEN 2 * seconds ELSE seconds) % 256
get_adv_interval  == Interval(settings.adv_interval)
get_scan_interval == Interval(settings.scan_interval)

is_time_to_advertise == age_adv >= get_adv_interval
is_time_to_scan      == age_scan >= get_scan_interval

Fault == faults < MaxFaults /\ faults' = faults + 1

\* The table as a function from names to RSSI, 0 for absent.
Empty == [m \in Names |-> 0]
Stronger(f, m, rssi) == [f EXCEPT ![m] = IF rssi > @ THEN rssi ELSE @]
Listed(f) == {m \in Names : f[m] # 0}

\* process_scan_events: the strongest of each; a full table takes nothing more,
\* not even of a device it lists.
Taken ==
  LET take[k \in 0..Len(scan_event_q)] ==
        IF k = 0 THEN juxta_scan_table
        ELSE IF Cardinality(Listed(take[k - 1])) >= MAX_JUXTA_DEVICES THEN take[k - 1]
             ELSE Stronger(take[k - 1], scan_event_q[k].mac_id, scan_event_q[k].rssi)
  IN  take[Len(scan_event_q)]

\* stop_advertising, stop_scanning are refused in another state.
Advertising == ble_state \in {"ADVERTISING", "GATEWAY_ADVERTISING"}

-----------------------------------------------------------------------------
Init ==
  /\ main = "start" /\ connectable_adv_active = FALSE
  /\ datetime_synchronized = FALSE /\ datetime_sync_retry_count = 0
  /\ restart = "idle" /\ missed = FALSE
  /\ ble_state = "IDLE" /\ ble_connected = FALSE /\ doGatewayAdvertise = FALSE
  /\ adv = "off" /\ scanning = FALSE
  /\ state_timer = FALSE /\ state_event = FALSE /\ state_work = FALSE
  /\ pc = "idle" /\ gave_up = FALSE /\ let_go = FALSE
  /\ age_adv = 0 /\ age_scan = 0 /\ fresh = TRUE /\ quiet = FALSE /\ low = FALSE
  /\ settings \in Saved /\ adc_timer = FALSE
  /\ scan_event_q = <<>> /\ juxta_scan_table = Empty
  /\ faults = 0

-----------------------------------------------------------------------------
(* main(): the first session. *)

\* juxta_start_connectable_advertising; without it, or with an error of what
\* comes before, main returns.
MainAdvertises ==
  /\ main = "start"
  /\ \/ main' = "mark" /\ adv' = "connectable" /\ UNCHANGED <<faults, missed>>
     \/ main' = "returned" /\ Fault /\ UNCHANGED <<missed, adv>>
  /\ UNCHANGED <<connectable_adv_active, datetime_synchronized, datetime_sync_retry_count,
                 restart, ages, work, table, world, ble_state, ble_connected,
                 doGatewayAdvertise, scanning>>

\* A gateway may have connected since, and cleared the flag in vain.
MainMarks ==
  /\ main = "mark" /\ main' = "sync" /\ connectable_adv_active' = TRUE
  /\ missed' = (missed \/ adv # "connectable")
  /\ UNCHANGED <<datetime_synchronized, datetime_sync_retry_count, restart, ages, work,
                 table, world, ble_state, ble_connected, doGatewayAdvertise, adv, scanning,
                 faults>>

MainSynchronized ==
  /\ main = "sync" /\ datetime_synchronized /\ main' = "leave"
  /\ UNCHANGED <<connectable_adv_active, datetime_synchronized, datetime_sync_retry_count,
                 restart, missed, ages, work, table, world, ble_state, ble_connected,
                 doGatewayAdvertise, adv, scanning, faults>>

\* Work, timer and file system are ready; bursts are due.  An error of the FRAM
\* or the clock ends main.
MainReady ==
  /\ main = "leave" /\ ~ble_connected
  /\ \/ /\ main' = "ready" /\ missed' = FALSE
        /\ age_adv' = get_adv_interval /\ age_scan' = get_scan_interval
        /\ UNCHANGED faults
     \/ main' = "returned" /\ Fault /\ UNCHANGED <<missed, ages>>
  /\ UNCHANGED <<connectable_adv_active, datetime_synchronized, datetime_sync_retry_count,
                 restart, work, table, world, ble_state, ble_connected,
                 doGatewayAdvertise, adv, scanning>>

\* In ADC_ONLY a timer of its own samples and the state machine is not started;
\* an unknown mode is run as NORMAL.
MainRuns ==
  /\ main = "ready" /\ main' = "run"
  /\ adc_timer' = (settings.operating_mode = "ADC_ONLY")
  /\ IF adc_timer' THEN UNCHANGED <<state_work, state_timer>>
     ELSE state_work' = TRUE /\ state_timer' = TRUE
  /\ UNCHANGED <<connectable_adv_active, datetime_synchronized, datetime_sync_retry_count,
                 restart, missed, ages, state_event, pc, gave_up, let_go, table, fresh,
                 quiet, low, settings, ble_state, ble_connected, doGatewayAdvertise, adv,
                 scanning, faults>>

\* datetime_sync_restart_work_handler: pauses, stops, starts, then the flag.
RestartAdvertises ==
  /\ restart = "queued" /\ pc = "idle"
  /\ \/ restart' = "mark" /\ adv' = "connectable" /\ UNCHANGED <<faults, missed>>
     \/ restart' = "idle" /\ adv' = "off" /\ Fault /\ missed' = TRUE
  /\ UNCHANGED <<main, connectable_adv_active, datetime_synchronized,
                 datetime_sync_retry_count, ages, work, table, world, ble_state,
                 ble_connected, doGatewayAdvertise, scanning>>

RestartMarks ==
  /\ restart = "mark" /\ restart' = "idle" /\ connectable_adv_active' = TRUE
  /\ missed' = (missed \/ adv # "connectable")
  /\ UNCHANGED <<main, datetime_synchronized, datetime_sync_retry_count, ages, work, table,
                 world, ble_state, ble_connected, doGatewayAdvertise, adv, scanning,
                 faults>>

-----------------------------------------------------------------------------
(* Bluetooth callbacks. *)

\* Mutant: the flag goes on saying that advertising runs.
connectedStillFlagged ==
  /\ adv = "connectable" /\ ~ble_connected
  /\ ble_connected' = TRUE /\ adv' = "off"
  /\ ble_state' = IF Advertising \/ ble_state = "SCANNING" THEN "WAITING" ELSE ble_state
  /\ scanning' = (scanning /\ ble_state # "SCANNING")
  /\ UNCHANGED <<boot, ages, work, table, world, doGatewayAdvertise, faults>>

\* connected(): the row of the connection is never written, since the flag
\* that pauses the log is set first.
connected ==
  /\ adv = "connectable" /\ ~ble_connected
  /\ ble_connected' = TRUE /\ adv' = "off" /\ connectable_adv_active' = FALSE
  /\ ble_state' = IF Advertising \/ ble_state = "SCANNING" THEN "WAITING" ELSE ble_state
  /\ scanning' = (scanning /\ ble_state # "SCANNING")
  /\ UNCHANGED <<main, datetime_synchronized, datetime_sync_retry_count, restart, missed,
                 ages, work, table, world, doGatewayAdvertise, faults>>

\* parse_gateway_command: a command with a timestamp sets the clock; a clock that
\* jumps makes both bursts due, or not.  One with settings saves them unless the
\* battery is low, and juxta_ble_timing_update_trigger makes the bursts due.
GatewayWrites ==
  /\ ble_connected
  /\ \/ datetime_synchronized' = TRUE /\ datetime_sync_retry_count' = 0
     \/ UNCHANGED <<datetime_synchronized, datetime_sync_retry_count>>
  /\ \/ ~low /\ settings' \in Saved
     \/ UNCHANGED settings
  /\ \/ /\ age_adv' = Interval(settings'.adv_interval)
        /\ age_scan' = Interval(settings'.scan_interval)
     \/ settings' = settings /\ UNCHANGED ages
  /\ UNCHANGED <<main, connectable_adv_active, restart, missed, work, table, fresh, quiet,
                 low, adc_timer, ble_state, ble_connected, doGatewayAdvertise, adv,
                 scanning, faults>>

\* disconnected(): before the clock is set the advertising is restarted, a few
\* times; after that the machine is resumed, if the mode is NORMAL by now.
disconnected ==
  /\ ble_connected /\ ble_connected' = FALSE /\ ble_state' = "IDLE"
  /\ IF ~datetime_synchronized
     THEN /\ IF datetime_sync_retry_count + 1 > MaxRetries
             THEN datetime_synchronized' = TRUE /\ datetime_sync_retry_count' = 0
                  /\ UNCHANGED restart
             ELSE /\ datetime_sync_retry_count' = datetime_sync_retry_count + 1
                  /\ restart' = IF connectable_adv_active THEN restart ELSE "queued"
                  /\ UNCHANGED datetime_synchronized
          /\ UNCHANGED <<ages, state_work, let_go>>
     ELSE /\ UNCHANGED <<datetime_synchronized, datetime_sync_retry_count, restart>>
          /\ IF main \in {"ready", "run"} /\ settings.operating_mode = "NORMAL"
             THEN /\ age_adv' = get_adv_interval /\ age_scan' = get_scan_interval
                  /\ state_work' = TRUE /\ UNCHANGED let_go
             ELSE /\ let_go' = (let_go \/ (main = "run" /\ ~state_timer /\ ~state_work
                                              /\ pc = "idle"))
                  /\ UNCHANGED <<ages, state_work>>
  /\ UNCHANGED <<main, connectable_adv_active, missed, state_timer, state_event, pc,
                 gave_up, table, world, doGatewayAdvertise, adv, scanning, faults>>

\* scan_cb: a full queue drops the event, never the sight of a gateway.
scan_cb(m, rssi) ==
  /\ scanning
  /\ doGatewayAdvertise' = (doGatewayAdvertise \/ m \in Gateways)
  /\ IF Len(scan_event_q) < SCAN_EVENT_QUEUE_SIZE
     THEN scan_event_q' = Append(scan_event_q, [mac_id |-> m, rssi |-> rssi])
     ELSE UNCHANGED scan_event_q
  /\ UNCHANGED <<boot, ages, work, world, juxta_scan_table, ble_state, ble_connected, adv,
                 scanning, faults>>

-----------------------------------------------------------------------------
(* state_work_handler. *)

state_timer_callback ==
  /\ state_timer /\ state_timer' = FALSE
  /\ state_event' = TRUE /\ state_work' = TRUE
  /\ UNCHANGED <<boot, ages, pc, gave_up, let_go, table, world, ble_state, ble_connected,
                 doGatewayAdvertise, adv, scanning, faults>>

\* Events, then the row of the minute.  A low battery ends the handler there,
\* whatever woke it.
StateWorkStarts ==
  LET logs == fresh /\ main = "run" /\ ~ble_connected
  IN  /\ state_work /\ pc = "idle" /\ restart # "mark" /\ state_work' = FALSE
      /\ juxta_scan_table' = Taken /\ scan_event_q' = <<>>
      /\ pc' = CASE logs /\ low  -> "idle"
                 [] logs /\ ~low -> "row"
                 [] fresh /\ ~logs -> "logged"
                 [] OTHER -> "radio"
      /\ gave_up' = (gave_up \/ (logs /\ low /\ ~state_timer))
      /\ UNCHANGED <<boot, ages, state_timer, state_event, let_go, world, ble_state,
                     ble_connected, doGatewayAdvertise, adv, scanning, faults>>

\* juxta_framfs_append_device_scan_data with the devices of the table.
AppendsRow ==
  /\ pc = "row" /\ pc' = "logged"
  /\ UNCHANGED <<boot, ages, state_timer, state_event, state_work, gave_up, let_go, table,
                 world, ble_state, ble_connected, doGatewayAdvertise, adv, scanning,
                 faults>>

\* The table is cleared and motion looked at, once a minute, row or no row.
Logged ==
  /\ pc = "logged" /\ pc' = "radio"
  /\ juxta_scan_table' = Empty
  /\ fresh' = FALSE /\ quiet' \in BOOLEAN
  /\ UNCHANGED <<boot, ages, state_timer, state_event, state_work, gave_up, let_go, low,
                 settings, adc_timer, scan_event_q, ble_state, ble_connected,
                 doGatewayAdvertise, adv, scanning, faults>>

\* Only a timer moves the radio, and never while connected.
Handles == pc = "radio" /\ ~ble_connected /\ state_event

HandlesNothing ==
  /\ pc = "radio" /\ (ble_connected \/ ~state_event) /\ pc' = "idle"
  /\ UNCHANGED <<boot, ages, state_timer, state_event, state_work, gave_up, let_go, table,
                 world, ble_state, ble_connected, doGatewayAdvertise, adv, scanning,
                 faults>>

StopsBurst ==
  /\ Handles /\ (Advertising \/ ble_state = "SCANNING") /\ state_event' = FALSE
  /\ pc' = IF ble_state = "SCANNING" THEN "stop_scan" ELSE "stop_adv"
  /\ UNCHANGED <<boot, ages, state_timer, state_work, gave_up, let_go, table, world,
                 ble_state, ble_connected, doGatewayAdvertise, adv, scanning, faults>>

StartsScan ==
  /\ Handles /\ ble_state = "IDLE" /\ is_time_to_scan /\ state_event' = FALSE
  /\ ble_state' = "SCANNING" /\ pc' = "start_scan"
  /\ juxta_scan_table' = Empty
  /\ UNCHANGED <<boot, ages, state_timer, state_work, gave_up, let_go, world, scan_event_q,
                 ble_connected, doGatewayAdvertise, adv, scanning, faults>>

StartsAdvertising ==
  /\ Handles /\ ble_state = "IDLE" /\ ~is_time_to_scan /\ is_time_to_advertise
  /\ state_event' = FALSE /\ doGatewayAdvertise' = FALSE
  /\ IF doGatewayAdvertise THEN ble_state' = "GATEWAY_ADVERTISING" /\ pc' = "start_gateway"
     ELSE ble_state' = "ADVERTISING" /\ pc' = "start_adv"
  /\ UNCHANGED <<boot, ages, state_timer, state_work, gave_up, let_go, table, world,
                 ble_connected, adv, scanning, faults>>

\* Mutant: the moment after a burst never ends.
WaitsOn ==
  /\ Handles
  /\ \/ ble_state = "WAITING"
     \/ ble_state = "IDLE" /\ ~is_time_to_scan /\ ~is_time_to_advertise
  /\ state_event' = FALSE /\ state_timer' = TRUE /\ pc' = "idle"
  /\ UNCHANGED <<boot, ages, state_work, gave_up, let_go, table, world, ble_state,
                 ble_connected, doGatewayAdvertise, adv, scanning, faults>>

\* A burst that has ended lets a moment pass before the next is looked for.
Waits ==
  /\ Handles
  /\ \/ ble_state = "WAITING"
     \/ ble_state = "IDLE" /\ ~is_time_to_scan /\ ~is_time_to_advertise
  /\ state_event' = FALSE /\ ble_state' = "IDLE" /\ state_timer' = TRUE /\ pc' = "idle"
  /\ UNCHANGED <<boot, ages, state_work, gave_up, let_go, table, world, ble_connected,
                 doGatewayAdvertise, adv, scanning, faults>>

-----------------------------------------------------------------------------
(* Answers of the controller, which end the handler. *)

\* Mutant: the end of a burst arms no timer.
BurstStoppedUntimed ==
  /\ pc \in {"stop_adv", "stop_scan"} /\ pc' = "idle"
  /\ ble_state' = "WAITING"
  /\ IF pc = "stop_adv" THEN adv' = "off" /\ age_adv' = 0 /\ UNCHANGED <<scanning, age_scan>>
     ELSE scanning' = FALSE /\ age_scan' = 0 /\ UNCHANGED <<adv, age_adv>>
  /\ UNCHANGED <<boot, state_timer, state_event, state_work, gave_up, let_go, table, world,
                 ble_connected, doGatewayAdvertise, faults>>

\* juxta_stop_advertising, juxta_stop_scanning.
BurstStopped ==
  /\ pc \in {"stop_adv", "stop_scan"} /\ pc' = "idle"
  /\ ble_state' = "WAITING" /\ state_timer' = TRUE
  /\ IF pc = "stop_adv" THEN adv' = "off" /\ age_adv' = 0 /\ UNCHANGED <<scanning, age_scan>>
     ELSE scanning' = FALSE /\ age_scan' = 0 /\ UNCHANGED <<adv, age_adv>>
  /\ UNCHANGED <<boot, state_event, state_work, gave_up, let_go, table, world,
                 ble_connected, doGatewayAdvertise, faults>>

\* "skipping transition": no timer is armed.
StopFails ==
  /\ pc \in {"stop_adv", "stop_scan"} /\ pc' = "idle" /\ Fault
  /\ gave_up' = (gave_up \/ ~state_timer)
  /\ UNCHANGED <<boot, ages, state_timer, state_event, state_work, let_go, table, world,
                 ble_state, ble_connected, doGatewayAdvertise, adv, scanning>>

\* juxta_start_scanning stops any advertising first.
ScanStarted ==
  /\ pc = "start_scan" /\ pc' = "idle" /\ adv' = "off"
  /\ scanning' = TRUE /\ state_timer' = TRUE
  /\ UNCHANGED <<boot, ages, state_event, state_work, gave_up, let_go, table, world,
                 ble_state, ble_connected, doGatewayAdvertise, faults>>

AdvertisingStarted ==
  /\ pc \in {"start_adv", "start_gateway"} /\ pc' = "idle"
  /\ adv' = IF pc = "start_gateway" THEN "connectable" ELSE "plain"
  /\ state_timer' = TRUE
  /\ UNCHANGED <<boot, ages, state_event, state_work, gave_up, let_go, table, world,
                 ble_state, ble_connected, doGatewayAdvertise, scanning, faults>>

\* A second later again.
StartFails ==
  /\ pc \in {"start_scan", "start_adv"} /\ pc' = "idle" /\ Fault
  /\ adv' = IF pc = "start_scan" THEN "off" ELSE adv
  /\ ble_state' = "IDLE" /\ state_timer' = TRUE
  /\ UNCHANGED <<boot, ages, state_event, state_work, gave_up, let_go, table, world,
                 ble_connected, doGatewayAdvertise, scanning>>

\* The work is submitted again, without the event that would make it move.
GatewayStartFails ==
  /\ pc = "start_gateway" /\ pc' = "idle" /\ Fault
  /\ ble_state' = "IDLE" /\ state_work' = TRUE /\ gave_up' = (gave_up \/ ~state_timer)
  /\ UNCHANGED <<boot, ages, state_timer, state_event, let_go, table, world, ble_connected,
                 doGatewayAdvertise, adv, scanning>>

-----------------------------------------------------------------------------
(* The world. *)

\* No interval that can be saved is longer.
Older(age) ==
  IF \E s \in Saved : age < 2 * s.adv_interval \/ age < 2 * s.scan_interval
  THEN age + 1 ELSE age

SecondPasses ==
  /\ age_adv' = Older(age_adv)
  /\ age_scan' = Older(age_scan)
  /\ UNCHANGED <<boot, work, table, world, ble_state, ble_connected, doGatewayAdvertise,
                 adv, scanning, faults>>

MinutePasses ==
  /\ main = "run" /\ ~fresh /\ fresh' = TRUE
  /\ UNCHANGED <<boot, ages, work, table, quiet, low, settings, adc_timer, ble_state,
                 ble_connected, doGatewayAdvertise, adv, scanning, faults>>

BatteryChanges ==
  /\ main = "run" /\ low' = ~low
  /\ UNCHANGED <<boot, ages, work, table, fresh, quiet, settings, adc_timer, ble_state,
                 ble_connected, doGatewayAdvertise, adv, scanning, faults>>

\* ten_minute_timeout forgets the gateway; nothing starts its timer.

Boots == MainAdvertises \/ MainMarks \/ MainSynchronized \/ MainReady \/ MainRuns
         \/ RestartAdvertises \/ RestartMarks
Bluetooth == connected \/ GatewayWrites \/ disconnected
             \/ \E m \in Names, rssi \in Strengths : scan_cb(m, rssi)
Handler == StateWorkStarts \/ AppendsRow \/ Logged \/ HandlesNothing \/ StopsBurst
           \/ StartsScan \/ StartsAdvertising \/ Waits
Answers == BurstStopped \/ StopFails \/ ScanStarted \/ AdvertisingStarted \/ StartFails
           \/ GatewayStartFails
World == SecondPasses \/ MinutePasses \/ BatteryChanges

Next == Boots \/ Bluetooth \/ state_timer_callback \/ Handler \/ Answers \/ World

Spec == Init /\ [][Next]_vars

\* Threads run, timers expire, seconds pass, the controller answers.
FairSpec ==
  /\ Spec /\ WF_vars(Boots) /\ WF_vars(state_timer_callback) /\ WF_vars(SecondPasses)
  /\ WF_vars(Handler) /\ WF_vars(BurstStopped \/ ScanStarted \/ AdvertisingStarted)

-----------------------------------------------------------------------------
(* Properties. *)

TypeOK ==
  /\ main \in {"start", "mark", "sync", "leave", "ready", "run", "returned"}
  /\ ble_state \in {"IDLE", "SCANNING", "ADVERTISING", "GATEWAY_ADVERTISING", "WAITING"}
  /\ adv \in {"off", "plain", "connectable"} /\ restart \in {"idle", "queued", "mark"}
  /\ pc \in {"idle", "row", "logged", "radio", "stop_adv", "stop_scan", "start_scan",
             "start_adv", "start_gateway"}
  /\ {ble_connected, doGatewayAdvertise, connectable_adv_active, datetime_synchronized,
      scanning, state_timer, state_event, state_work, fresh, quiet, low, adc_timer, gave_up,
      let_go, missed} \subseteq BOOLEAN
  /\ settings \in Saved /\ age_adv \in 0..510 /\ age_scan \in 0..510
  /\ datetime_sync_retry_count \in 0..MaxRetries /\ faults \in 0..MaxFaults
  /\ Len(scan_event_q) <= SCAN_EVENT_QUEUE_SIZE
  /\ Cardinality(Listed(juxta_scan_table)) <= MAX_JUXTA_DEVICES

\* Once it runs, the state machine is always driven: a timer, a submitted
\* handler, a running one, or a connection whose end submits one.  It stops only
\* at a failed stop, a failed gateway burst or a low battery (gave_up), or when a
\* connection that outlived every timer ends in a mode other than NORMAL (let_go).
RunIsDriven ==
  main = "run" /\ ~adc_timer /\ ~gave_up /\ ~let_go =>
    state_timer \/ state_work \/ pc # "idle" \/ ble_connected

\* While the clock is not set a gateway can come, or is there, or will be
\* advertised for again; unless advertising failed or the flag that guards it
\* was set after the connection it announces.
GatewayCanCome ==
  main \in {"mark", "sync"} /\ ~datetime_synchronized /\ ~missed =>
    adv = "connectable" \/ ble_connected \/ restart # "idle"

\* Scans come again and again, once a gateway has come for the first session and
\* whatever settings gateways save, if gateways leave and the machine has not
\* been stopped in one of the ways above.
ScansRecur ==
  []<>scanning \/ <>[](gave_up \/ let_go \/ ble_connected \/ adc_timer
                       \/ main \in {"sync", "returned"})

=============================================================================
