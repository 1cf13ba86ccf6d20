------------------------------ MODULE Gateway ------------------------------
(***************************************************************************)
(* What a gateway session leaves behind: the settings in RAM and in NVS    *)
(* (juxta_settings.c), the commands that change them (ble_service.c), the  *)
(* rows a boot and a connection owe the JXS log (main.c) and the witness   *)
(* of supply sags in retained RAM (juxta_pof.c).                           *)
(*                                                                         *)
(* The main thread boots, waits in wait_for_datetime_sync and runs the     *)
(* session; the Bluetooth receive thread handles connections and commands; *)
(* the power-fail interrupt may strike anywhere; a reset, a power cut or   *)
(* the shelf may end a life anywhere.  Which boot resumes what is the      *)
(* business of Lifecycle, the log is NorLog's, and has room: here a row is *)
(* an event name, dated or, while the clock is not set, with a time of 0,  *)
(* and only the latter needs a file that is open already.                  *)
(*                                                                         *)
(* Text fields are names; experiment and upload_path, which nothing        *)
(* depends on, are left out.                                               *)
(***************************************************************************)
EXTENDS Integers, Sequences, JsonFields

CONSTANTS
  MaxInterval,        \* JUXTA_MAX_BLE_INTERVAL_S
  UInt16Max,          \* what a 16-bit field holds
  MaxMultiplier,      \* JUXTA_MAX_INACTIVITY_MULTIPLIER
  Names,              \* subject ids, "" for an empty one
  StoredAtFirst,      \* what NVS may hold before the first boot
  Messages,           \* what a gateway may send: sequences of fields
  None,               \* no record, no command
  Odd,                \* a record of another size
  MaxLives,           \* bound: boots
  MaxSags,            \* bound: power-fail warnings of a life
  MaxRows,            \* bound: rows of a boot, before another command or connection
  MaxFaults           \* bound: NVS operations that fail

Empty  == ""
OwnId  == "JX"                                \* boot_device_id

Bytes  == 0..255
UInt16 == 0..UInt16Max
Settings == [subject : Names, adv : UInt16, scan : UInt16, vitals : UInt16,
             multiplier : Bytes, motion : Bytes, reserved : Bytes]
Command  == [timestamp : {Absent} \cup Nat, subject : Names \cup {Keep},
             adv : {Absent} \cup Nat, scan : {Absent} \cup Nat, vitals : {Absent} \cup Nat,
             multiplier : {Absent} \cup Nat, motion : {Absent, 0, 1}, clear : BOOLEAN,
             reset : BOOLEAN]

\* What apply_gateway_command may find.
Received == {Parsed(json) : json \in Messages}

ASSUME FieldAssumption ==
  /\ MaxInterval \in Nat \ {0} /\ UInt16Max \in Nat /\ MaxInterval <= UInt16Max
  /\ MaxMultiplier \in 1..255
  /\ {Empty, OwnId} \subseteq Names /\ Keep \notin Names
  /\ None # Odd /\ {None, Odd} \cap (Settings \cup Command) = {}
ASSUME GatewayAssumption ==
  /\ StoredAtFirst \subseteq Settings \cup {None, Odd}
  /\ Received \subseteq Command
ASSUME GatewayBoundAssumption ==
  MaxLives \in Nat /\ MaxSags \in Nat /\ MaxRows \in Nat /\ MaxFaults \in Nat

VARIABLES
  stored,               \* NVS: juxta_prod/current
  current,              \* current_settings
  session,              \* op_mode is PROD
  up,                   \* where the main thread is
  kind,                 \* of boot: wake, resume, resync or plain
  clock,                \* juxta_time_now() is not 0
  datetime_synchronized, ble_connected, pending_user_connected_log,
  shelf_exit_logged_this_boot,
  boot_logged_this_boot,         \* and forensics_emitted
  command,              \* in the receive thread's hands, None if it is idle
  shelf_requested,      \* shelf_work is scheduled
  clear_memory_work,    \* is submitted
  jxs_open,             \* the log: active_jxs is a file
  rows,                 \* the JXS rows of this boot
  s_retained,           \* witness count, and the count its CRC was computed over
  s_prev_life,          \* count of the life before, 0 if there is no witness
  acked,                \* history: the settings last saved and acknowledged
  sags,                 \* history: warnings of this life
  owed,                 \* history: whether the life before left a whole witness
  lives, faults

gateVars == <<clock, datetime_synchronized, ble_connected, pending_user_connected_log,
              shelf_exit_logged_this_boot, boot_logged_this_boot, command, shelf_requested,
              clear_memory_work, jxs_open, rows>>
setVars  == <<stored, current, acked>>
pofVars  == <<s_retained, s_prev_life, sags, owed>>
bootVars == <<session, up, kind, lives>>
vars == <<setVars, bootVars, gateVars, pofVars, faults>>

-----------------------------------------------------------------------------
(* Settings. *)

Least(a, b) == IF a < b THEN a ELSE b

DefaultAdv        == 1                        \* scaled with MaxInterval
DefaultScan       == 1
DefaultVitals     == 1
DefaultMultiplier == 1

Defaults == [subject |-> OwnId, adv |-> DefaultAdv, scan |-> DefaultScan,
             vitals |-> DefaultVitals, multiplier |-> DefaultMultiplier, motion |-> 1,
             reserved |-> 0]

\* sanitize_settings.  A motion byte of 0 counts only with the mark beside it:
\* a record of older firmware has zeros there.
Sanitized(s) ==
  [s EXCEPT !.subject    = IF @ = Empty THEN OwnId ELSE @,
            !.adv        = Least(@, MaxInterval),
            !.scan       = Least(@, MaxInterval),
            !.vitals     = IF @ = 0 THEN DefaultVitals ELSE @,
            !.multiplier = IF @ = 0 THEN DefaultMultiplier ELSE Least(@, MaxMultiplier),
            !.motion     = IF @ = 0 /\ s.reserved # 0 THEN 0 ELSE 1]

Fault == faults < MaxFaults /\ faults' = faults + 1

\* juxta_settings_update: NVS first, then the copy.  A gateway that empties the
\* subject id is told its own name; nothing else it was told may change.
Update(s) ==
  \/ /\ stored' = Sanitized(s) /\ current' = Sanitized(s)
     /\ acked' = [s EXCEPT !.subject = IF @ = Empty THEN OwnId ELSE @]
     /\ UNCHANGED faults
  \/ Fault /\ UNCHANGED setVars

-----------------------------------------------------------------------------
(* A life begins and ends. *)

\* RAM as the C run time leaves it.  The log is as the boot will find it: rows of
\* production have opened a file again where clearMemory left none.
RamCleared ==
  /\ clock' = FALSE /\ datetime_synchronized' = FALSE /\ ble_connected' = FALSE
  /\ pending_user_connected_log' = FALSE
  /\ shelf_exit_logged_this_boot' = FALSE /\ boot_logged_this_boot' = FALSE
  /\ command' = None /\ shelf_requested' = FALSE /\ clear_memory_work' = FALSE
  /\ rows' = <<>>
  /\ jxs_open' \in IF up = "production" /\ clock THEN {jxs_open, TRUE} ELSE {jxs_open}
  /\ current' = Defaults /\ s_prev_life' = 0 /\ sags' = 0
  /\ UNCHANGED <<stored, acked, faults>>

Torn    == s_retained.count # s_retained.crc
Witness == s_retained.count > 0 /\ ~Torn
NoWitness == [count |-> 0, crc |-> 0]

Init ==
  /\ stored \in StoredAtFirst /\ current = Defaults
  /\ acked = IF stored \in {None, Odd} THEN None ELSE Sanitized(stored)
  /\ session = FALSE /\ up = "off" /\ kind = "wake" /\ lives = 0
  /\ clock = FALSE /\ datetime_synchronized = FALSE /\ ble_connected = FALSE
  /\ pending_user_connected_log = FALSE
  /\ shelf_exit_logged_this_boot = FALSE /\ boot_logged_this_boot = FALSE
  /\ command = None /\ shelf_requested = FALSE /\ clear_memory_work = FALSE
  /\ jxs_open \in BOOLEAN /\ rows = <<>>
  /\ s_retained = NoWitness /\ s_prev_life = 0 /\ sags = 0 /\ owed = FALSE
  /\ faults = 0

Running == up \in {"boot", "loaded", "ready", "gate", "production"}

\* Retained RAM survives a reset, but neither System OFF nor a power cut.
LoseWitness == s_retained' = NoWitness /\ owed' = FALSE
KeepWitness == s_retained' = s_retained /\ owed' = (sags > 0 /\ ~Torn)

\* A silent reset of production resumes it, with the clock or without; any
\* other falls through the boot without the gate.
SilentReset ==
  /\ Running /\ lives < MaxLives /\ lives' = lives + 1
  /\ up' = "reset" /\ RamCleared /\ KeepWitness
  /\ kind' \in IF session THEN {"resume", "resync"} ELSE {"plain"}
  /\ UNCHANGED session

PowerCut ==
  /\ Running /\ lives < MaxLives /\ lives' = lives + 1
  /\ RamCleared /\ LoseWitness
  /\ up' = IF session THEN "reset" ELSE "off"
  /\ kind' = "resume"
  /\ UNCHANGED session

MagnetWakes ==
  /\ up = "off" /\ lives < MaxLives /\ lives' = lives + 1
  /\ up' = "reset" /\ kind' = "wake"
  /\ UNCHANGED <<session, setVars, gateVars, pofVars, faults>>

\* enter_shelf_mode, on the gateway's request or for any other reason.
Shelves ==
  /\ shelf_requested \/ up = "production"
  /\ up' = "off" /\ session' = FALSE
  /\ RamCleared /\ LoseWitness
  /\ UNCHANGED <<kind, lives>>

\* A boot that does not check the CRC.
PofInitUnchecked ==
  /\ up = "reset" /\ up' = "boot"
  /\ s_prev_life' = s_retained.count
  /\ s_retained' = NoWitness
  /\ UNCHANGED <<session, kind, lives, setVars, gateVars, sags, owed, faults>>

\* juxta_pof_init: the witness of the life before is taken, a new one begun.
PofInit ==
  /\ up = "reset" /\ up' = "boot"
  /\ s_prev_life' = IF Witness THEN s_retained.count ELSE 0
  /\ s_retained' = NoWitness
  /\ UNCHANGED <<session, kind, lives, setVars, gateVars, sags, owed, faults>>

\* pof_warn_handler: the fields, then the CRC.
Sag ==
  /\ Running /\ ~Torn /\ sags < MaxSags
  /\ sags' = sags + 1
  /\ s_retained' = [s_retained EXCEPT !.count = @ + 1]
  /\ UNCHANGED <<bootVars, setVars, gateVars, s_prev_life, owed, faults>>

SagSealed ==
  /\ Running /\ Torn
  /\ s_retained' = [s_retained EXCEPT !.crc = s_retained.count]
  /\ UNCHANGED <<bootVars, setVars, gateVars, s_prev_life, sags, owed, faults>>

-----------------------------------------------------------------------------
(* Rows. *)

Row(event, at) == [event |-> event, dated |-> at]

\* juxta_log_append_event: with a date there is a file for the row, without one
\* the row goes to the file that is open, if any.
Logged(seq, event, at) == IF at \/ jxs_open THEN Append(seq, Row(event, at)) ELSE seq

\* Without the flag that makes the rows one-shot.
IdentityAgain(seq) ==
  seq \o <<Row("boot", TRUE)>>
      \o (IF kind \in {"resume", "resync"} THEN <<Row("recovery", TRUE)>> ELSE <<>>)

\* log_boot_identity and emit_boot_forensics, once, with the clock set.
Identity(seq) ==
  IF boot_logged_this_boot THEN seq
  ELSE seq \o <<Row("boot", TRUE)>>
           \o (IF kind \in {"resume", "resync"} THEN <<Row("recovery", TRUE)>> ELSE <<>>)
           \o (IF s_prev_life > 0 THEN <<Row("pof_witness", TRUE)>> ELSE <<>>)

LogsIdentity(at) ==
  /\ boot_logged_this_boot' = (boot_logged_this_boot \/ at)
  /\ s_prev_life' = IF at THEN 0 ELSE s_prev_life

-----------------------------------------------------------------------------
(* juxta_settings_init and the rest of the boot. *)

\* settings_set takes a record of the right size only.
Readable == stored \notin {None, Odd}

\* With or without a record that can be read; a record that is read is not
\* written back.  A failure to store the defaults ends the boot.
SettingsInit ==
  /\ up = "boot"
  /\ \/ /\ Readable
        /\ current' = Sanitized(stored) /\ UNCHANGED <<stored, acked, faults>>
        /\ up' = "loaded"
     \/ /\ ~Readable /\ Update(Defaults)
        /\ up' = IF stored' = stored THEN "dead" ELSE "loaded"
  /\ UNCHANGED <<session, kind, lives, gateVars, pofVars>>

Unsettled == <<session, kind, lives, setVars, faults>>

\* The clock of a boot that resumes, then juxta_log_init: a log it can make no
\* sense of is formatted; with the clock set there is a file for today, and
\* a row of the boot, to which log_boot_identity will add its own.
LogInit ==
  /\ up = "loaded" /\ up' = "ready"
  /\ clock' = (kind = "resume")
  /\ shelf_exit_logged_this_boot' = (kind \in {"resume", "resync"})
  /\ \/ jxs_open' = FALSE /\ rows' = rows
     \/ jxs_open' = (jxs_open \/ clock')
        /\ rows' = IF clock' THEN Append(rows, Row("boot", TRUE)) ELSE rows
  /\ UNCHANGED <<Unsettled, datetime_synchronized, ble_connected, pending_user_connected_log,
                 boot_logged_this_boot, command, shelf_requested, clear_memory_work, pofVars>>

GateOpens ==
  /\ up = "ready" /\ kind \in {"wake", "resync"} /\ up' = "gate"
  /\ UNCHANGED <<Unsettled, gateVars, pofVars>>

\* Production init, at once or once the gateway has set the clock and is gone.
StartsProduction ==
  /\ \/ up = "ready" /\ kind \in {"resume", "plain"}
     \/ up = "gate" /\ datetime_synchronized /\ ~ble_connected
  /\ up' = "production" /\ session' = TRUE
  /\ rows' = IF clock THEN Identity(rows) ELSE rows
  /\ jxs_open' = (jxs_open \/ rows' # rows) /\ LogsIdentity(clock)
  /\ UNCHANGED <<kind, lives, setVars, faults, clock, datetime_synchronized, ble_connected,
                 pending_user_connected_log, shelf_exit_logged_this_boot, command,
                 shelf_requested, clear_memory_work, s_retained, sags, owed>>

-----------------------------------------------------------------------------
(* Connections.  The gate alone advertises connectably. *)

Connected ==
  /\ up = "gate" /\ ~ble_connected /\ ~datetime_synchronized /\ Len(rows) < MaxRows
  /\ ble_connected' = TRUE
  /\ rows' = IF clock THEN Logged(rows, "user_connected", clock) ELSE rows
  /\ jxs_open' = (jxs_open \/ clock)
  /\ pending_user_connected_log' = (pending_user_connected_log \/ ~clock)
  /\ UNCHANGED <<Unsettled, up, clock, datetime_synchronized, shelf_exit_logged_this_boot,
                 boot_logged_this_boot, command, shelf_requested, clear_memory_work,
                 pofVars>>

Disconnected ==
  /\ ble_connected /\ command = None
  /\ ble_connected' = FALSE
  /\ rows' = Logged(rows, "user_disconnected", clock) /\ jxs_open' = (jxs_open \/ clock)
  /\ pending_user_connected_log' = FALSE
  /\ UNCHANGED <<Unsettled, up, clock, datetime_synchronized, shelf_exit_logged_this_boot,
                 boot_logged_this_boot, command, shelf_requested, clear_memory_work,
                 pofVars>>

-----------------------------------------------------------------------------
(* apply_gateway_command. *)

\* The fields a command carries; a number too big for 16 bits is ignored, one
\* too big for the firmware is clamped.
Interval(asked, old) == IF asked \in UInt16 THEN Least(asked, MaxInterval) ELSE old

AppliedUnmarked(s, c) ==             \* motionLogging without the mark beside it
  [s EXCEPT !.adv    = Interval(c.adv, @),
            !.scan   = Interval(c.scan, @),
            !.motion = IF c.motion = Absent THEN @ ELSE c.motion]

Applied(s, c) ==
  [subject    |-> IF c.subject = Keep THEN s.subject ELSE c.subject,
   adv        |-> Interval(c.adv, s.adv),
   scan       |-> Interval(c.scan, s.scan),
   vitals     |-> IF c.vitals \in UInt16 \ {0} THEN c.vitals ELSE s.vitals,
   multiplier |-> IF c.multiplier = Absent THEN s.multiplier
                  ELSE IF c.multiplier < DefaultMultiplier THEN DefaultMultiplier
                  ELSE Least(c.multiplier, MaxMultiplier),
   motion     |-> IF c.motion = Absent THEN s.motion ELSE c.motion,
   reserved   |-> IF c.motion = Absent THEN s.reserved ELSE 1]

Changes(c) ==
  \/ c.subject # Keep \/ c.motion # Absent \/ c.multiplier # Absent
  \/ c.adv \in UInt16 \/ c.scan \in UInt16 \/ c.vitals \in UInt16 \ {0}

\* timestamp: the clock, then juxta_ble_datetime_synchronized with the rows that
\* waited for it, then time_set.  The copy of the settings is taken first.
CommandArrives ==
  /\ ble_connected /\ command = None /\ Len(rows) < MaxRows
  /\ \E c \in Received :
       LET set == c.timestamp # Absent
           at  == IF set THEN c.timestamp # 0 ELSE clock
           exit == IF shelf_exit_logged_this_boot THEN rows
                   ELSE Logged(rows, "shelf_exit", at)
           identity == IF at THEN Identity(exit) ELSE exit
           user == IF pending_user_connected_log THEN Logged(identity, "user_connected", at)
                   ELSE identity
       IN  /\ command' = [c EXCEPT !.timestamp = Absent]
           /\ clock' = at
           /\ IF set
              THEN /\ datetime_synchronized' = TRUE /\ shelf_exit_logged_this_boot' = TRUE
                   /\ LogsIdentity(at) /\ pending_user_connected_log' = FALSE
                   /\ rows' = Logged(user, "time_set", at) /\ jxs_open' = (jxs_open \/ at)
              ELSE UNCHANGED <<datetime_synchronized, shelf_exit_logged_this_boot, rows,
                               jxs_open, boot_logged_this_boot, s_prev_life,
                               pending_user_connected_log>>
           /\ clear_memory_work' = (clear_memory_work \/ c.clear)
           /\ shelf_requested' = (shelf_requested \/ c.reset)
  /\ UNCHANGED <<Unsettled, up, ble_connected, s_retained, sags, owed>>

\* The other fields, saved together.  No row: production_ready is not set yet.
CommandApplied ==
  /\ command # None /\ command' = None
  /\ IF Changes(command) THEN Update(Applied(current, command))
     ELSE UNCHANGED <<setVars, faults>>
  /\ UNCHANGED <<bootVars, clock, datetime_synchronized, ble_connected,
                 pending_user_connected_log, shelf_exit_logged_this_boot,
                 boot_logged_this_boot, shelf_requested, clear_memory_work, jxs_open, rows,
                 pofVars>>

\* clear_memory_work_handler, whether the connection lasts so long or not; the rows
\* go, and no file is open.
ClearsMemory ==
  /\ clear_memory_work /\ clear_memory_work' = FALSE
  /\ jxs_open' = FALSE
  /\ UNCHANGED <<Unsettled, up, clock, datetime_synchronized, ble_connected,
                 pending_user_connected_log, shelf_exit_logged_this_boot,
                 boot_logged_this_boot, command, shelf_requested, rows, pofVars>>

-----------------------------------------------------------------------------
Next ==
  \/ SilentReset \/ PowerCut \/ MagnetWakes \/ Shelves
  \/ PofInit \/ Sag \/ SagSealed
  \/ SettingsInit \/ LogInit \/ GateOpens \/ StartsProduction
  \/ Connected \/ Disconnected \/ CommandArrives \/ CommandApplied \/ ClearsMemory

Spec == Init /\ [][Next]_vars

-----------------------------------------------------------------------------
(* Properties. *)

Events == {"shelf_exit", "boot", "recovery", "pof_witness", "user_connected", "time_set",
           "user_disconnected"}

\* A boot does not report itself without a date.
Rows == {r \in [event : Events, dated : BOOLEAN] :
           r.dated \/ r.event \notin {"boot", "recovery", "pof_witness"}}

TypeOK ==
  /\ stored \in Settings \cup {None, Odd} /\ current \in Settings
  /\ acked \in Settings \cup {None}
  /\ session \in BOOLEAN /\ clock \in BOOLEAN
  /\ up \in {"off", "dead", "reset", "boot", "loaded", "ready", "gate", "production"}
  /\ kind \in {"wake", "resume", "resync", "plain"}
  /\ datetime_synchronized \in BOOLEAN /\ ble_connected \in BOOLEAN
  /\ pending_user_connected_log \in BOOLEAN
  /\ shelf_exit_logged_this_boot \in BOOLEAN /\ boot_logged_this_boot \in BOOLEAN
  /\ command \in Command \cup {None} /\ shelf_requested \in BOOLEAN
  /\ clear_memory_work \in BOOLEAN /\ jxs_open \in BOOLEAN /\ rows \in Seq(Rows)
  /\ s_retained \in [count : Nat, crc : Nat] /\ s_prev_life \in Nat
  /\ sags \in Nat /\ owed \in BOOLEAN /\ lives \in Nat /\ faults \in Nat

\* Settings the state machine of Radio can live with.
Sane(s) ==
  /\ s.subject # Empty /\ s.adv <= MaxInterval /\ s.scan <= MaxInterval
  /\ s.vitals # 0 /\ s.multiplier \in 1..MaxMultiplier /\ s.motion \in {0, 1}

\* What a gateway was told is saved is in force now and at every later boot: what
\* apply_gateway_command lets through is neither changed when it is saved nor
\* when it is loaded, and whatever NVS held before, it is sane.
AckedInForce ==
  up \in {"loaded", "ready", "gate", "production"} => current = acked /\ Sane(current)

\* The dated JXS rows of a boot are in the order main.c:1620 promises, nothing of a
\* connection follows its end, and what the boot says of itself is there once,
\* dated or not; but for the second row of a boot that resumes.
Rank == [shelf_exit |-> 1, boot |-> 2, recovery |-> 3, pof_witness |-> 4,
         user_connected |-> 5, time_set |-> 6, user_disconnected |-> 7]
OneShot == {"shelf_exit", "boot", "recovery", "pof_witness"}

InOrder(r, q) ==
  /\ \/ ~(r.dated /\ q.dated)
     \/ Rank[r.event] < Rank[q.event]
     \/ r.event = "time_set" /\ q.event = "time_set"
  /\ r.event = q.event => r.event \notin OneShot
RowsInOrder ==
  \A i, j \in DOMAIN rows :
    i < j => \/ InOrder(rows[i], rows[j])
             \/ kind = "resume" /\ i = 1 /\ j = 2 /\ {rows[i].event, rows[j].event} = {"boot"}

\* A supply sag that ended in a reset is reported by the next boot that knows
\* the time, and no boot reports a sag of another life than the one before.
WitnessReported ==
  boot_logged_this_boot => (owed <=> \E i \in DOMAIN rows : rows[i].event = "pof_witness")

(* What a comment or a document says and TLC refutes; no run checks it. *)

\* main.c:1619: the rows "that were waiting for a usable timestamp" are flushed
\* when "the gateway has supplied a valid clock".
WaitingRowsFlushed ==
  boot_logged_this_boot /\ kind = "wake" =>
    \E i \in DOMAIN rows : rows[i] = Row("shelf_exit", TRUE)

=============================================================================
