---------------------------- MODULE RadioProofs ----------------------------
(***************************************************************************)
(* For any settings, devices, sizes and troubles: without a power cut no   *)
(* motion is counted twice or lost unnoticed; what the radio does has an   *)
(* end that is coming; and a burst reports the devices it heard, each at   *)
(* its strongest.                                                          *)
(***************************************************************************)
EXTENDS Radio, FiniteSetTheorems, SequenceTheorems, TLAPS

Counts ==
  /\ motion_events \in Int /\ motion \in Int /\ moved \in Int /\ reported \in Int /\ lost \in Int
  /\ draft \in Int /\ cuts \in Nat

\* A count in hand belongs to the vitals handler.
HandsEmpty == job # "vitals" => motion = 0

\* Only a power cut leads to a boot that flushes a draft.
BootsAfterCut == main = "boot" => cuts > 0

MotionInv == Counts /\ HandsEmpty /\ BootsAfterCut /\ MotionAccounted

LEMMA InitMotion == Init => MotionInv
BY DEF Init, MotionInv, Counts, HandsEmpty, BootsAfterCut, MotionAccounted, None

\* Sessions begin and end.
LEMMA SessionsStep ==
  ASSUME MotionInv, Activate \/ PowerCut \/ RecoveryFlush \/ PowerOff
  PROVE  MotionInv'
<1> USE DEF MotionInv, Counts, HandsEmpty, BootsAfterCut, MotionAccounted
<1>1. CASE Activate
  BY <1>1 DEF Activate, StartsProduction
<1>2. CASE RecoveryFlush
  BY <1>2 DEF RecoveryFlush, StartsProduction, restVars
<1>3. CASE PowerOff
  BY <1>3 DEF PowerOff, Halts, SessionOver, None
<1>4. CASE PowerCut
  BY <1>4 DEF PowerCut, Halts, SessionOver, None
<1> QED
  BY <1>1, <1>2, <1>3, <1>4

\* What takes, counts, reports or drops motion.
LEMMA MotionStep ==
  ASSUME MotionInv,
         MotionInterrupt \/ TakeMotion \/ SkipRow \/ WriteRow \/ Checkpoint
  PROVE  MotionInv'
<1> USE DEF MotionInv, Counts, HandsEmpty, BootsAfterCut, MotionAccounted
<1>1. CASE MotionInterrupt
  BY <1>1 DEF MotionInterrupt, mainVars, restVars
<1>2. CASE TakeMotion
  <2>1. motion = 0 /\ job' = "vitals"
    BY <1>2 DEF TakeMotion, Handles
  <2>2. \/ motion' = motion_events /\ motion_events' = 0
        \/ motion' = 0 /\ motion_events' = motion_events
    BY <1>2 DEF TakeMotion
  <2>3. /\ moved' = moved /\ reported' = reported /\ lost' = lost
        /\ draft' = draft /\ cuts' = cuts /\ main' = main
    BY <1>2 DEF TakeMotion, mainVars, restVars
  <2> QED
    BY <2>1, <2>2, <2>3
<1>3. CASE SkipRow
  BY <1>3 DEF SkipRow, mainVars, restVars
<1>4. CASE WriteRow
  <2>1. /\ motion_events' = motion_events /\ moved' = moved /\ draft' = draft
        /\ cuts' = cuts /\ main' = main /\ motion' = 0
    BY <1>4 DEF WriteRow, mainVars
  <2>2. \/ reported' = reported + motion /\ lost' = lost
        \/ lost' = lost + motion /\ reported' = reported
    BY <1>4 DEF WriteRow
  <2>3. CASE reported' = reported + motion /\ lost' = lost
    BY <2>1, <2>3
  <2>4. CASE lost' = lost + motion /\ reported' = reported
    BY <2>1, <2>4
  <2> QED
    BY <2>2, <2>3, <2>4
<1>5. CASE Checkpoint
  BY <1>5 DEF Checkpoint, Handles, mainVars
<1> QED
  BY <1>1, <1>2, <1>3, <1>4, <1>5

\* The rest has nothing to do with motion.
LEMMA OtherStep ==
  ASSUME MotionInv,
         UNCHANGED <<motion_events, motion, moved, reported, lost, draft, cuts>>,
         job' = "vitals" => job = "vitals",
         main' = "boot" => main = "boot",
         job = "vitals" => job' = "vitals"
  PROVE  MotionInv'
BY DEF MotionInv, Counts, HandsEmpty, BootsAfterCut, MotionAccounted

LEMMA NextMotion == MotionInv /\ [Next]_vars => MotionInv'
<1> SUFFICES ASSUME MotionInv, [Next]_vars PROVE MotionInv'
  OBVIOUS
<1>1. CASE \/ BatteryDrops \/ \E p \in Peers, r \in Rssis : ScanReport(p, r)
           \/ Tick \/ UNCHANGED vars
  BY <1>1, OtherStep DEF BatteryDrops, ScanReport, Tick, vars, motionVars, mainVars, restVars
<1>2. CASE StateHandler \/ DrainEvent \/ FlushTable
  BY <1>2, OtherStep DEF StateHandler, DrainEvent, FlushTable, Handles, motionVars, mainVars,
                         restVars
<1>3. CASE StartScanning \/ StartAdvertising \/ PhaseStarted \/ WaitForDeadline \/ BrownoutShelves
  BY <1>3, OtherStep DEF StartScanning, StartAdvertising, PhaseStarted, WaitForDeadline,
                         BrownoutShelves, motionVars, mainVars, restVars
<1>4. CASE \/ MagnetCommits \/ MagnetStopsScan \/ MagnetNotesIdle \/ CountdownEnds
           \/ ShelfStopsTimers \/ ShelfStopsRadio
  BY <1>4, OtherStep DEF MagnetCommits, MagnetStopsScan, MagnetNotesIdle, CountdownEnds,
                         ShelfStopsTimers, ShelfStopsRadio, motionVars, restVars
<1> QED
  BY <1>1, <1>2, <1>3, <1>4, SessionsStep, MotionStep
     DEF Next, Interrupts, Handler, MainSteps, Shelving

\* Without a power cut every motion interrupt is in one row, waits for the next,
\* or was dropped with its row (accel_int_callback, vitals_work_handler).
THEOREM MotionStaysAccounted == Spec => []MotionAccounted
<1>1. MotionInv => MotionAccounted
  BY DEF MotionInv
<1> QED
  BY <1>1, InitMotion, NextMotion, PTL DEF Spec

-----------------------------------------------------------------------------
(* Lemmas on the operators. *)

\* The callbacks of timers that expire together submit each of their items.
LEMMA OrderHasAll ==
  ASSUME NEW S, IsFiniteSet(S), NEW seq \in SetToSeqs(S)
  PROVE  seq \in Seq(S) /\ \A x \in S : Contains(seq, x)
<1> DEFINE D == 1..Cardinality(S)
<1>1. Cardinality(S) \in Nat
  BY FS_CardinalityType
<1>2. seq \in [D -> S] /\ seq \in Injection(D, S)
  BY DEF SetToSeqs, Injection, IsInjective
<1>3. Cardinality(D) = Cardinality(S)
  BY <1>1, FS_Interval
<1>4. seq \in Surjection(D, S)
  BY <1>2, <1>3, FS_Injection
<1>5. seq \in Seq(S) /\ Len(seq) = Cardinality(S)
  BY <1>1, <1>2
<1>6. ASSUME NEW x \in S PROVE Contains(seq, x)
  <2>1. PICK i \in D : seq[i] = x
    BY <1>4 DEF Surjection
  <2> QED
    BY <1>5, <2>1 DEF Contains
<1> QED
  BY <1>5, <1>6

\* The queue keeps what is behind its head.
LEMMA TailContains ==
  ASSUME NEW w \in Seq(Items), w # <<>>, NEW x, Head(w) # x, Contains(w, x)
  PROVE  Contains(Tail(w), x)
<1>1. PICK i \in 1..Len(w) : w[i] = x
  BY DEF Contains
<1>2. i # 1 /\ Len(w) \in Nat
  BY <1>1
<1>3. i - 1 \in 1..Len(Tail(w)) /\ Tail(w)[i - 1] = x
  BY <1>1, <1>2
<1> QED
  BY <1>3 DEF Contains

LEMMA SubmittedContains ==
  ASSUME NEW w \in Seq(Items), NEW x \in Items
  PROVE  Submitted(w, x) \in Seq(Items) /\ Contains(Submitted(w, x), x)
<1>1. CASE Contains(w, x)
  BY <1>1 DEF Submitted
<1>2. CASE ~Contains(w, x)
  <2>1. Submitted(w, x) = Append(w, x)
    BY <1>2 DEF Submitted
  <2>2. /\ Append(w, x) \in Seq(Items) /\ Len(Append(w, x)) = Len(w) + 1
        /\ Append(w, x)[Len(w) + 1] = x /\ Len(w) \in Nat
    BY AppendProperties, LenProperties
  <2>3. Len(w) + 1 \in 1..Len(Append(w, x))
    BY <2>2
  <2> QED
    BY <2>1, <2>2, <2>3 DEF Contains
<1> QED
  BY <1>1, <1>2

\* The earliest deadline is one, if a mode is on.
LEMMA EarliestWait ==
  ASSUME settings \in Settings, adv_age \in Int, scan_age \in Int, Waits # {}
  PROVE  (CHOOSE w \in Waits : \A v \in Waits : w <= v) \in Int
<1>1. EffectiveScan \in Int
  <2>1. settings.scan \in Int /\ settings.multiplier \in Int
    BY ClockAssumption DEF Settings
  <2>2. settings.scan * settings.multiplier \in Int
    BY <2>1
  <2> QED
    BY <2>1, <2>2, ClockAssumption DEF EffectiveScan, Least
<1> DEFINE a == SecondsUntil(adv_age, settings.adv)
           b == SecondsUntil(scan_age, EffectiveScan)
<1>2. a \in Int
  BY ClockAssumption DEF SecondsUntil, Settings
<1>3. b \in Int
  BY <1>1 DEF SecondsUntil
<1>4. Waits \subseteq {a, b}
  BY DEF Waits
<1> HIDE DEF a, b
<1>5. \E w \in Waits : \A v \in Waits : w <= v
  <2>1. CASE a \in Waits /\ b \in Waits
    BY <1>2, <1>3, <1>4, <2>1
  <2>2. CASE Waits = {a} \/ Waits = {b}
    BY <1>2, <1>3, <2>2
  <2> QED
    BY <1>4, <2>1, <2>2
<1> QED
  BY <1>2, <1>3, <1>4, <1>5

-----------------------------------------------------------------------------
(* What is on is timed. *)

Clocks ==
  /\ settings \in Settings /\ adv_age \in Int /\ scan_age \in Int
  /\ timer \in [Timers -> Int] /\ timer["state"] # 0
  /\ InSession => work \in Seq(Items)

\* The phase a handler has started counts before it is recorded.
Phase == IF job \in {"scanning", "advertising"} THEN job ELSE ble_state

\* While production runs the controller does what the firmware believes, and
\* between the phases nothing.
RadioKnown ==
  InSession =>
    radio = IF job \in {"drain", "choose", "advertise", "wait"} THEN {}
            ELSE IF Phase = "scanning" THEN {"scan"}
            ELSE IF Phase = "advertising" THEN {"adv"} ELSE {}

\* A handler that chooses has ended the last phase.
Choosing == InSession /\ job \in {"choose", "advertise", "wait"} => ble_state = "idle"

\* Nothing is on before production starts.
Silent == main \in {"off", "boot"} => radio = {} /\ ble_state = "idle" /\ job = "idle"

Timed ==
  InSession /\ radio # {} =>
    timer["state"] # Off \/ Contains(work, "state") \/ job \in {"scanning", "advertising"}

TimeInv == Clocks /\ RadioKnown /\ Choosing /\ Silent /\ Timed

LEMMA TimedOne == TimeInv => RadioIsTimed
<1> SUFFICES ASSUME TimeInv, InSession, radio # {}
             PROVE  /\ Cardinality(radio) = 1
                    /\ \/ timer["state"] # Off \/ Contains(work, "state")
                       \/ job \in {"choose", "scanning", "advertising"}
  BY DEF RadioIsTimed, InSession
<1>1. radio = {"scan"} \/ radio = {"adv"}
  BY DEF TimeInv, RadioKnown
<1>2. Cardinality(radio) = 1
  BY <1>1, FS_Singleton
<1> QED
  BY <1>2 DEF TimeInv, Timed

LEMMA InitTime == Init => TimeInv
BY ClockAssumption DEF Init, TimeInv, Clocks, RadioKnown, Choosing, Silent, Timed, InSession, Phase,
     LongAgo, Off, Timers, Items

LEMMA SessionsTime ==
  ASSUME TimeInv, Activate \/ PowerCut \/ RecoveryFlush \/ PowerOff
  PROVE  TimeInv'
<1> USE DEF TimeInv, Clocks, RadioKnown, Choosing, Silent, Timed, InSession, Phase
<1>1. CASE PowerCut \/ PowerOff
  <2>1. /\ main' \in {"off", "boot"} /\ radio' = {} /\ ble_state' = "idle" /\ job' = "idle"
        /\ adv_age' = LongAgo /\ scan_age' = LongAgo /\ settings' = settings
        /\ timer' = [t \in Timers |-> Off]
    BY <1>1 DEF PowerCut, PowerOff, Halts, SessionOver
  <2> QED
    BY <2>1, ClockAssumption DEF LongAgo, Off, Timers, Items
<1>2. CASE Activate \/ RecoveryFlush
  <2>1. /\ main \in {"off", "boot"} /\ main' = "loop" /\ work' = <<"state">>
        /\ UNCHANGED <<adv_age, scan_age, job, ble_state, radio>>
        /\ timer' = [t \in Timers |-> Period(t)']
    BY <1>2 DEF Activate, RecoveryFlush, StartsProduction
  <2>2. settings' \in Settings
    BY <1>2, ClockAssumption DEF Activate, RecoveryFlush, restVars
  <2>3. timer' \in [Timers -> Int] /\ timer'["state"] # 0
    BY <2>1, <2>2, ClockAssumption DEF Period, Settings, Off, Timers, Items
  <2>4. work' \in Seq(Items)
    BY <2>1 DEF Items
  <2> QED
    BY <2>1, <2>2, <2>3, <2>4
<1> QED
  BY <1>1, <1>2

LEMMA TickTime ==
  ASSUME TimeInv, Tick
  PROVE  TimeInv'
<1> DEFINE left == [t \in Timers |-> IF timer[t] = Off THEN Off ELSE timer[t] - 1]
           due  == {t \in Timers \ {"main"} : left[t] = 0}
<1>1. /\ timer' = [t \in Timers |-> IF t \in due THEN Period(t) ELSE left[t]]
      /\ work' \in SetToSeqs(due) /\ work = <<>> /\ job = "idle"
      /\ adv_age' = Least(adv_age + 1, LongAgo) /\ scan_age' = Least(scan_age + 1, LongAgo)
      /\ UNCHANGED <<job, ble_state, radio, main, ending, settings>>
  BY DEF Tick, mainVars, restVars
<1>2. "state" \in Timers /\ due \subseteq Items
  BY DEF Timers, Items
<1>3. IsFiniteSet(due)
  <2>1. IsFiniteSet(Items)
    <3>1. IsFiniteSet({"state"})
      BY FS_Singleton
    <3>2. IsFiniteSet({"state"} \cup {"vitals"})
      BY <3>1, FS_AddElement
    <3>3. IsFiniteSet(({"state"} \cup {"vitals"}) \cup {"checkpoint"})
      BY <3>2, FS_AddElement
    <3>4. ({"state"} \cup {"vitals"}) \cup {"checkpoint"} = Items
      BY DEF Items
    <3> QED
      BY <3>3, <3>4
  <2> QED
    BY <1>2, <2>1, FS_Subset
<1>4. work' \in Seq(due) /\ \A x \in due : Contains(work', x)
  BY <1>1, <1>3, OrderHasAll
<1>5. left \in [Timers -> Int]
  BY DEF TimeInv, Clocks, Off
<1>6. timer' \in [Timers -> Int]
  <2>1. \A t \in Timers : Period(t) \in Int
    BY ClockAssumption DEF TimeInv, Clocks, Period, Settings, Off
  <2> QED
    BY <1>1, <1>5, <2>1
<1>7. timer'["state"] # 0 /\ (timer["state"] # Off => timer'["state"] # Off \/ "state" \in due)
  <2>1. timer["state"] \in Int /\ timer["state"] # 0
    BY <1>2 DEF TimeInv, Clocks
  <2>2. left["state"] # 0 => "state" \notin due
    OBVIOUS
  <2>3. left["state"] = 0 => "state" \in due
    BY DEF Timers, Items
  <2>4. left["state"] = IF timer["state"] = Off THEN Off ELSE timer["state"] - 1
    BY <1>2
  <2>5. timer'["state"] = IF "state" \in due THEN Off ELSE left["state"]
    BY <1>1, <1>2 DEF Period
  <2> QED
    BY <2>1, <2>2, <2>3, <2>4, <2>5 DEF Off
<1>8. work' \in Seq(Items)
  BY <1>2, <1>4, SeqMonotonic
<1>9. adv_age' \in Int /\ scan_age' \in Int
  BY <1>1, ClockAssumption DEF TimeInv, Clocks, Least, LongAgo
<1>10. ~Contains(work, "state")
  BY <1>1 DEF Contains
<1> HIDE DEF left, due
<1> QED
  BY <1>1, <1>4, <1>6, <1>7, <1>8, <1>9, <1>10
  DEF TimeInv, Clocks, RadioKnown, Choosing, Silent, Timed, InSession, Phase

LEMMA HandlersTime ==
  ASSUME TimeInv, StateHandler \/ FlushTable \/ StartScanning \/ StartAdvertising
                  \/ PhaseStarted \/ WaitForDeadline
  PROVE  TimeInv'
<1> USE DEF TimeInv, Clocks, RadioKnown, Choosing, Silent, Timed, InSession, Phase
<1>1. CASE StateHandler
  <2>1. work # <<>> /\ work' = Tail(work) /\ main \notin {"off", "boot"}
    BY <1>1 DEF StateHandler, Handles, Running
  <2>2. InSession => work' \in Seq(Items)
    BY <2>1, HeadTailProperties
  <2>3. UNCHANGED <<settings, adv_age, scan_age, timer, main, ending>> /\ job = "idle"
    BY <1>1 DEF StateHandler, Handles, timeVars, mainVars, restVars
  <2>4. \/ /\ ble_state = "advertising" /\ radio' = radio \ {"adv"}
           /\ ble_state' = "idle" /\ job' = "choose"
        \/ /\ ble_state = "scanning" /\ radio' = radio \ {"scan"}
           /\ job' = "drain" /\ ble_state' = ble_state
        \/ /\ ble_state = "idle" /\ job' = "choose" /\ UNCHANGED <<radio, ble_state>>
    BY <1>1 DEF StateHandler
  <2>5. InSession' => radio' = {}
    BY <2>3, <2>4
  <2> QED
    BY <2>1, <2>2, <2>3, <2>4, <2>5
<1>2. CASE FlushTable
  BY <1>2 DEF FlushTable, mainVars, restVars
<1>3. CASE StartScanning
  BY <1>3 DEF StartScanning, timeVars, mainVars
<1>4. CASE StartAdvertising
  BY <1>4 DEF StartAdvertising, timeVars, mainVars
<1>5. CASE PhaseStarted
  BY <1>5 DEF PhaseStarted, mainVars, restVars, Burst, Off, Timers, Items
<1>6. CASE WaitForDeadline
  <2>1. PICK jitter \in 0..1 :
          LET delay == IF Waits = {} THEN Off
                       ELSE (CHOOSE w \in Waits : \A v \in Waits : w <= v) + jitter
          IN  /\ timer' = [timer EXCEPT !["state"] = IF delay = 0 THEN Off ELSE delay]
              /\ work' = IF delay = 0 THEN Submitted(work, "state") ELSE work
    BY <1>6 DEF WaitForDeadline
  <2> DEFINE delay == IF Waits = {} THEN Off
                      ELSE (CHOOSE w \in Waits : \A v \in Waits : w <= v) + jitter
  <2>2. delay \in Int
    BY EarliestWait DEF Off
  <2>3. /\ timer' = [timer EXCEPT !["state"] = IF delay = 0 THEN Off ELSE delay]
        /\ work' = IF delay = 0 THEN Submitted(work, "state") ELSE work
    BY <2>1
  <2> HIDE DEF delay
  <2>4. timer' \in [Timers -> Int] /\ timer'["state"] # 0
    BY <2>2, <2>3 DEF Off, Timers, Items
  <2>5. InSession => work' \in Seq(Items)
    BY <2>3, SubmittedContains DEF Items
  <2>6. /\ UNCHANGED <<adv_age, scan_age, settings, ble_state, radio, main, ending>>
        /\ job \in {"choose", "advertise", "wait"} /\ job' = "idle"
    BY <1>6 DEF WaitForDeadline, timeVars, mainVars, restVars
  <2> QED
    BY <2>4, <2>5, <2>6
<1> QED
  BY <1>1, <1>2, <1>3, <1>4, <1>5, <1>6

LEMMA WorkTime ==
  ASSUME TimeInv, TakeMotion \/ Checkpoint
  PROVE  TimeInv'
<1> USE DEF TimeInv, Clocks, RadioKnown, Choosing, Silent, Timed, InSession, Phase
<1>1. work # <<>> /\ Head(work) # "state" /\ job = "idle" /\ main \notin {"off", "boot"}
  BY DEF TakeMotion, Checkpoint, Handles, Running
<1>2. /\ UNCHANGED <<adv_age, scan_age, timer, settings, ble_state, radio, main, ending>>
      /\ job' \in {"idle", "vitals"}
  BY <1>1 DEF TakeMotion, Checkpoint, timeVars, mainVars, restVars
<1>3. InSession => Tail(work) \in Seq(Items)
  BY <1>1, HeadTailProperties
<1>4. InSession => work' \in Seq(Items)
  BY <1>3, SubmittedContains DEF TakeMotion, Checkpoint, Items
<1>5. InSession /\ Contains(work, "state") => Contains(work', "state")
  <2>1. InSession /\ Contains(work, "state") => Contains(Tail(work), "state")
    BY <1>1, TailContains
  <2> QED
    BY <1>3, <2>1, SubmittedContains DEF TakeMotion, Checkpoint, Items
<1> QED
  BY <1>1, <1>2, <1>4, <1>5

\* Whatever leaves the clocks, the queue and the radio alone, or happens once the
\* magnet has committed or the battery has ended the session.
LEMMA OthersTime ==
  ASSUME TimeInv,
         UNCHANGED <<settings, adv_age, scan_age>>,
         timer' \in [Timers -> Int], timer'["state"] # 0,
         main' \in {"off", "boot"} => main' = main /\ UNCHANGED <<radio, ble_state, job>>,
         InSession' => /\ UNCHANGED <<timer, work, radio, ble_state, main, ending>>
                       /\ job' = job \/ {job, job'} \subseteq {"idle", "vitals", "brownout"}
  PROVE  TimeInv'
BY DEF TimeInv, Clocks, RadioKnown, Choosing, Silent, Timed, InSession, Phase

LEMMA NextTime == TimeInv /\ [Next]_vars => TimeInv'
<1> SUFFICES ASSUME TimeInv, [Next]_vars PROVE TimeInv'
  OBVIOUS
<1>0. timer \in [Timers -> Int] /\ timer["state"] # 0
  BY DEF TimeInv, Clocks
<1>1. CASE BatteryDrops \/ MotionInterrupt \/ (\E p \in Peers, r \in Rssis : ScanReport(p, r))
           \/ DrainEvent \/ UNCHANGED vars
  BY <1>0, <1>1, OthersTime DEF BatteryDrops, MotionInterrupt, ScanReport, DrainEvent, vars,
     timeVars, mainVars, restVars
<1>2. CASE SkipRow \/ WriteRow \/ BrownoutShelves
  <2>1. /\ UNCHANGED <<settings, adv_age, scan_age, timer, work, radio, ble_state, main>>
        /\ InSession' => ending' = ending
        /\ job \in {"vitals", "brownout"}
        /\ InSession' => job' \in {"idle", "brownout"}
    BY <1>2 DEF SkipRow, WriteRow, BrownoutShelves, InSession, timeVars, mainVars, restVars
  <2>2. main \notin {"off", "boot"}
    BY <2>1 DEF TimeInv, Silent
  <2>3. /\ main' \in {"off", "boot"} => main' = main /\ UNCHANGED <<radio, ble_state, job>>
        /\ timer' = timer
        /\ InSession' => /\ UNCHANGED <<timer, work, radio, ble_state, main, ending>>
                         /\ {job, job'} \subseteq {"idle", "vitals", "brownout"}
    BY <2>1, <2>2
  <2> QED
    BY <1>0, <2>1, <2>3, OthersTime
<1>3. CASE MagnetCommits \/ MagnetStopsScan \/ MagnetNotesIdle \/ CountdownEnds
  <2>1. /\ UNCHANGED <<settings, adv_age, scan_age>>
        /\ main' \in {"stopping", "noting", "countdown", "shelf"}
        /\ timer' = timer \/ (\E n \in Int : timer' = [timer EXCEPT !["main"] = n])
    BY <1>3, ClockAssumption DEF MagnetCommits, MagnetStopsScan, MagnetNotesIdle,
       CountdownEnds, timeVars, restVars, Off
  <2>2. timer' \in [Timers -> Int] /\ timer'["state"] # 0
    BY <1>0, <2>1 DEF Timers, Items
  <2> QED
    BY <2>1, <2>2, OthersTime DEF InSession
<1>4. CASE ShelfStopsTimers \/ ShelfStopsRadio
  <2>1. /\ UNCHANGED <<settings, adv_age, scan_age, main>>
        /\ main \notin {"off", "boot"} /\ ending' # "no"
        /\ \/ timer' = timer
           \/ timer' = [timer EXCEPT !["state"] = Off, !["vitals"] = Off]
    BY <1>4 DEF ShelfStopsTimers, ShelfStopsRadio, Running, timeVars, restVars
  <2>2. timer' \in [Timers -> Int] /\ timer'["state"] # 0
    BY <1>0, <2>1 DEF Timers, Items, Off
  <2> QED
    BY <2>1, <2>2, OthersTime DEF InSession
<1> QED
  BY <1>1, <1>2, <1>3, <1>4, SessionsTime, TickTime, HandlersTime, WorkTime
     DEF Next, Interrupts, Handler, MainSteps, Shelving

\* RadioIsTimed: whatever order ticks, rows, checkpoints and the magnet's stops come
\* in, receiver and transmitter are never on together, and what is on has its timer
\* armed, its work item queued or its handler under way.
THEOREM RadioStaysTimed == Spec => []RadioIsTimed
<1> QED
  BY TimedOne, InitTime, NextTime, PTL DEF Spec

-----------------------------------------------------------------------------
(* What a burst reports. *)

\* A queue of events and a table that has room for all of them.
Room ==
  /\ IsFiniteSet(DOMAIN scan_table)
  /\ Cardinality(DOMAIN scan_table) + Len(scan_event_q) <= QueueSize
  /\ job # "drain" => DOMAIN scan_table = {}

Queued(e) == \E i \in 1..Len(scan_event_q) : scan_event_q[i] = e

\* What was heard is still queued or no stronger than the table has it, and the
\* table has nothing that was not heard.
Covered ==
  /\ scan_event_q \in Seq(heard) /\ heard \subseteq Events
  /\ \A e \in heard :
       Queued(e) \/ (e.peer \in DOMAIN scan_table /\ e.rssi <= scan_table[e.peer])
  /\ \A p \in DOMAIN scan_table : [peer |-> p, rssi |-> scan_table[p]] \in heard

ScanInv == Room /\ Covered

LEMMA ScanReports == ScanInv => BurstReportsBest
<1> SUFFICES ASSUME Covered, scan_event_q = <<>>
             PROVE  /\ DOMAIN scan_table = {e.peer : e \in heard}
                    /\ \A e \in heard : e.rssi <= scan_table[e.peer]
                    /\ \A p \in DOMAIN scan_table :
                         [peer |-> p, rssi |-> scan_table[p]] \in heard
  BY DEF ScanInv, BurstReportsBest
<1>1. \A e \in heard : e.peer \in DOMAIN scan_table /\ e.rssi <= scan_table[e.peer]
  BY DEF Covered, Queued
<1>2. \A p \in DOMAIN scan_table : [peer |-> p, rssi |-> scan_table[p]] \in heard
  BY DEF Covered
<1>3. \A p \in DOMAIN scan_table : \E e \in heard : e.peer = p
  BY <1>2
<1> QED
  BY <1>1, <1>2, <1>3

\* No event, no table.
LEMMA EmptyScan ==
  ASSUME scan_event_q' = <<>>, scan_table' = <<>>, heard' = {}
  PROVE  ScanInv'
<1>1. DOMAIN scan_table' = {} /\ IsFiniteSet({}) /\ Cardinality({}) = 0
  BY FS_EmptySet
<1> QED
  BY <1>1, ScanAssumption DEF ScanInv, Room, Covered, Queued

LEMMA InitScan == Init => ScanInv
<1> SUFFICES ASSUME Init PROVE ScanInv
  OBVIOUS
<1>1. scan_event_q = <<>> /\ DOMAIN scan_table = {} /\ heard = {}
  BY DEF Init
<1>2. IsFiniteSet({}) /\ Cardinality({}) = 0
  BY FS_EmptySet
<1> QED
  BY <1>1, <1>2, ScanAssumption DEF ScanInv, Room, Covered, Queued

\* scan_cb queues an event of a device while the receiver is on; no event is
\* processed meanwhile.
LEMMA ReportScan ==
  ASSUME TimeInv, ScanInv, NEW p \in Peers, NEW r \in Rssis, ScanReport(p, r)
  PROVE  ScanInv'
<1> DEFINE evt == [peer |-> p, rssi |-> r]
<1>1. /\ scan_event_q' = Append(scan_event_q, evt) /\ heard' = heard \cup {evt}
      /\ UNCHANGED <<scan_table, job>> /\ Len(scan_event_q) < QueueSize
      /\ InSession /\ "scan" \in radio
  BY DEF ScanReport
<1>2. job # "drain"
  BY <1>1 DEF TimeInv, RadioKnown
<1>3. evt \in Events
  BY DEF Events
<1> HIDE DEF evt
<1>4. DOMAIN scan_table = {} /\ Cardinality(DOMAIN scan_table) = 0
  BY <1>2, FS_EmptySet DEF ScanInv, Room
<1>5. scan_event_q \in Seq(heard') /\ heard' \subseteq Events /\ evt \in heard'
  BY <1>1, <1>3, SeqMonotonic DEF ScanInv, Covered
<1>6. /\ scan_event_q' \in Seq(heard') /\ Len(scan_event_q') = Len(scan_event_q) + 1
      /\ Len(scan_event_q) \in Nat
      /\ \A i \in 1..Len(scan_event_q) : scan_event_q'[i] = scan_event_q[i]
      /\ scan_event_q'[Len(scan_event_q) + 1] = evt
  BY <1>1, <1>5, AppendProperties, LenProperties
<1>7. Room'
  BY <1>1, <1>4, <1>6, ScanAssumption DEF ScanInv, Room
<1>8. \A e \in heard' : Queued(e)'
  <2> SUFFICES ASSUME NEW e \in heard' PROVE Queued(e)'
    OBVIOUS
  <2>1. CASE e = evt
    BY <1>6, <2>1 DEF Queued
  <2>2. CASE e # evt
    <3>1. Queued(e)
      BY <1>1, <1>4, <2>2 DEF ScanInv, Covered
    <3> QED
      BY <1>6, <3>1 DEF Queued
  <2> QED
    BY <2>1, <2>2
<1> QED
  BY <1>1, <1>4, <1>5, <1>6, <1>7, <1>8 DEF ScanInv, Covered

\* process_scan_events finds room for the event it takes.
LEMMA DrainScan ==
  ASSUME ScanInv, DrainEvent
  PROVE  ScanInv'
<1> DEFINE q == scan_event_q
           evt == Head(q)
<1>1. /\ q # <<>> /\ scan_event_q' = Tail(q) /\ UNCHANGED <<heard, job>> /\ job = "drain"
  BY DEF DrainEvent
<1>2. q \in Seq(heard) /\ Len(q) \in Nat /\ Len(q) # 0
  BY <1>1 DEF ScanInv, Covered
<1>3. /\ evt \in heard /\ Tail(q) \in Seq(heard) /\ Len(Tail(q)) = Len(q) - 1
      /\ \A i \in 1..Len(Tail(q)) : Tail(q)[i] = q[i + 1]
      /\ evt = q[1]
  BY <1>1, <1>2, HeadTailProperties
<1>4. evt.rssi \in Int /\ \A p \in DOMAIN scan_table : scan_table[p] \in Int
  <2>1. \A e \in heard : e.rssi \in Int
    BY ScanAssumption DEF ScanInv, Covered, Events
  <2>2. \A p \in DOMAIN scan_table : [peer |-> p, rssi |-> scan_table[p]].rssi \in Int
    BY <2>1 DEF ScanInv, Covered
  <2> QED
    BY <1>3, <2>1, <2>2
<1>5. Cardinality(DOMAIN scan_table) \in Nat
  BY FS_CardinalityType DEF ScanInv, Room
<1>6. Cardinality(DOMAIN scan_table) < TableSize
  BY <1>2, <1>5, ScanAssumption DEF ScanInv, Room
<1>7. \/ evt.peer \in DOMAIN scan_table /\ evt.rssi <= scan_table[evt.peer]
         /\ scan_table' = scan_table
      \/ (evt.peer \in DOMAIN scan_table => ~(evt.rssi <= scan_table[evt.peer]))
         /\ scan_table' = [p \in DOMAIN scan_table \cup {evt.peer} |->
                             IF p = evt.peer THEN evt.rssi ELSE scan_table[p]]
  BY <1>6 DEF DrainEvent
<1>8. Room'
  <2> DEFINE D == DOMAIN scan_table  x == evt.peer
  <2>0. IsFiniteSet(D) /\ Cardinality(D) \in Nat
    BY <1>5 DEF ScanInv, Room
  <2> HIDE DEF D, x
  <2>1. IsFiniteSet(D \cup {x}) /\ Cardinality(D \cup {x}) <= Cardinality(D) + 1
    BY <2>0, FS_AddElement
  <2> USE DEF D, x
  <2>2. DOMAIN scan_table' = DOMAIN scan_table \cup {evt.peer} \/ scan_table' = scan_table
    BY <1>7
  <2>3. /\ IsFiniteSet(DOMAIN scan_table')
        /\ Cardinality(DOMAIN scan_table') <= Cardinality(DOMAIN scan_table) + 1
        /\ Cardinality(DOMAIN scan_table') \in Nat
    BY <1>5, <2>1, <2>2, FS_CardinalityType DEF ScanInv, Room
  <2> QED
    BY <1>1, <1>2, <1>3, <1>5, <2>3, ScanAssumption DEF ScanInv, Room
<1>9. \A e \in heard : Queued(e) => Queued(e)' \/ e = evt
  <2> SUFFICES ASSUME NEW i \in 1..Len(q), q[i] # evt
               PROVE  \E j \in 1..Len(Tail(q)) : Tail(q)[j] = q[i]
    BY <1>1 DEF Queued
  <2>1. i - 1 \in 1..Len(Tail(q)) /\ Tail(q)[i - 1] = q[i]
    BY <1>2, <1>3
  <2> QED
    BY <2>1
<1> HIDE DEF q, evt
<1>10. \A e \in heard :
         Queued(e)' \/ (e.peer \in DOMAIN scan_table' /\ e.rssi <= scan_table'[e.peer])
  <2> SUFFICES ASSUME NEW e \in heard, ~Queued(e)'
               PROVE  e.peer \in DOMAIN scan_table' /\ e.rssi <= scan_table'[e.peer]
    OBVIOUS
  <2>1. e = evt \/ (e.peer \in DOMAIN scan_table /\ e.rssi <= scan_table[e.peer])
    BY <1>9 DEF ScanInv, Covered
  <2>2. e.rssi \in Int
    BY ScanAssumption DEF ScanInv, Covered, Events
  <2> QED
    BY <1>4, <1>7, <2>1, <2>2
<1>11. ASSUME NEW p, p \in DOMAIN scan_table'
       PROVE  [peer |-> p, rssi |-> scan_table'[p]] \in heard
  <2>1. CASE p \in DOMAIN scan_table /\ scan_table'[p] = scan_table[p]
    BY <2>1 DEF ScanInv, Covered
  <2>2. CASE p = evt.peer /\ scan_table'[p] = evt.rssi
    <3>1. evt = [peer |-> evt.peer, rssi |-> evt.rssi]
      BY <1>3 DEF ScanInv, Covered, Events
    <3> QED
      BY <1>3, <2>2, <3>1
  <2> QED
    BY <1>7, <1>11, <2>1, <2>2
<1> QED
  BY <1>1, <1>3, <1>8, <1>10, <1>11 DEF ScanInv, Covered, q

\* The rest leaves queue and table alone.
LEMMA OthersScan ==
  ASSUME ScanInv, UNCHANGED scanVars, job' # "drain" => job # "drain"
  PROVE  ScanInv'
BY DEF ScanInv, Room, Covered, Queued, scanVars

LEMMA NextScan == TimeInv /\ ScanInv /\ [Next]_vars => ScanInv'
<1> SUFFICES ASSUME TimeInv, ScanInv, [Next]_vars PROVE ScanInv'
  OBVIOUS
<1>1. CASE PowerCut \/ PowerOff
  BY <1>1, EmptyScan DEF PowerCut, PowerOff, Halts
<1>2. CASE FlushTable
  BY <1>2, EmptyScan DEF FlushTable
<1>3. CASE Activate \/ RecoveryFlush \/ BatteryDrops \/ MotionInterrupt \/ Tick \/ UNCHANGED vars
  BY <1>3, OthersScan DEF Activate, RecoveryFlush, StartsProduction, BatteryDrops,
                          MotionInterrupt, Tick, vars
<1>4. CASE StateHandler \/ StartScanning \/ StartAdvertising \/ PhaseStarted \/ WaitForDeadline
  BY <1>4, OthersScan DEF StateHandler, Handles, StartScanning, StartAdvertising,
                          PhaseStarted, WaitForDeadline
<1>5. CASE TakeMotion \/ SkipRow \/ WriteRow \/ BrownoutShelves \/ Checkpoint
  BY <1>5, OthersScan DEF TakeMotion, Handles, SkipRow, WriteRow, BrownoutShelves, Checkpoint
<1>6. CASE \/ MagnetCommits \/ MagnetStopsScan \/ MagnetNotesIdle \/ CountdownEnds
           \/ ShelfStopsTimers \/ ShelfStopsRadio
  BY <1>6, OthersScan DEF MagnetCommits, MagnetStopsScan, MagnetNotesIdle, CountdownEnds,
                          ShelfStopsTimers, ShelfStopsRadio
<1> QED
  BY <1>1, <1>2, <1>3, <1>4, <1>5, <1>6, ReportScan, DrainScan
     DEF Next, Interrupts, Handler, MainSteps, Shelving

\* BurstReportsBest: whatever events come in whatever order, the JXB rows of a burst
\* are the devices that were heard, once each, as strong as they were heard best: the
\* table never overflows, because it is as large as the queue.
THEOREM BurstsReportBest == Spec => []BurstReportsBest
<1> QED
  BY ScanReports, InitTime, NextTime, InitScan, NextScan, PTL DEF Spec

=============================================================================
