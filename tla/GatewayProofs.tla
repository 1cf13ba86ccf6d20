--------------------------- MODULE GatewayProofs ---------------------------
(***************************************************************************)
(* For any limits, stored record, messages, lives and failures: what a     *)
(* gateway was told is saved is in force, at once and at every later boot; *)
(* the rows of a boot are in order, dated or not, but for the second boot  *)
(* row of a boot that resumes; and the witness of a supply sag is logged   *)
(* by the boot that owes it, and by no other.                              *)
(***************************************************************************)
EXTENDS Gateway, SequenceTheorems, TLAPS

-----------------------------------------------------------------------------
(* sanitize_settings. *)

\* A motion switched off carries the mark that tells it from old zeros.
Marked(s) == s.motion = 0 => s.reserved # 0

\* Within every limit, the subject id apart.
InLimits(s) ==
  /\ s.adv <= MaxInterval /\ s.scan <= MaxInterval /\ s.vitals # 0
  /\ s.multiplier \in 1..MaxMultiplier /\ s.motion \in {0, 1} /\ Marked(s)

Named(s) == [s EXCEPT !.subject = IF @ = Empty THEN OwnId ELSE @]

LEMMA SanitizedIsSane ==
  ASSUME NEW s \in Settings
  PROVE  /\ Sanitized(s) \in Settings /\ Sane(Sanitized(s)) /\ InLimits(Sanitized(s))
<1> DEFINE t == Sanitized(s)
<1>1. /\ t.subject = IF s.subject = Empty THEN OwnId ELSE s.subject
      /\ t.adv = Least(s.adv, MaxInterval) /\ t.scan = Least(s.scan, MaxInterval)
      /\ t.vitals = IF s.vitals = 0 THEN DefaultVitals ELSE s.vitals
      /\ t.multiplier = IF s.multiplier = 0 THEN DefaultMultiplier
                        ELSE Least(s.multiplier, MaxMultiplier)
      /\ t.motion = IF s.motion = 0 /\ s.reserved # 0 THEN 0 ELSE 1
      /\ t.reserved = s.reserved
  BY DEF Sanitized, Settings
<1> HIDE DEF t
<1>2. t.subject \in Names /\ t.subject # Empty
  BY <1>1, FieldAssumption DEF Settings, Empty, OwnId
<1>3. t.adv \in UInt16 /\ t.scan \in UInt16 /\ t.adv <= MaxInterval /\ t.scan <= MaxInterval
  BY <1>1, FieldAssumption DEF Settings, UInt16, Least
<1>4. t.vitals \in UInt16 /\ t.vitals # 0
  BY <1>1, FieldAssumption DEF Settings, UInt16, DefaultVitals
<1>5. t.multiplier \in Bytes /\ t.multiplier \in 1..MaxMultiplier
  <2>1. s.multiplier \in 0..255 /\ MaxMultiplier \in 1..255
    BY FieldAssumption DEF Settings, Bytes
  <2>2. t.multiplier = IF s.multiplier = 0 THEN 1
                       ELSE IF s.multiplier < MaxMultiplier THEN s.multiplier
                       ELSE MaxMultiplier
    BY <1>1, <2>1 DEF Least, DefaultMultiplier
  <2> QED
    BY <2>1, <2>2 DEF Bytes
<1>6. t.motion \in Bytes /\ t.motion \in {0, 1} /\ Marked(t) /\ t.reserved \in Bytes
  BY <1>1 DEF Settings, Bytes, Marked
<1>7. t \in Settings
  BY <1>2, <1>3, <1>4, <1>5, <1>6 DEF Sanitized, Settings, t
<1> QED
  BY <1>2, <1>3, <1>4, <1>5, <1>6, <1>7 DEF Sane, InLimits, t

LEMMA SanitizedKeeps ==
  ASSUME NEW s \in Settings, InLimits(s)
  PROVE  Sanitized(s) = Named(s)
<1>1. Least(s.adv, MaxInterval) = s.adv /\ Least(s.scan, MaxInterval) = s.scan
  BY FieldAssumption DEF InLimits, Settings, UInt16, Least
<1>2. s.multiplier # 0 /\ Least(s.multiplier, MaxMultiplier) = s.multiplier
  BY FieldAssumption DEF InLimits, Settings, Bytes, Least
<1>3. (IF s.motion = 0 /\ s.reserved # 0 THEN 0 ELSE 1) = s.motion
  BY DEF InLimits, Marked
<1> QED
  BY <1>1, <1>2, <1>3 DEF Sanitized, Named, InLimits, Settings

LEMMA SanitizedTwice ==
  ASSUME NEW s \in Settings
  PROVE  Sanitized(Sanitized(s)) = Sanitized(s)
<1> DEFINE t == Sanitized(s)
<1>1. t \in Settings /\ Sane(t) /\ InLimits(t)
  BY SanitizedIsSane
<1> HIDE DEF t
<1>2. Sanitized(t) = Named(t)
  BY <1>1, SanitizedKeeps
<1>3. Named(t) = t
  BY <1>1 DEF Named, Sane, Settings
<1> QED
  BY <1>2, <1>3 DEF t

LEMMA DefaultsInLimits == Defaults \in Settings /\ InLimits(Defaults)
BY FieldAssumption DEF Defaults, Settings, InLimits, Marked, UInt16, Bytes, DefaultAdv,
                       DefaultScan, DefaultVitals, DefaultMultiplier

\* apply_gateway_command keeps the limits, whatever the gateway asks for.
LEMMA AppliedInLimits ==
  ASSUME NEW s \in Settings, InLimits(s), NEW c \in Command
  PROVE  Applied(s, c) \in Settings /\ InLimits(Applied(s, c))
<1> DEFINE t == Applied(s, c)
<1>1. t.subject \in Names
  BY DEF Applied, Settings, Command
<1>2. t.adv \in UInt16 /\ t.scan \in UInt16 /\ t.adv <= MaxInterval /\ t.scan <= MaxInterval
  BY FieldAssumption DEF Applied, Settings, InLimits, Interval, UInt16, Least
<1>3. t.vitals \in UInt16 /\ t.vitals # 0
  BY FieldAssumption DEF Applied, Settings, InLimits, UInt16
<1>4. t.multiplier \in Bytes /\ t.multiplier \in 1..MaxMultiplier
  <2>1. CASE c.multiplier = Absent
    BY <2>1 DEF Applied, Settings, InLimits
  <2>2. CASE c.multiplier # Absent
    <3>1. c.multiplier \in Nat
      BY <2>2 DEF Command
    <3> QED
      BY <2>2, <3>1, FieldAssumption DEF Applied, Least, DefaultMultiplier, Bytes
  <2> QED
    BY <2>1, <2>2
<1>5. t.motion \in Bytes /\ t.motion \in {0, 1} /\ t.reserved \in Bytes /\ Marked(t)
  BY DEF Applied, Settings, InLimits, Marked, Command, Bytes, Absent
<1> QED
  BY <1>1, <1>2, <1>3, <1>4, <1>5 DEF Applied, Settings, InLimits

-----------------------------------------------------------------------------
(* The invariant. *)

Loaded == up \in {"loaded", "ready", "gate", "production"}

Types ==
  /\ stored \in Settings \cup {None, Odd} /\ current \in Settings
  /\ command \in Command \cup {None}

\* A record that can be read would be loaded as it was acknowledged.
StoredAsAcked == Readable => acked = Sanitized(stored)

\* Past juxta_settings_init the copy is what was acknowledged, and there is a record.
CopyInForce ==
  Loaded => current = acked /\ Sane(current) /\ InLimits(current) /\ Readable

\* A command is in hand only during a connection, and those come at the gate.
AtTheGate == (command # None => ble_connected) /\ (ble_connected => up = "gate")

Inv == Types /\ StoredAsAcked /\ CopyInForce /\ AtTheGate

LEMMA UpdateKeeps ==
  ASSUME NEW s \in Settings, InLimits(s), Types, StoredAsAcked, Update(s)
  PROVE  \/ /\ stored' \in Settings /\ current' \in Settings /\ acked' = current'
            /\ Sane(current') /\ InLimits(current') /\ Readable' /\ StoredAsAcked'
         \/ UNCHANGED setVars
<1>1. CASE UNCHANGED setVars
  BY <1>1
<1>2. CASE stored' = Sanitized(s) /\ current' = Sanitized(s) /\ acked' = Named(s)
  <2>1. current' = acked'
    BY <1>2, SanitizedKeeps
  <2>2. current' \in Settings /\ Sane(current') /\ InLimits(current')
    BY <1>2, SanitizedIsSane
  <2>3. Readable'
    BY <1>2, <2>2, FieldAssumption DEF Readable
  <2>4. acked' = Sanitized(stored')
    BY <1>2, <2>1, SanitizedTwice
  <2> QED
    BY <1>2, <2>1, <2>2, <2>3, <2>4 DEF StoredAsAcked
<1> QED
  BY <1>1, <1>2 DEF Update, Named

LEMMA InitInv == Init => Inv
<1> SUFFICES ASSUME Init PROVE Inv
  OBVIOUS
<1>1. Types
  BY DefaultsInLimits, GatewayAssumption DEF Init, Types
<1>2. StoredAsAcked
  BY DEF Init, StoredAsAcked, Readable
<1> QED
  BY <1>1, <1>2 DEF Init, Inv, CopyInForce, Loaded, AtTheGate

\* A life ends, or has not loaded its settings yet.
LEMMA LivesStep ==
  ASSUME Inv, SilentReset \/ PowerCut \/ MagnetWakes \/ Shelves \/ PofInit
  PROVE  Inv'
<1>1. stored' = stored /\ acked' = acked /\ up' \in {"off", "reset", "boot"}
  BY DEF SilentReset, PowerCut, MagnetWakes, Shelves, PofInit, RamCleared, setVars
<1>2. current' \in Settings /\ command' \in Command \cup {None}
  BY DefaultsInLimits DEF Inv, Types, SilentReset, PowerCut, MagnetWakes, Shelves, PofInit,
                          RamCleared, setVars, gateVars
<1>3. AtTheGate'
  <2>1. CASE SilentReset \/ PowerCut \/ Shelves
    BY <2>1 DEF AtTheGate, SilentReset, PowerCut, Shelves, RamCleared
  <2>2. CASE MagnetWakes \/ PofInit
    <3>1. up # "gate" /\ UNCHANGED <<ble_connected, command>>
      BY <2>2 DEF MagnetWakes, PofInit, gateVars
    <3> QED
      BY <3>1 DEF Inv, AtTheGate
  <2> QED
    BY <2>1, <2>2
<1> QED
  BY <1>1, <1>2, <1>3 DEF Inv, Types, StoredAsAcked, CopyInForce, Loaded, Readable

LEMMA SettingsInitStep == ASSUME Inv, SettingsInit PROVE Inv'
<1>1. AtTheGate' /\ command' \in Command \cup {None}
  <2>1. up # "gate" /\ UNCHANGED <<ble_connected, command>>
    BY DEF SettingsInit, gateVars
  <2> QED
    BY <2>1 DEF Inv, Types, AtTheGate
<1>2. CASE Readable /\ current' = Sanitized(stored) /\ UNCHANGED <<stored, acked>>
  <2>1. stored \in Settings /\ acked = Sanitized(stored)
    BY <1>2 DEF Inv, Types, StoredAsAcked, Readable
  <2>2. current' \in Settings /\ Sane(current') /\ InLimits(current')
    BY <1>2, <2>1, SanitizedIsSane
  <2> QED
    BY <1>1, <1>2, <2>1, <2>2 DEF Inv, Types, StoredAsAcked, CopyInForce, Readable
<1>3. CASE ~Readable /\ Update(Defaults) /\ up' = IF stored' = stored THEN "dead" ELSE "loaded"
  <2>1. CASE UNCHANGED setVars
    BY <1>1, <1>3, <2>1 DEF Inv, Types, StoredAsAcked, CopyInForce, Loaded, Readable, setVars
  <2>2. CASE /\ stored' \in Settings /\ current' \in Settings /\ acked' = current'
             /\ Sane(current') /\ InLimits(current') /\ Readable' /\ StoredAsAcked'
    BY <1>1, <2>2 DEF Inv, Types, CopyInForce
  <2> QED
    BY <1>3, <2>1, <2>2, UpdateKeeps, DefaultsInLimits DEF Inv
<1> QED
  BY <1>2, <1>3 DEF SettingsInit

LEMMA CommandAppliedStep == ASSUME Inv, CommandApplied PROVE Inv'
<1>1. up = "gate" /\ up' = up /\ command \in Command
  BY DEF Inv, Types, AtTheGate, CommandApplied, bootVars
<1>2. AtTheGate' /\ command' \in Command \cup {None}
  BY <1>1 DEF Inv, AtTheGate, CommandApplied
<1>3. current \in Settings /\ InLimits(current) /\ current = acked /\ Sane(current) /\ Readable
  BY <1>1 DEF Inv, Types, CopyInForce, Loaded
<1>4. CASE UNCHANGED setVars
  BY <1>1, <1>2, <1>4 DEF Inv, Types, StoredAsAcked, CopyInForce, Loaded, Readable, setVars
<1>5. CASE Update(Applied(current, command))
  <2>1. Applied(current, command) \in Settings /\ InLimits(Applied(current, command))
    BY <1>1, <1>3, AppliedInLimits
  <2>2. CASE /\ stored' \in Settings /\ current' \in Settings /\ acked' = current'
             /\ Sane(current') /\ InLimits(current') /\ Readable' /\ StoredAsAcked'
    BY <1>2, <2>2 DEF Inv, Types, CopyInForce
  <2> QED
    BY <1>4, <1>5, <2>1, <2>2, UpdateKeeps DEF Inv
<1> QED
  BY <1>4, <1>5 DEF CommandApplied

\* The rest leaves the settings alone.
LEMMA SessionStep ==
  ASSUME Inv, \/ Sag \/ SagSealed \/ LogInit \/ GateOpens \/ StartsProduction
              \/ Connected \/ Disconnected \/ CommandArrives \/ ClearsMemory
  PROVE  Inv'
<1>1. UNCHANGED setVars
  BY DEF Sag, SagSealed, LogInit, GateOpens, StartsProduction, Connected, Disconnected,
         CommandArrives, ClearsMemory, Unsettled
<1>2. Loaded' => Loaded
  BY DEF Sag, SagSealed, LogInit, GateOpens, StartsProduction, Connected, Disconnected,
         CommandArrives, ClearsMemory, bootVars, Loaded
<1>3. AtTheGate'
  <2>1. CASE Sag \/ SagSealed \/ ClearsMemory
    BY <2>1 DEF Inv, AtTheGate, Sag, SagSealed, ClearsMemory, bootVars, gateVars
  <2>2. CASE LogInit \/ GateOpens
    <3>1. up # "gate" /\ UNCHANGED <<ble_connected, command>>
      BY <2>2 DEF LogInit, GateOpens, gateVars
    <3> QED
      BY <3>1 DEF Inv, AtTheGate
  <2>3. CASE StartsProduction
    BY <2>3 DEF Inv, AtTheGate, StartsProduction
  <2>4. CASE Connected \/ Disconnected
    BY <2>4 DEF Inv, AtTheGate, Connected, Disconnected
  <2>5. CASE CommandArrives
    BY <2>5 DEF Inv, AtTheGate, CommandArrives
  <2> QED
    BY <2>1, <2>2, <2>3, <2>4, <2>5
<1>4. command' \in Command \cup {None}
  <2>1. CASE CommandArrives
    <3>1. PICK c \in Received : command' = [c EXCEPT !.timestamp = Absent]
      BY <2>1 DEF CommandArrives
    <3>2. c \in Command
      BY GatewayAssumption
    <3> QED
      BY <3>1, <3>2 DEF Command
  <2>2. CASE command' = command
    BY <2>2 DEF Inv, Types
  <2> QED
    BY <2>1, <2>2 DEF Sag, SagSealed, LogInit, GateOpens, StartsProduction, Connected,
                      Disconnected, ClearsMemory, gateVars
<1> QED
  BY <1>1, <1>2, <1>3, <1>4 DEF Inv, Types, StoredAsAcked, CopyInForce, Readable, setVars

LEMMA NextInv == Inv /\ [Next]_vars => Inv'
<1> SUFFICES ASSUME Inv, [Next]_vars PROVE Inv'
  OBVIOUS
<1>1. CASE UNCHANGED vars
  BY <1>1 DEF vars, setVars, bootVars, gateVars, Inv, Types, StoredAsAcked, CopyInForce, Loaded,
              Readable, AtTheGate
<1> QED
  BY <1>1, LivesStep, SettingsInitStep, CommandAppliedStep, SessionStep DEF Next

\* What a gateway was told is saved is in force now and at every later boot
\* (juxta_settings_update, juxta_settings_init, apply_gateway_command).
THEOREM AckedStaysInForce == Spec => []AckedInForce
<1>1. Inv => AckedInForce
  BY DEF Inv, CopyInForce, Loaded, AckedInForce
<1> QED
  BY <1>1, InitInv, NextInv, PTL DEF Spec

-----------------------------------------------------------------------------
(* The rows of a boot. *)

\* RowsInOrder, of any rows of this boot.
BootTwice(s, i, j) ==
  kind = "resume" /\ i = 1 /\ j = 2 /\ {s[i].event, s[j].event} = {"boot"}
Ordered(s) ==
  \A i, j \in DOMAIN s : i < j => InOrder(s[i], s[j]) \/ BootTwice(s, i, j)

\* Nothing of rank r or more has been logged with a date.
Below(s, r) == \A i \in DOMAIN s : s[i].dated => Rank[s[i].event] < r

Undated(s) == \A i \in DOMAIN s : ~s[i].dated
NoExit(s)  == \A i \in DOMAIN s : s[i].event # "shelf_exit"
Told(s)    == \E i \in DOMAIN s : s[i].event = "pof_witness"

LEMMA Ranks == \A e \in Events : Rank[e] \in 1..7 /\ (Rank[e] = 6 => e = "time_set")
BY DEF Rank, Events

\* The rows of a sequence one longer.
LEMMA Appended ==
  ASSUME NEW s \in Seq(Rows), NEW q \in Rows
  PROVE  LET t == Append(s, q)  n == Len(s)
         IN  /\ n \in Nat /\ DOMAIN s = 1..n /\ DOMAIN t = 1..(n + 1) /\ t \in Seq(Rows)
             /\ t[n + 1] = q /\ \A i \in 1..n : t[i] = s[i] /\ s[i] \in Rows
BY AppendProperties, LenProperties, ElementOfSeq

LEMMA AppendOrdered ==
  ASSUME NEW s \in Seq(Rows), Ordered(s), NEW q \in Rows,
         \A i \in DOMAIN s :
           \/ InOrder(s[i], q)
           \/ kind = "resume" /\ Len(s) = 1 /\ {s[i].event, q.event} = {"boot"}
  PROVE  Append(s, q) \in Seq(Rows) /\ Ordered(Append(s, q))
<1> DEFINE t == Append(s, q)  n == Len(s)
<1>1. /\ n \in Nat /\ DOMAIN s = 1..n /\ DOMAIN t = 1..(n + 1) /\ t \in Seq(Rows)
      /\ t[n + 1] = q /\ \A i \in 1..n : t[i] = s[i]
  BY Appended
<1> HIDE DEF t, n
<1>3. Ordered(t)
  <2> SUFFICES ASSUME NEW i \in 1..(n + 1), NEW j \in 1..(n + 1), i < j
               PROVE  InOrder(t[i], t[j]) \/ BootTwice(t, i, j)
    BY <1>1 DEF Ordered
  <2>1. i \in 1..n /\ t[i] = s[i]
    BY <1>1
  <2>2. CASE j = n + 1
    <3>1. CASE InOrder(s[i], q)
      BY <1>1, <2>1, <2>2, <3>1
    <3>2. CASE kind = "resume" /\ n = 1 /\ {s[i].event, q.event} = {"boot"}
      <4>1. i = 1 /\ j = 2 /\ t[j] = q
        BY <1>1, <2>1, <2>2, <3>2
      <4> QED
        BY <2>1, <3>2, <4>1 DEF BootTwice
    <3> QED
      BY <1>1, <2>1, <3>1, <3>2 DEF n
  <2>3. CASE j # n + 1
    <3>1. j \in 1..n /\ t[j] = s[j]
      BY <1>1, <2>3
    <3>2. InOrder(s[i], s[j]) \/ BootTwice(s, i, j)
      BY <1>1, <2>1, <3>1 DEF Ordered
    <3> QED
      BY <2>1, <3>1, <3>2 DEF BootTwice
  <2> QED
    BY <2>2, <2>3
<1> QED
  BY <1>1, <1>3 DEF t

\* What else a row changes.
LEMMA AppendKeeps ==
  ASSUME NEW s \in Seq(Rows), NEW q \in Rows
  PROVE  LET t == Append(s, q)
         IN  /\ \A r \in Nat : Below(s, r) /\ (q.dated => Rank[q.event] < r) => Below(t, r)
             /\ Undated(s) /\ ~q.dated => Undated(t)
             /\ NoExit(s) /\ q.event # "shelf_exit" => NoExit(t)
             /\ Told(t) <=> Told(s) \/ q.event = "pof_witness"
<1> DEFINE t == Append(s, q)  n == Len(s)
<1>1. /\ n \in Nat /\ DOMAIN s = 1..n /\ DOMAIN t = 1..(n + 1)
      /\ t[n + 1] = q /\ \A i \in 1..n : t[i] = s[i]
  BY Appended
<1> HIDE DEF t, n
<1>2. \A i \in 1..(n + 1) : i \in 1..n \/ i = n + 1
  BY <1>1
<1>3. n + 1 \in 1..(n + 1) /\ \A i \in 1..n : i \in 1..(n + 1)
  BY <1>1
<1>4. ASSUME NEW r \in Nat, Below(s, r), q.dated => Rank[q.event] < r
      PROVE  Below(t, r)
  BY <1>1, <1>2, <1>4 DEF Below
<1>5. Undated(s) /\ ~q.dated => Undated(t)
  BY <1>1, <1>2 DEF Undated
<1>6. NoExit(s) /\ q.event # "shelf_exit" => NoExit(t)
  BY <1>1, <1>2 DEF NoExit
<1>7. Told(t) <=> Told(s) \/ q.event = "pof_witness"
  BY <1>1, <1>2, <1>3 DEF Told
<1> QED
  BY <1>4, <1>5, <1>6, <1>7 DEF t

LEMMA BelowMore ==
  ASSUME NEW s \in Seq(Rows), NEW r \in Nat, Below(s, r)
  PROVE  Below(s, r + 1)
<1> SUFFICES ASSUME NEW i \in DOMAIN s, s[i].dated PROVE Rank[s[i].event] < r + 1
  BY DEF Below
<1>1. s[i].event \in Events
  BY LenProperties, ElementOfSeq DEF Rows
<1>2. Rank[s[i].event] \in 1..7 /\ Rank[s[i].event] < r
  BY <1>1, Ranks DEF Below
<1>3. \A q \in 1..7 : q < r => q < r + 1
  OBVIOUS
<1> QED
  BY <1>2, <1>3

LEMMA NoRows == /\ <<>> \in Seq(Rows) /\ Ordered(<<>>) /\ ~Told(<<>>)
                /\ Undated(<<>>) /\ NoExit(<<>>) /\ \A r \in Nat : Below(<<>>, r)
BY EmptySeq DEF Ordered, Told, Below, Undated, NoExit

\* A boot does not report itself without a date.
LEMMA UndatedRows ==
  ASSUME NEW s \in Seq(Rows), Undated(s)
  PROVE  ~Told(s) /\ \A r \in Nat : Below(s, r)
<1>1. \A i \in DOMAIN s : s[i] \in Rows /\ ~s[i].dated
  BY LenProperties, ElementOfSeq DEF Undated
<1> QED
  BY <1>1 DEF Told, Below, Rows

\* A row fits behind rows of lower rank; without a date, behind any that do not
\* report the same of the boot.
LEMMA RowFits ==
  ASSUME NEW s \in Seq(Rows), NEW q \in Rows,
         q.dated => Below(s, Rank[q.event]) \/ (q.event = "time_set" /\ Below(s, 7)),
         q.event = "shelf_exit" => NoExit(s)
  PROVE  \A i \in DOMAIN s : InOrder(s[i], q)
<1> SUFFICES ASSUME NEW i \in DOMAIN s PROVE InOrder(s[i], q)
  OBVIOUS
<1>1. s[i] \in Rows /\ s[i].event \in Events /\ Rank[s[i].event] \in 1..7
  BY LenProperties, ElementOfSeq, Ranks DEF Rows
<1>2. q.event \in Events /\ Rank[q.event] \in 1..7 /\ Rank["time_set"] = 6
  BY Ranks DEF Rows, Rank
<1>3. ASSUME s[i].dated, q.dated
      PROVE  \/ Rank[s[i].event] < Rank[q.event]
             \/ s[i].event = "time_set" /\ q.event = "time_set"
  <2>1. CASE Below(s, Rank[q.event])
    BY <1>3, <2>1 DEF Below
  <2>2. CASE q.event = "time_set" /\ Below(s, 7)
    <3>1. Rank[s[i].event] < 7
      BY <1>3, <2>2 DEF Below
    <3>2. Rank[s[i].event] < 6 \/ Rank[s[i].event] = 6
      BY <1>1, <3>1
    <3> QED
      BY <1>1, <1>2, <2>2, <3>2, Ranks
  <2> QED
    BY <1>3, <2>1, <2>2
<1>4. ASSUME s[i].event = q.event, q.event \in OneShot PROVE FALSE
  <2>1. q.event # "shelf_exit"
    BY <1>4 DEF NoExit
  <2>2. s[i].dated /\ q.dated
    BY <1>1, <1>4, <2>1 DEF OneShot, Rows
  <2>3. Rank[s[i].event] < Rank[q.event]
    BY <1>3, <1>4, <2>2 DEF OneShot
  <2> QED
    BY <1>2, <1>4, <2>3
<1> QED
  BY <1>3, <1>4 DEF InOrder

\* juxta_log_append_event of a row of the session.
LEMMA LoggedOrdered ==
  ASSUME NEW s \in Seq(Rows), Ordered(s), NEW at \in BOOLEAN,
         NEW e \in Events \ {"boot", "recovery", "pof_witness"},
         at => Below(s, Rank[e]) \/ (e = "time_set" /\ Below(s, 7)),
         e = "shelf_exit" => NoExit(s)
  PROVE  LET t == Logged(s, e, at)
         IN  /\ t \in Seq(Rows) /\ Ordered(t) /\ (Told(t) <=> Told(s))
             /\ Undated(s) /\ ~at => Undated(t)
             /\ NoExit(s) /\ e # "shelf_exit" => NoExit(t)
             /\ \A r \in Nat : Below(s, r) /\ (at => Rank[e] < r) => Below(t, r)
<1> DEFINE q == Row(e, at)
<1>1. q \in Rows /\ q.event = e /\ q.dated = at
  BY DEF Row, Rows
<1> HIDE DEF q
<1>2. Append(s, q) \in Seq(Rows) /\ Ordered(Append(s, q))
  <2>1. \A i \in DOMAIN s : InOrder(s[i], q)
    BY <1>1, RowFits
  <2> QED
    BY <1>1, <2>1, AppendOrdered
<1>3. LET t == Append(s, q)
      IN  /\ \A r \in Nat : Below(s, r) /\ (at => Rank[e] < r) => Below(t, r)
          /\ Undated(s) /\ ~at => Undated(t)
          /\ NoExit(s) /\ e # "shelf_exit" => NoExit(t)
          /\ Told(t) <=> Told(s)
  <2>1. e # "pof_witness"
    OBVIOUS
  <2> QED
    BY <1>1, <2>1, AppendKeeps
<1>4. Logged(s, e, at) = Append(s, q) \/ Logged(s, e, at) = s
  BY DEF Logged, q
<1> QED
  BY <1>2, <1>3, <1>4

\* log_boot_identity and emit_boot_forensics add a row of the witness if there is one.
LEMMA IdentityOrdered ==
  ASSUME NEW s \in Seq(Rows), Ordered(s), ~boot_logged_this_boot,
         Below(s, 2) \/ (kind = "resume" /\ s = <<Row("boot", TRUE)>>)
  PROVE  /\ Identity(s) \in Seq(Rows) /\ Ordered(Identity(s)) /\ Below(Identity(s), 5)
         /\ Told(Identity(s)) <=> Told(s) \/ s_prev_life > 0
<1> DEFINE Boot == Row("boot", TRUE)
           Recovery == Row("recovery", TRUE)
           Pof == Row("pof_witness", TRUE)
           a == Append(s, Boot)
           b == IF kind \in {"resume", "resync"} THEN Append(a, Recovery) ELSE a
           c == IF s_prev_life > 0 THEN Append(b, Pof) ELSE b
<1>1. Rank["boot"] = 2 /\ Rank["recovery"] = 3 /\ Rank["pof_witness"] = 4
  BY DEF Rank
<1>2. /\ Boot \in Rows /\ Boot.event = "boot" /\ Boot.dated
      /\ Recovery \in Rows /\ Recovery.event = "recovery" /\ Recovery.dated
      /\ Pof \in Rows /\ Pof.event = "pof_witness" /\ Pof.dated
  BY DEF Rows, Events, Row
<1>3. /\ Identity(s) = s \o <<Boot>>
                         \o (IF kind \in {"resume", "resync"} THEN <<Recovery>> ELSE <<>>)
                         \o (IF s_prev_life > 0 THEN <<Pof>> ELSE <<>>)
  BY DEF Identity
<1>4. s = <<Boot>> => Len(s) = 1 /\ DOMAIN s = {1} /\ s[1] = Boot
  OBVIOUS
<1> HIDE DEF Boot, Recovery, Pof
<1>5. a \in Seq(Rows) /\ Ordered(a) /\ Below(a, 3) /\ (Told(a) <=> Told(s))
  <2>1. CASE Below(s, 2)
    <3>1. \A i \in DOMAIN s : InOrder(s[i], Boot)
      BY <1>1, <1>2, <2>1, RowFits
    <3>2. Below(s, 2 + 1)
      BY <2>1, BelowMore
    <3> QED
      BY <1>1, <1>2, <3>1, <3>2, AppendOrdered, AppendKeeps
  <2>2. CASE kind = "resume" /\ s = <<Boot>>
    <3>1. Below(s, 3)
      BY <1>1, <1>2, <1>4, <2>2 DEF Below
    <3>2. Len(s) = 1 /\ \A i \in DOMAIN s : {s[i].event, Boot.event} = {"boot"}
      BY <1>2, <1>4, <2>2
    <3>3. a \in Seq(Rows) /\ Ordered(a)
      BY <1>2, <2>2, <3>2, AppendOrdered
    <3> QED
      BY <1>1, <1>2, <3>1, <3>3, AppendKeeps
  <2> QED
    BY <2>1, <2>2 DEF Boot
<1> HIDE DEF a
<1>6. b \in Seq(Rows) /\ Ordered(b) /\ Below(b, 4) /\ (Told(b) <=> Told(s))
  <2>1. \A i \in DOMAIN a : InOrder(a[i], Recovery)
    BY <1>1, <1>2, <1>5, RowFits
  <2>2. Below(a, 3 + 1)
    BY <1>5, BelowMore
  <2> QED
    BY <1>1, <1>2, <1>5, <2>1, <2>2, AppendOrdered, AppendKeeps
<1> HIDE DEF b
<1>7. /\ c \in Seq(Rows) /\ Ordered(c) /\ Below(c, 5)
      /\ Told(c) <=> Told(s) \/ s_prev_life > 0
  <2>1. \A i \in DOMAIN b : InOrder(b[i], Pof)
    BY <1>1, <1>2, <1>6, RowFits
  <2>2. Below(b, 4 + 1)
    BY <1>6, BelowMore
  <2> QED
    BY <1>1, <1>2, <1>6, <2>1, <2>2, AppendOrdered, AppendKeeps
<1>8. Identity(s) = c
  <2>1. a = s \o <<Boot>>
    BY <1>2, AppendIsConcat DEF a
  <2>2. b = a \o (IF kind \in {"resume", "resync"} THEN <<Recovery>> ELSE <<>>)
    BY <1>2, <1>5, AppendIsConcat, ConcatEmptySeq DEF b
  <2>3. c = b \o (IF s_prev_life > 0 THEN <<Pof>> ELSE <<>>)
    BY <1>2, <1>6, AppendIsConcat, ConcatEmptySeq
  <2> QED
    BY <1>3, <2>1, <2>2, <2>3
<1> QED
  BY <1>7, <1>8

-----------------------------------------------------------------------------
(* Rows and witness over a life. *)

LifeTypes ==
  /\ rows \in Seq(Rows) /\ clock \in BOOLEAN
  /\ s_retained.count \in Nat /\ s_prev_life \in Nat /\ sags \in Nat

\* A boot that resumes has its clock and logs at once, with one row of
\* juxta_log_init in front; any other has no date before it has logged its identity.
BeforeGate ==
  /\ up \in {"off", "dead", "reset", "boot", "loaded"} =>
       ~boot_logged_this_boot /\ ~datetime_synchronized /\ rows = <<>>
  /\ up = "ready" =>
       /\ ~boot_logged_this_boot /\ ~datetime_synchronized /\ (clock <=> kind = "resume")
       /\ rows = <<>> \/ (kind = "resume" /\ rows = <<Row("boot", TRUE)>>)
       /\ kind = "resume" => shelf_exit_logged_this_boot
  /\ up = "gate" => kind # "resume"
  /\ ~boot_logged_this_boot /\ kind # "resume" => Undated(rows)
  /\ ~shelf_exit_logged_this_boot => NoExit(rows)

\* At the gate the rows that waited for the clock are flushed together, and the
\* connection that brought the clock is the last one.
GateRows ==
  /\ up = "gate" =>
       /\ clock => boot_logged_this_boot
       /\ boot_logged_this_boot =>
            /\ datetime_synchronized /\ shelf_exit_logged_this_boot
            /\ ~pending_user_connected_log
  /\ ble_connected => Below(rows, 7)

\* From the last warning to the row: what the witness in retained RAM, or the
\* count a boot took from it, is worth.
WitnessKept ==
  /\ up = "off" => ~owed /\ s_retained = NoWitness /\ sags = 0
  /\ up = "reset" => sags = 0 /\ (owed <=> Witness)
  /\ Running => s_retained.count = sags
  /\ Running /\ ~boot_logged_this_boot => (owed <=> s_prev_life > 0)

RowInv ==
  /\ LifeTypes /\ BeforeGate /\ GateRows /\ WitnessKept
  /\ RowsInOrder /\ WitnessReported

LEMMA OrderedRows ==
  /\ RowsInOrder <=> Ordered(rows)
  /\ WitnessReported <=> (boot_logged_this_boot => (owed <=> Told(rows)))
BY DEF RowsInOrder, Ordered, BootTwice, WitnessReported, Told

LEMMA InitRows == Init => RowInv
<1> SUFFICES ASSUME Init PROVE RowInv
  OBVIOUS
<1>1. rows = <<>> /\ ~boot_logged_this_boot /\ clock = FALSE /\ ~ble_connected /\ up = "off"
  BY DEF Init
<1>2. RowsInOrder /\ WitnessReported /\ LifeTypes
  BY <1>1, NoRows, OrderedRows DEF Init, LifeTypes, NoWitness
<1> QED
  BY <1>1, <1>2, NoRows DEF Init, RowInv, BeforeGate, GateRows, WitnessKept, Running

\* The same rows, in the same state.
LEMMA SameRows ==
  ASSUME RowInv, rows' = rows, kind' = kind, owed' = owed,
         boot_logged_this_boot' <=> boot_logged_this_boot
  PROVE  RowsInOrder' /\ WitnessReported'
BY DEF RowInv, RowsInOrder, WitnessReported

\* Rows of a boot that have not been logged are in order.
LEMMA NoRowsYet ==
  ASSUME rows' = <<>>, ~boot_logged_this_boot'
  PROVE  /\ rows' \in Seq(Rows) /\ Undated(rows') /\ NoExit(rows')
         /\ (\A r \in Nat : Below(rows', r)) /\ RowsInOrder' /\ WitnessReported'
BY NoRows DEF RowsInOrder, WitnessReported

\* A life ends, or the next one begins.
LEMMA LivesRows ==
  ASSUME Inv, RowInv, SilentReset \/ PowerCut \/ MagnetWakes \/ Shelves \/ PofInit
  PROVE  RowInv'
<1> USE DEF LifeTypes, BeforeGate, GateRows, WitnessKept, Running, NoWitness, Witness, Torn
<1>1. CASE SilentReset \/ PowerCut \/ Shelves
  <2>1. /\ rows' = <<>> /\ ~boot_logged_this_boot' /\ ~datetime_synchronized' /\ clock' = FALSE
        /\ ~ble_connected' /\ sags' = 0 /\ s_prev_life' = 0 /\ up' \in {"reset", "off"}
        /\ LoseWitness \/ (KeepWitness /\ SilentReset)
    BY <1>1 DEF SilentReset, PowerCut, Shelves, RamCleared
  <2>2. WitnessKept' /\ s_retained'.count \in Nat
    <3>1. CASE LoseWitness
      BY <2>1, <3>1 DEF LoseWitness
    <3>2. CASE KeepWitness /\ SilentReset
      BY <2>1, <3>2 DEF KeepWitness, SilentReset, RowInv
    <3> QED
      BY <2>1, <3>1, <3>2
  <2> QED
    BY <2>1, <2>2, NoRowsYet DEF RowInv
<1>2. CASE MagnetWakes \/ PofInit
  <2>1. /\ UNCHANGED <<rows, boot_logged_this_boot, datetime_synchronized, ble_connected, clock,
                       shelf_exit_logged_this_boot, owed, sags>>
        /\ up \in {"off", "reset"} /\ up' \in {"reset", "boot"}
    BY <1>2 DEF MagnetWakes, PofInit, pofVars, gateVars
  <2>2. rows' = <<>> /\ ~boot_logged_this_boot' /\ ~datetime_synchronized' /\ ~ble_connected'
    BY <2>1 DEF RowInv, Inv, AtTheGate
  <2>3. CASE MagnetWakes
    BY <2>1, <2>2, <2>3, NoRowsYet DEF MagnetWakes, RowInv, pofVars
  <2>4. CASE PofInit
    BY <2>1, <2>2, <2>4, NoRowsYet DEF PofInit, RowInv
  <2> QED
    BY <1>2, <2>3, <2>4
<1> QED
  BY <1>1, <1>2

\* Steps that log nothing.
LEMMA QuietRows ==
  ASSUME Inv, RowInv,
         \/ Sag \/ SagSealed \/ SettingsInit \/ GateOpens \/ CommandApplied \/ ClearsMemory
         \/ UNCHANGED vars
  PROVE  RowInv'
<1> USE DEF LifeTypes, BeforeGate, GateRows, WitnessKept, Running, NoWitness, Witness, Torn
<1>1. UNCHANGED <<rows, boot_logged_this_boot, shelf_exit_logged_this_boot, clock,
                  datetime_synchronized, pending_user_connected_log, owed, s_prev_life,
                  ble_connected, kind>>
  BY DEF Sag, SagSealed, SettingsInit, GateOpens, CommandApplied, ClearsMemory, vars, bootVars,
         gateVars, pofVars, Unsettled
<1>2. RowsInOrder' /\ WitnessReported' /\ (ble_connected' => Below(rows, 7)')
  BY <1>1, SameRows DEF RowInv, Below
<1>3. ASSUME up' = up PROVE BeforeGate' /\ GateRows'
  BY <1>1, <1>2, <1>3 DEF RowInv, Undated, NoExit
<1>4. CASE Sag
  <2>1. up' = up
    BY <1>4 DEF Sag, bootVars
  <2>2. LifeTypes' /\ WitnessKept'
    BY <1>1, <1>4, <2>1 DEF RowInv, Sag
  <2> QED
    BY <1>2, <1>3, <2>1, <2>2 DEF RowInv
<1>5. CASE SagSealed
  <2>1. up' = up
    BY <1>5 DEF SagSealed, bootVars
  <2>2. LifeTypes' /\ WitnessKept'
    BY <1>1, <1>5, <2>1 DEF RowInv, SagSealed
  <2> QED
    BY <1>2, <1>3, <2>1, <2>2 DEF RowInv
<1>6. CASE SettingsInit
  <2>1. UNCHANGED <<s_retained, sags>> /\ up = "boot" /\ up' \in {"dead", "loaded"}
    BY <1>6 DEF SettingsInit, pofVars
  <2> QED
    BY <1>1, <1>2, <2>1 DEF RowInv, Undated, NoExit
<1>7. CASE GateOpens
  <2>1. up = "ready" /\ kind \in {"wake", "resync"} /\ up' = "gate"
    BY <1>7 DEF GateOpens
  <2>2. ~clock /\ ~boot_logged_this_boot /\ rows = <<>>
    BY <2>1 DEF RowInv
  <2>3. UNCHANGED <<s_retained, sags>>
    BY <1>7 DEF GateOpens, pofVars
  <2> QED
    BY <1>1, <1>2, <2>1, <2>2, <2>3, NoRowsYet DEF RowInv
<1>8. CASE CommandApplied \/ ClearsMemory \/ UNCHANGED vars
  <2>1. UNCHANGED <<up, s_retained, sags>>
    BY <1>8 DEF CommandApplied, ClearsMemory, vars, bootVars, pofVars
  <2>2. LifeTypes' /\ WitnessKept'
    BY <1>1, <2>1 DEF RowInv
  <2> QED
    BY <1>2, <1>3, <2>1, <2>2 DEF RowInv
<1> QED
  BY <1>4, <1>5, <1>6, <1>7, <1>8

\* The one row of juxta_log_init.
LEMMA BootRow ==
  LET s == <<Row("boot", TRUE)>>
  IN  s \in Seq(Rows) /\ DOMAIN s = {1} /\ Ordered(s) /\ ~Told(s) /\ NoExit(s)
<1> DEFINE r == Row("boot", TRUE)
           s == <<r>>
<1>1. r \in Rows /\ r.event = "boot"
  BY DEF Row, Rows, Events
<1> HIDE DEF r
<1>2. s \in Seq(Rows) /\ DOMAIN s = {1} /\ s[1] = r
  BY <1>1
<1> HIDE DEF s
<1>3. \A i, j \in DOMAIN s : ~(i < j)
  BY <1>2
<1> QED
  BY <1>1, <1>2, <1>3 DEF Ordered, Told, NoExit, r, s

LEMMA LogInitRows ==
  ASSUME Inv, RowInv, LogInit
  PROVE  RowInv'
<1> USE DEF LifeTypes, BeforeGate, GateRows, WitnessKept, Running, NoWitness, Witness, Torn
<1>1. /\ UNCHANGED <<pofVars, kind, ble_connected, datetime_synchronized,
                     boot_logged_this_boot>>
      /\ up = "loaded" /\ up' = "ready" /\ (clock' <=> kind = "resume")
      /\ clock' \in BOOLEAN /\ (kind = "resume" => shelf_exit_logged_this_boot')
  BY DEF LogInit, Unsettled
<1>2. /\ rows = <<>> /\ ~boot_logged_this_boot' /\ ~datetime_synchronized' /\ ~ble_connected'
      /\ kind' = kind
  BY <1>1 DEF RowInv, Inv, AtTheGate
<1>3. CASE rows' = <<>>
  <2>1. /\ rows' \in Seq(Rows) /\ Undated(rows') /\ NoExit(rows')
        /\ RowsInOrder' /\ WitnessReported'
    BY <1>2, <1>3, NoRowsYet
  <2> QED
    BY <1>1, <1>2, <1>3, <2>1 DEF RowInv, pofVars
<1>4. CASE kind = "resume" /\ rows' = <<Row("boot", TRUE)>>
  <2>1. rows' \in Seq(Rows) /\ NoExit(rows') /\ RowsInOrder' /\ WitnessReported'
    <3>1. rows' \in Seq(Rows) /\ NoExit(rows') /\ \A i, j \in DOMAIN rows' : ~(i < j)
      <4> HIDE DEF LifeTypes, BeforeGate, GateRows, WitnessKept
      <4>1. rows' \in Seq(Rows) /\ NoExit(rows') /\ DOMAIN rows' = {1}
        BY <1>4, BootRow
      <4> QED
        BY <4>1
    <3> QED
      BY <1>2, <3>1 DEF RowsInOrder, WitnessReported
  <2> QED
    BY <1>1, <1>2, <1>4, <2>1 DEF RowInv, pofVars
<1>5. rows' = <<>> \/ (kind = "resume" /\ rows' = <<Row("boot", TRUE)>>)
  <2>1. Append(<<>>, Row("boot", TRUE)) = <<Row("boot", TRUE)>>
    OBVIOUS
  <2> QED
    BY <1>1, <1>2, <2>1 DEF LogInit
<1> QED
  BY <1>3, <1>4, <1>5

LEMMA ProductionRows ==
  ASSUME Inv, RowInv, StartsProduction
  PROVE  RowInv'
<1>1. /\ UNCHANGED <<s_retained, sags, owed, clock, ble_connected, kind,
                     shelf_exit_logged_this_boot>>
      /\ up \in {"ready", "gate"} /\ up' = "production" /\ ~ble_connected
  BY DEF StartsProduction, Inv, AtTheGate
<1>2. s_prev_life' \in Nat
  BY DEF StartsProduction, LogsIdentity, RowInv, LifeTypes
<1>3. CASE boot_logged_this_boot \/ ~clock
  <2>1. rows' = rows /\ (boot_logged_this_boot' <=> boot_logged_this_boot)
    BY <1>3 DEF StartsProduction, Identity, LogsIdentity
  <2>2. ~boot_logged_this_boot => s_prev_life' = s_prev_life
    BY <1>3 DEF StartsProduction, LogsIdentity
  <2> QED
    BY <1>1, <1>2, <2>1, <2>2, SameRows
    DEF RowInv, LifeTypes, BeforeGate, GateRows, WitnessKept, Running, Undated, NoExit
<1>4. CASE ~boot_logged_this_boot /\ clock
  <2>1. rows' = Identity(rows) /\ boot_logged_this_boot'
    BY <1>4 DEF StartsProduction, LogsIdentity
  <2>2. /\ owed <=> s_prev_life > 0
        /\ kind = "resume" /\ (rows = <<>> \/ rows = <<Row("boot", TRUE)>>)
        /\ shelf_exit_logged_this_boot
    BY <1>1, <1>4 DEF RowInv, BeforeGate, GateRows, WitnessKept, Running
  <2>3. /\ rows \in Seq(Rows) /\ Ordered(rows) /\ ~Told(rows)
        /\ Below(rows, 2) \/ rows = <<Row("boot", TRUE)>>
    BY <2>2, NoRows, BootRow
  <2>4. rows' \in Seq(Rows) /\ Ordered(rows') /\ (Told(rows') <=> owed)
    BY <1>4, <2>1, <2>2, <2>3, IdentityOrdered
  <2>5. RowsInOrder' /\ WitnessReported'
    BY <1>1, <2>4 DEF Ordered, BootTwice, Told, RowsInOrder, WitnessReported
  <2>6. shelf_exit_logged_this_boot'
    BY <1>1, <2>2
  <2> QED
    BY <1>1, <1>2, <2>1, <2>4, <2>5, <2>6
    DEF RowInv, LifeTypes, BeforeGate, GateRows, WitnessKept, Running
<1> QED
  BY <1>3, <1>4

LEMMA ConnectionRows ==
  ASSUME Inv, RowInv, Connected \/ Disconnected
  PROVE  RowInv'
<1>1. /\ UNCHANGED <<s_retained, s_prev_life, sags, owed, up, clock, kind,
                     datetime_synchronized, shelf_exit_logged_this_boot,
                     boot_logged_this_boot>>
      /\ up = "gate"
  BY DEF Connected, Disconnected, Unsettled, pofVars, Inv, AtTheGate
<1>2. CASE Connected
  <2>1. ~clock /\ ~boot_logged_this_boot /\ kind # "resume"
    BY <1>1, <1>2 DEF Connected, RowInv, BeforeGate, GateRows
  <2>2. rows' = rows /\ Undated(rows) /\ rows \in Seq(Rows)
    BY <1>2, <2>1 DEF Connected, RowInv, BeforeGate, LifeTypes
  <2>3. Below(rows', 7)
    BY <2>2, UndatedRows
  <2>4. RowsInOrder' /\ WitnessReported'
    BY <1>1, <2>2, SameRows
  <2> QED
    BY <1>1, <2>1, <2>2, <2>3, <2>4
    DEF RowInv, LifeTypes, BeforeGate, GateRows, WitnessKept, Running, NoExit
<1>3. CASE Disconnected
  <2>1. /\ ~ble_connected' /\ ~pending_user_connected_log'
        /\ rows' = Logged(rows, "user_disconnected", clock)
    BY <1>3 DEF Disconnected
  <2>2. /\ rows \in Seq(Rows) /\ Ordered(rows) /\ Below(rows, 7)
        /\ clock \in BOOLEAN /\ clock' = clock
    BY <1>1, <1>3, OrderedRows DEF Disconnected, RowInv, LifeTypes, GateRows
  <2>3. /\ rows' \in Seq(Rows) /\ Ordered(rows') /\ (Told(rows') <=> Told(rows))
        /\ Undated(rows) /\ ~clock => Undated(rows')
        /\ NoExit(rows) => NoExit(rows')
    <3>1. /\ "user_disconnected" \in Events \ {"boot", "recovery", "pof_witness"}
          /\ Rank["user_disconnected"] = 7 /\ "user_disconnected" # "shelf_exit"
      BY DEF Events, Rank
    <3> QED
      BY <2>1, <2>2, <3>1, LoggedOrdered
  <2>4. RowsInOrder' /\ WitnessReported'
    <3>1. RowsInOrder'
      BY <1>1, <2>3 DEF Ordered, BootTwice, RowsInOrder
    <3>2. boot_logged_this_boot => (owed <=> Told(rows'))
      BY <2>3, OrderedRows DEF RowInv
    <3> QED
      BY <1>1, <3>1, <3>2 DEF WitnessReported, Told
  <2> QED
    BY <1>1, <2>1, <2>2, <2>3, <2>4
    DEF RowInv, LifeTypes, BeforeGate, GateRows, WitnessKept, Running
<1> QED
  BY <1>2, <1>3

\* The command that sets the clock flushes what waited for it; a command that comes
\* later, or sets no usable time, logs what it has without a date or just time_set.
LEMMA CommandRows ==
  ASSUME Inv, RowInv, CommandArrives
  PROVE  RowInv'
<1>1. /\ UNCHANGED <<up, kind, ble_connected, s_retained, sags, owed>>
      /\ up = "gate" /\ ble_connected
  BY DEF CommandArrives, Unsettled, Inv, AtTheGate
<1>2. /\ rows \in Seq(Rows) /\ Ordered(rows) /\ Below(rows, 7) /\ kind # "resume"
      /\ boot_logged_this_boot => (owed <=> Told(rows))
  BY <1>1, OrderedRows DEF RowInv, LifeTypes, BeforeGate, GateRows
<1>3. PICK c \in Received :
        LET set == c.timestamp # Absent
            at  == IF set THEN c.timestamp # 0 ELSE clock
            exit == IF shelf_exit_logged_this_boot THEN rows
                    ELSE Logged(rows, "shelf_exit", at)
            identity == IF at THEN Identity(exit) ELSE exit
            user == IF pending_user_connected_log THEN Logged(identity, "user_connected", at)
                    ELSE identity
        IN  /\ clock' = at
            /\ IF set
               THEN /\ datetime_synchronized' = TRUE /\ shelf_exit_logged_this_boot' = TRUE
                    /\ LogsIdentity(at) /\ pending_user_connected_log' = FALSE
                    /\ rows' = Logged(user, "time_set", at) /\ jxs_open' = (jxs_open \/ at)
               ELSE UNCHANGED <<datetime_synchronized, shelf_exit_logged_this_boot, rows,
                                jxs_open, boot_logged_this_boot, s_prev_life,
                                pending_user_connected_log>>
  BY DEF CommandArrives
<1> DEFINE set == c.timestamp # Absent
           at == IF set THEN c.timestamp # 0 ELSE clock
           exit == IF shelf_exit_logged_this_boot THEN rows ELSE Logged(rows, "shelf_exit", at)
           identity == IF at THEN Identity(exit) ELSE exit
           user == IF pending_user_connected_log THEN Logged(identity, "user_connected", at)
                   ELSE identity
<1>4. /\ set => /\ datetime_synchronized' /\ shelf_exit_logged_this_boot'
                /\ LogsIdentity(at) /\ ~pending_user_connected_log'
                /\ rows' = Logged(user, "time_set", at)
      /\ ~set => UNCHANGED <<datetime_synchronized, shelf_exit_logged_this_boot, rows,
                             boot_logged_this_boot, s_prev_life, pending_user_connected_log>>
      /\ clock' = at /\ (~set => clock' = clock) /\ at \in BOOLEAN
  BY <1>3 DEF RowInv, LifeTypes
<1>5. /\ "shelf_exit" \in Events \ {"boot", "recovery", "pof_witness"}
      /\ "user_connected" \in Events \ {"boot", "recovery", "pof_witness"}
      /\ "time_set" \in Events \ {"boot", "recovery", "pof_witness"}
      /\ Rank["shelf_exit"] = 1 /\ Rank["user_connected"] = 5 /\ Rank["time_set"] = 6
  BY DEF Events, Rank
<1> HIDE DEF set, at
<1>6. CASE ~set
  <2>1. RowsInOrder' /\ WitnessReported'
    BY <1>1, <1>4, <1>6, SameRows
  <2> QED
    BY <1>1, <1>4, <1>6, <2>1
    DEF RowInv, LifeTypes, BeforeGate, GateRows, WitnessKept, Running, Below, Undated, NoExit
\* Rows that may follow what this boot has logged, and those that may only come first.
<1>7. CASE set
  <2>1. /\ boot_logged_this_boot => shelf_exit_logged_this_boot /\ ~pending_user_connected_log
        /\ ~boot_logged_this_boot => Undated(rows) /\ ~Told(rows) /\ \A r \in Nat : Below(rows, r)
        /\ ~boot_logged_this_boot => (owed <=> s_prev_life > 0)
        /\ ~shelf_exit_logged_this_boot => NoExit(rows)
    BY <1>1, <1>2, UndatedRows DEF RowInv, BeforeGate, GateRows, WitnessKept, Running
  <2>2. /\ exit \in Seq(Rows) /\ Ordered(exit) /\ (Told(exit) <=> Told(rows))
        /\ boot_logged_this_boot => exit = rows
        /\ ~boot_logged_this_boot => Below(exit, 2) /\ (~at => Undated(exit))
    <3>1. CASE shelf_exit_logged_this_boot
      BY <1>2, <2>1, <3>1
    <3>2. CASE ~shelf_exit_logged_this_boot
      <4>1. ~boot_logged_this_boot /\ exit = Logged(rows, "shelf_exit", at)
        BY <2>1, <3>2
      <4> HIDE DEF exit
      <4>2. Below(rows, 1) /\ Below(rows, 2)
        BY <2>1, <4>1
      <4> QED
        BY <1>2, <1>4, <1>5, <2>1, <3>2, <4>1, <4>2, LoggedOrdered
    <3> QED
      BY <3>1, <3>2
  <2> HIDE DEF exit
  <2>3. /\ identity \in Seq(Rows) /\ Ordered(identity)
        /\ boot_logged_this_boot => identity = rows
        /\ ~boot_logged_this_boot => Below(identity, 5) /\ (~at => Undated(identity))
        /\ boot_logged_this_boot \/ at => (Told(identity) <=> owed)
    <3>1. CASE at /\ ~boot_logged_this_boot
      BY <2>1, <2>2, <3>1, IdentityOrdered
    <3>2. CASE ~at \/ boot_logged_this_boot
      <4>1. identity = exit
        BY <3>2 DEF Identity
      <4>2. ~boot_logged_this_boot => Below(exit, 5)
        BY <2>2, <3>2, UndatedRows
      <4> QED
        BY <1>2, <2>2, <3>2, <4>1, <4>2
    <3> QED
      BY <3>1, <3>2
  <2> HIDE DEF identity
  <2>4. /\ user \in Seq(Rows) /\ Ordered(user) /\ Below(user, 7)
        /\ ~boot_logged_this_boot /\ ~at => Undated(user)
        /\ boot_logged_this_boot \/ at => (Told(user) <=> owed)
    <3>1. ~boot_logged_this_boot => Below(identity, 7)
      <4>1. Below(identity, 5) => Below(identity, 5 + 1 + 1)
        BY <2>3, BelowMore
      <4> QED
        BY <2>3, <4>1
    <3>2. CASE pending_user_connected_log
      <4>1. ~boot_logged_this_boot /\ user = Logged(identity, "user_connected", at)
        BY <2>1, <3>2
      <4> HIDE DEF user
      <4> QED
        BY <1>4, <1>5, <2>3, <3>1, <4>1, LoggedOrdered
    <3>3. CASE ~pending_user_connected_log
      BY <1>2, <2>3, <3>1, <3>3
    <3> QED
      BY <3>2, <3>3
  <2> HIDE DEF user
  <2>5. /\ rows' \in Seq(Rows) /\ Ordered(rows') /\ Below(rows', 7)
        /\ ~boot_logged_this_boot /\ ~at => Undated(rows')
        /\ boot_logged_this_boot \/ at => (Told(rows') <=> owed)
    BY <1>4, <1>5, <1>7, <2>4, LoggedOrdered
  <2>6. /\ boot_logged_this_boot' <=> boot_logged_this_boot \/ at
        /\ s_prev_life' \in Nat /\ (~at => s_prev_life' = s_prev_life)
    <3>1. boot_logged_this_boot' <=> boot_logged_this_boot \/ at
      BY <1>4, <1>7 DEF LogsIdentity
    <3>2. s_prev_life' \in Nat /\ (~at => s_prev_life' = s_prev_life)
      BY <1>4, <1>7 DEF LogsIdentity, RowInv, LifeTypes
    <3> QED
      BY <3>1, <3>2
  <2>7. RowsInOrder' /\ WitnessReported'
    <3>1. RowsInOrder'
      BY <1>1, <2>5 DEF Ordered, BootTwice, RowsInOrder
    <3> QED
      BY <1>1, <2>5, <2>6, <3>1 DEF WitnessReported, Told
  <2> QED
    BY <1>1, <1>2, <1>4, <1>7, <2>5, <2>6, <2>7
    DEF RowInv, LifeTypes, BeforeGate, GateRows, WitnessKept, Running
<1> QED
  BY <1>6, <1>7

LEMMA NextRows == Inv /\ RowInv /\ [Next]_vars => RowInv'
BY LivesRows, QuietRows, LogInitRows, ProductionRows, ConnectionRows, CommandRows DEF Next

LEMMA RowInvariant == Spec => [](Inv /\ RowInv)
<1> QED
  BY InitInv, InitRows, NextInv, NextRows, PTL DEF Spec

\* RowsInOrder: however connections, commands without a usable time, clearMemory and
\* reboots follow one another, the dated rows of a boot are in the order of
\* flush_pending_jxs_events and main, none of a connection after its end, and the
\* one-shot rows once, with a date or without; but for the boot row of juxta_log_init
\* that precedes the one of log_boot_identity when a boot resumes with its clock.
THEOREM RowsStayInOrder == Spec => []RowsInOrder
<1>1. RowInv => RowsInOrder
  BY DEF RowInv
<1> QED
  BY <1>1, RowInvariant, PTL

\* WitnessReported: a whole witness of a supply sag reaches the log of the next boot
\* that knows the time, wherever between warning, CRC and reset the life ended, and
\* no boot logs one it does not owe.
THEOREM WitnessIsReported == Spec => []WitnessReported
<1>1. RowInv => WitnessReported
  BY DEF RowInv
<1> QED
  BY <1>1, RowInvariant, PTL

=============================================================================
