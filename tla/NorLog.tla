------------------------------- MODULE NorLog -------------------------------
(***************************************************************************)
(* The NOR CSV log of the production firmware (juxta_log.c, with the log   *)
(* cache kept for it in NVS by juxta_settings.c).                          *)
(*                                                                         *)
(* Each log type owns one flash region.  A region holds pseudo-files laid  *)
(* end to end: a filename line, a column header, rows, and a #EOF marker   *)
(* when the file is closed.  The table of files lives in RAM; a copy goes  *)
(* to NVS whenever a file is created, never when a row is appended, so     *)
(* every boot reconciles the copy with what the flash really holds.        *)
(*                                                                         *)
(* Flash is modelled in cells, not bytes: one cell is one line of a file   *)
(* or one fragment of a longer line.  Programming a cell that is not       *)
(* erased ANDs the two contents, which leaves garbage.  Power may be cut   *)
(* before, after or in the middle of any program or erase.                 *)
(*                                                                         *)
(* One public juxta_log_* call runs at a time (s_log_mutex).  A call is an *)
(* agenda of tasks in todo; each task proceeds by flash-sized steps.       *)
(***************************************************************************)
EXTENDS Naturals, Sequences, FiniteSets

CONSTANTS
  TypeOrder,        \* the log types in the order of regions[]
  Provenance,       \* JXS: its new files open with a day_start row
  Size,             \* cells in the region of each type
  Sector,           \* cells per erase sector
  MaxFiles,         \* JUXTA_MAX_FILES
  DayStartLen,      \* cells of a day_start row
  DayStartReserve,  \* cells ensure_file sets aside for it (256 bytes)
  RowSizes,         \* cells a data row may take
  MaxDay,           \* bound: calendar days are 1..MaxDay, 0 is "clock not set"
  MaxCuts,          \* bound: power cuts and resets in a behaviour
  MaxFaults,        \* bound: failed writes and lost caches in a behaviour
  Env               \* what the environment may do, see Events

\* "undated"   a row is logged while the clock is not set (a BLE session ends
\*             without the gateway having sent the time, or a silent reset
\*             outside production falls through to it)
\* "regress"   the clock is set to a day before one it has already shown
\* "cutformat" power fails while regions are being erased
\* "flash"     a flash program or erase returns an error
\* "nvs"       saving the cache in NVS returns an error
\* "lost"      the NVS cache is missing or of another version at boot
\* "draft"     a recovery boot flushes a vitals row captured on an earlier day
Events == {"undated", "regress", "cutformat", "flash", "nvs", "lost", "draft"}

Types == {TypeOrder[i] : i \in DOMAIN TypeOrder}
Days  == 1..MaxDay

ASSUME OrderAssumption ==
  /\ TypeOrder \in Seq(STRING)
  /\ \A i, j \in DOMAIN TypeOrder : TypeOrder[i] = TypeOrder[j] => i = j
  /\ Provenance \in Types
ASSUME SizeAssumption ==
  /\ Size \in [Types -> Nat \ {0}]
  /\ Sector \in Nat \ {0}
  /\ MaxFiles \in Nat
ASSUME RowAssumption ==
  /\ DayStartLen \in Nat \ {0}
  /\ DayStartReserve \in Nat
  /\ DayStartLen <= DayStartReserve
  /\ RowSizes \subseteq Nat \ {0}
ASSUME BoundAssumption ==
  /\ MaxDay \in Nat
  /\ MaxCuts \in Nat
  /\ MaxFaults \in Nat
  /\ Env \subseteq Events

VARIABLES
  nor,     \* flash: the cells of each region
  cached,  \* NVS: loaded_log_cache, a saved file table exists
  cache,   \* NVS: the saved file table, empty when there is none
  mode,    \* off; init: juxta_log_init's call; run; fault: init failed
  files,   \* RAM: ctx->files[], oldest first
  full,    \* RAM: ctx->region_full[]
  ymd,     \* RAM: s_log_calendar_ymd, 0 when empty
  clock,   \* the day juxta_time_now() falls on, 0 when the clock is not set
  latest,  \* the latest day the clock has shown, over all boots
  todo,    \* tasks left of the juxta_log_* call in progress
  stage,   \* how far ensure_file has got with the first task
  off,     \* ensure_file's local: where the new file's header goes
  day,     \* the unix_time argument of the call in progress, as a day
  cuts,    \* power cuts so far
  faults   \* failed writes so far

flashVars == <<nor, cached, cache>>
ramVars   == <<mode, files, full, ymd>>
opVars    == <<todo, stage, off, day>>
envVars   == <<clock, latest, cuts, faults>>
vars      == <<flashVars, ramVars, opVars, envVars>>

-----------------------------------------------------------------------------
(* Flash cells. *)

Kinds == {"blank", "name", "cols", "part", "start", "row", "eof", "smear"}
Cell  == {c \in [k : Kinds, d : 0..MaxDay] : c.k = "name" => c.d \in Days}

Blank   == [k |-> "blank", d |-> 0]
Smear   == [k |-> "smear", d |-> 0]   \* two different lines ANDed together
Part    == [k |-> "part", d |-> 0]    \* a fragment with no newline
Eof     == [k |-> "eof", d |-> 0]
Name(d) == [k |-> "name", d |-> d]    \* the filename line, with its date
Cols    == [k |-> "cols", d |-> 0]

Header(d) == <<Name(d), Cols>>
HeaderLen == 2
\* A line of n cells whose last cell, the one with the newline, is of kind k.
Line(k, d, n) == [i \in 1..n |-> IF i = n THEN [k |-> k, d |-> d] ELSE Part]

\* What one cell holds after it is programmed: NOR can only clear bits.
Overlay(old, new) ==
  IF old = Blank \/ (old = new /\ new.k \in {"eof", "name", "cols"})
  THEN new ELSE Smear

Program(r, at, cells) ==
  [i \in DOMAIN r |->
     IF i \in at..(at + Len(cells) - 1)
     THEN Overlay(r[i], cells[i - at + 1]) ELSE r[i]]

\* What a program operation interrupted by a power cut may have written.
Torn(cells) ==
  LET prefixes == {SubSeq(cells, 1, n) : n \in 0..(Len(cells) - 1)}
  IN prefixes \union {Append(p, Part) : p \in prefixes}

\* The first cell at or after from whose kind is in ks, else the region's end.
FirstAt(t, from, ks) ==
  LET First(i) == /\ nor[t][i].k \in ks
                  /\ \A j \in from..(i - 1) : nor[t][j].k \notin ks
      Found    == {i \in from..(Size[t] - 1) : First(i)}
  IN IF Found = {} THEN Size[t] ELSE CHOOSE i \in Found : TRUE

FirstErased(t) == FirstAt(t, 0, {"blank"})

\* find_eof_or_erased: just after the first #EOF, or at the first erased cell.
FileEnd(t, from) ==
  LET i == FirstAt(t, from, {"blank", "eof"})
  IN IF i < Size[t] /\ nor[t][i].k = "eof" THEN i + 1 ELSE i

\* Seeded fault: the end of the region is off by one.
FitsLoosely(t, at, cells) == at + Len(cells) <= Size[t] + 1
Fits(t, at, cells) == at + Len(cells) <= Size[t]

-----------------------------------------------------------------------------
(* The table of files. *)

Entry  == [t : Types, day : Days, off : Nat, len : Nat, active : BOOLEAN]
Tables == {fs \in Seq(Entry) : Len(fs) <= MaxFiles}

\* active_jxs/jxv/jxb: add_file_entry makes the newest file of a type active.
Slot(t) ==
  LET Newest == {i \in DOMAIN files : /\ files[i].t = t
                                      /\ \A j \in DOMAIN files : j > i => files[j].t # t}
  IN IF Newest = {} THEN 0 ELSE CHOOSE i \in Newest : TRUE

EndOf(e) == e.off + e.len

\* Entry e with another length, open or closed.
Resized(e, len, active) ==
  [t |-> e.t, day |-> e.day, off |-> e.off, len |-> len, active |-> active]
Grow(i, n, active) ==
  [files EXCEPT ![i] = Resized(files[i], files[i].len + n, active)]

\* The cells of a file that a transfer sends: not the filename line and, when
\* the file is closed, not its last cell, which is taken to be #EOF.
Payload(e) == (e.off + 1)..(EndOf(e) - 1 - (IF e.active THEN 0 ELSE 1))

\* find_file returns the first entry that carries the name.
FindFile(t, d) ==
  CHOOSE i \in DOMAIN files :
    /\ files[i].t = t /\ files[i].day = d
    /\ \A j \in 1..(i - 1) : ~(files[j].t = t /\ files[j].day = d)

-----------------------------------------------------------------------------
(* Calls and their tasks. *)

Tasks == [do : {"ensure", "row", "ymd", "erase", "clear"}, t : Types, n : Nat]

Ensure(t)    == [do |-> "ensure", t |-> t, n |-> 0]
AddRow(t, n) == [do |-> "row", t |-> t, n |-> n]
SetYmd       == [do |-> "ymd", t |-> Provenance, n |-> 0]
Erase(t)     == [do |-> "erase", t |-> t, n |-> 0]
Clear        == [do |-> "clear", t |-> Provenance, n |-> 0]

EnsureAll == [i \in DOMAIN TypeOrder |-> Ensure(TypeOrder[i])]
FormatAll == Append([i \in DOMAIN TypeOrder |-> Erase(TypeOrder[i])], Clear)

Idle == todo = <<>>
Doing(what) == ~Idle /\ Head(todo).do = what
Up == mode \in {"init", "run"}
Formatting == \E i \in DOMAIN todo : todo[i].do \in {"erase", "clear"}

\* The task at the head of the agenda is done.
TaskDone == todo' = Tail(todo) /\ stage' = "decide" /\ UNCHANGED <<off, day>>
\* Seeded fault: the error of one step is passed over.
CallFailsPassedOver ==
  /\ todo' = Tail(todo)
  /\ stage' = "decide"
  /\ UNCHANGED <<mode, off, day, files, full, ymd>>
\* The call returns an error: the rest of it is not done.  When it was
\* juxta_log_init's, main shows the hardware fault and never gets further.
CallFails ==
  /\ todo' = <<>>
  /\ stage' = "decide"
  /\ mode' = IF mode = "init" THEN "fault" ELSE mode
  /\ UNCHANGED <<off, day, files, full, ymd>>

\* A call starts with this agenda and this time.
Call(agenda, d) == todo' = agenda /\ day' = d /\ UNCHANGED <<stage, off>>

\* append_event, append_vitals, append_ble_observation: on a new calendar day
\* touch all types first, then this type's file, then the row.
AppendAgenda(t, n, d, today) ==
  (IF d # 0 /\ today # d THEN Append(EnsureAll, SetYmd) ELSE <<>>)
    \o <<Ensure(t), AddRow(t, n)>>

\* The application makes its next call.
Calls(agenda, d) ==
  /\ Up /\ Idle
  /\ mode' = "run"
  /\ Call(agenda, d)
  /\ UNCHANGED <<flashVars, files, full, ymd, envVars>>

StartAppend(t, n) ==
  /\ clock # 0 \/ "undated" \in Env
  /\ Calls(AppendAgenda(t, n, clock, ymd), clock)

\* A recovery boot took its clock from the checkpoint draft plus the seconds
\* it has been up; it flushes the draft as the row of the moment it was taken.
FlushDraft(t, d) ==
  /\ "draft" \in Env
  /\ mode = "init" /\ t # Provenance
  /\ cuts > 0
  /\ d < clock /\ \E i \in DOMAIN files : files[i].day = d
  /\ Calls(AppendAgenda(t, 1, d, ymd), d)

StartFormat == Calls(FormatAll, clock)

-----------------------------------------------------------------------------
(* ensure_file, one flash or NVS write at a time. *)

EnsureType == Head(todo).t
Deciding == Doing("ensure") /\ stage = "decide"

\* Seeded fault: an open file is good for any day.
NothingToEnsureAnyDay(t) ==
  \/ day = 0
  \/ full[t]
  \/ Slot(t) # 0
  \/ Len(files) >= MaxFiles

\* The early returns that need no look at the flash.
NothingToEnsure(t) ==
  \/ day = 0
  \/ full[t]
  \/ Slot(t) # 0 /\ files[Slot(t)].day = day
  \/ Len(files) >= MaxFiles

\* Seeded fault: only the erased tail is looked at, not what has to fit in it.
NoRoomAtAll(t) == FirstErased(t) >= Size[t]

\* No room for a header, and for the day_start row where there will be one.
NoRoom(t) ==
  LET first == FirstErased(t)
  IN \/ first >= Size[t]
     \/ first + HeaderLen + (IF t = Provenance THEN DayStartReserve ELSE 0) > Size[t]

EnsureReturns ==
  /\ Deciding
  /\ NothingToEnsure(EnsureType)
  /\ TaskDone
  /\ UNCHANGED <<flashVars, ramVars, envVars>>

EnsureLatches ==
  /\ Deciding
  /\ ~NothingToEnsure(EnsureType) /\ NoRoom(EnsureType)
  /\ full' = [full EXCEPT ![EnsureType] = TRUE]
  /\ TaskDone
  /\ UNCHANGED <<flashVars, mode, files, ymd, envVars>>

EnsureBegins ==
  /\ Deciding
  /\ ~NothingToEnsure(EnsureType) /\ ~NoRoom(EnsureType)
  /\ off' = FirstErased(EnsureType)
  /\ stage' = LET s == Slot(EnsureType)
              IN IF s # 0 /\ files[s].active THEN "close" ELSE "header"
  /\ UNCHANGED <<flashVars, ramVars, todo, day, envVars>>

\* guarded_flash_append refuses a latched region, and latches a region whose
\* end the write would cross.
GuardRefuses(t, at, cells) ==
  /\ full[t] \/ ~Fits(t, at, cells)
  /\ full' = [full EXCEPT ![t] = TRUE]
  /\ UNCHANGED <<flashVars, mode, files, ymd, envVars>>

GuardAllows(t, at, cells) ==
  /\ ~full[t] /\ Fits(t, at, cells)
  /\ nor' = [nor EXCEPT ![t] = Program(nor[t], at, cells)]

\* The write each step is about to make: where, and which cells.
Writing(what) == Doing("ensure") /\ stage = what
Pending ==
  LET t == Head(todo).t
      s == Slot(t)
      AtEnd(cells) == [t |-> t, at |-> EndOf(files[s]), cells |-> cells]
  IN CASE stage = "close"    -> AtEnd(<<Eof>>)
       [] stage = "header"   -> [t |-> t, at |-> off, cells |-> Header(day)]
       [] stage = "daystart" -> AtEnd(Line("start", day, DayStartLen))
       [] OTHER              -> AtEnd(Line("row", day, Head(todo).n))
HasPending ==
  \/ Writing("close") \/ Writing("header") \/ Writing("daystart")
  \/ Doing("row") /\ Slot(Head(todo).t) # 0

Refused == GuardRefuses(Pending.t, Pending.at, Pending.cells)
Allowed == GuardAllows(Pending.t, Pending.at, Pending.cells)

\* A refused #EOF leaves the old file open and creates none.
CloseOld ==
  /\ Writing("close")
  /\ \/ Refused /\ TaskDone
     \/ /\ Allowed
        /\ files' = Grow(Slot(EnsureType), 1, FALSE)
        /\ stage' = "header"
        /\ UNCHANGED <<cached, cache, mode, full, ymd, todo, off, day, envVars>>

\* The header goes where the erased tail began before the old file was closed.
WriteHeader ==
  /\ Writing("header")
  /\ \/ Refused /\ TaskDone
     \/ /\ Allowed
        /\ files' = Append(files, [t |-> EnsureType, day |-> day, off |-> off,
                                   len |-> HeaderLen, active |-> TRUE])
        /\ stage' = IF EnsureType = Provenance THEN "daystart" ELSE "save"
        /\ UNCHANGED <<cached, cache, mode, full, ymd, todo, off, day, envVars>>

\* Seeded fault: the row is not counted in the file's length.
WriteDayStartUncounted ==
  /\ Writing("daystart")
  /\ Allowed
  /\ stage' = "save"
  /\ UNCHANGED <<cached, cache, mode, full, files, ymd, todo, off, day, envVars>>

\* A refused day_start row is dropped, the new file stays.
WriteDayStart ==
  /\ Writing("daystart")
  /\ stage' = "save"
  /\ \/ Refused
     \/ /\ Allowed
        /\ files' = Grow(Slot(EnsureType), DayStartLen, TRUE)
        /\ UNCHANGED <<cached, cache, mode, full, ymd, envVars>>
  /\ UNCHANGED <<todo, off, day>>

SaveCache ==
  /\ Writing("save")
  /\ cached' = TRUE
  /\ cache' = files
  /\ TaskDone
  /\ UNCHANGED <<nor, ramVars, envVars>>

-----------------------------------------------------------------------------
(* The other tasks. *)

\* append_row; with no file of the type the call returns -ENOENT.
AppendRow ==
  /\ Doing("row")
  /\ LET s == Slot(Head(todo).t)
     IN \/ /\ s = 0
           /\ CallFails
           /\ UNCHANGED <<flashVars, envVars>>
        \/ /\ s # 0
           /\ Refused /\ TaskDone
        \/ /\ s # 0
           /\ Allowed
           /\ files' = Grow(s, Head(todo).n, files[s].active)
           /\ TaskDone
           /\ UNCHANGED <<cached, cache, mode, full, ymd, envVars>>

\* Seeded fault: the day is not remembered.
RecordNoDay ==
  /\ Doing("ymd")
  /\ TaskDone
  /\ UNCHANGED <<flashVars, ramVars, envVars>>

RecordCalendarDay ==
  /\ Doing("ymd")
  /\ ymd' = day
  /\ TaskDone
  /\ UNCHANGED <<flashVars, mode, files, full, envVars>>

EraseCells(r, n) == [i \in DOMAIN r |-> IF i < n THEN Blank ELSE r[i]]

EraseRegion ==
  /\ Doing("erase")
  /\ nor' = [nor EXCEPT ![Head(todo).t] = EraseCells(@, Size[Head(todo).t])]
  /\ TaskDone
  /\ UNCHANGED <<cached, cache, ramVars, envVars>>

\* The cache goes only after every region has been erased.
ClearTables ==
  /\ Doing("clear")
  /\ cached' = FALSE
  /\ cache' = <<>>
  /\ files' = <<>>
  /\ full' = [t \in Types |-> FALSE]
  /\ ymd' = 0
  /\ TaskDone
  /\ UNCHANGED <<nor, mode, envVars>>

\* Flash contents an interrupted program or erase can leave behind.
Programming == HasPending /\ ~full[Pending.t] /\ Fits(Pending.t, Pending.at, Pending.cells)
CutFlashes ==
  {nor} \union
  (IF Programming
   THEN {[nor EXCEPT ![Pending.t] = Program(@, Pending.at, cells)] :
           cells \in Torn(Pending.cells)}
   ELSE {}) \union
  (IF Doing("erase")
   THEN {[nor EXCEPT ![Head(todo).t] = EraseCells(@, n)] :
           n \in {m \in 1..(Size[Head(todo).t] - 1) : m % Sector = 0}}
   ELSE {})

\* A flash program or erase fails, perhaps half done, and the call unwinds.
WriteFails ==
  /\ "flash" \in Env
  /\ faults < MaxFaults
  /\ Programming \/ Doing("erase")
  /\ nor' \in CutFlashes
  /\ faults' = faults + 1
  /\ CallFails
  /\ UNCHANGED <<cached, cache, clock, latest, cuts>>

\* NVS refuses the cache; both callers ignore the result.
SaveGoesWrong ==
  /\ "nvs" \in Env
  /\ faults < MaxFaults
  /\ faults' = faults + 1
  /\ UNCHANGED <<cached, cache>>

SaveFails ==
  /\ Writing("save")
  /\ SaveGoesWrong
  /\ TaskDone
  /\ UNCHANGED <<nor, ramVars, clock, latest, cuts>>

-----------------------------------------------------------------------------
(* Boot: juxta_log_init. *)

\* Seeded fault: the cached lengths are trusted.
ReconcileNothing(fs) == fs

\* Cached lengths of active files are replaced by what the flash shows.
Reconcile(fs) ==
  [i \in DOMAIN fs |->
     IF fs[i].active
     THEN Resized(fs[i], FileEnd(fs[i].t, fs[i].off) - fs[i].off, TRUE)
     ELSE fs[i]]

\* With no cache the regions are scanned: a file starts at the region's start
\* and after each #EOF, as long as the cell there is programmed.
Starts ==
  {p \in UNION {{t} \X (0..(Size[t] - 1)) : t \in Types} :
     /\ p[2] < FirstErased(p[1])
     /\ p[2] = 0 \/ nor[p[1]][p[2] - 1].k = "eof"}

Rank(t) == CHOOSE i \in DOMAIN TypeOrder : TypeOrder[i] = t
Before(p, q) ==
  \/ Rank(p[1]) < Rank(q[1])
  \/ p[1] = q[1] /\ p[2] < q[2]

\* Seeded fault: any line at a file's start is taken for its name.
RecoverableAnyData == Cardinality(Starts) \in 0..MaxFiles

\* A start that is not a filename of the type, or too many files, is an error.
Recoverable ==
  /\ \A p \in Starts : nor[p[1]][p[2]].k = "name"
  /\ Cardinality(Starts) \in 0..MaxFiles

RecoveredEntry(p) ==
  LET end == FileEnd(p[1], p[2])
  IN [t |-> p[1], day |-> nor[p[1]][p[2]].d, off |-> p[2], len |-> end - p[2],
      active |-> nor[p[1]][end - 1].k # "eof"]

\* The starts in region order, then flash order.
Scanned(s) ==
  /\ {s[i] : i \in DOMAIN s} = Starts
  /\ \A i, j \in DOMAIN s : i < j => Before(s[i], s[j])

\* Files for the day and, through append_event, the boot row.
InitAgenda(d) ==
  IF d = 0 THEN <<>>
  ELSE Append(EnsureAll, SetYmd) \o AppendAgenda(Provenance, 1, d, d)

BootClock(d) == d = 0 \/ "regress" \in Env \/ d >= latest

Booting(d) ==
  /\ mode = "off"
  /\ BootClock(d)
  /\ mode' = "init"
  /\ clock' = d
  /\ latest' = IF d > latest THEN d ELSE latest
  /\ UNCHANGED <<nor, full, ymd, cuts>>

BootFromCache(d) ==
  /\ Booting(d)
  /\ cached
  /\ files' = Reconcile(cache)
  /\ Call(InitAgenda(d), d)
  /\ UNCHANGED <<cached, cache, faults>>

BootByScan(d) ==
  /\ Booting(d)
  /\ ~cached
  /\ Recoverable
  /\ \E s \in [1..Cardinality(Starts) -> Starts] :
       /\ Scanned(s)
       /\ files' = [i \in DOMAIN s |-> RecoveredEntry(s[i])]
  /\ \/ cached' = TRUE /\ cache' = files' /\ UNCHANGED faults
     \/ SaveGoesWrong
  /\ Call(InitAgenda(d), d)

\* Unrecognised data: every region is erased and file creation is deferred.
BootFormats(d) ==
  /\ Booting(d)
  /\ ~cached
  /\ ~Recoverable
  /\ files' = <<>>
  /\ Call(FormatAll, d)
  /\ UNCHANGED <<cached, cache, faults>>

-----------------------------------------------------------------------------
(* The environment. *)

\* Midnight passes, or the gateway sets the clock.
SetClock(d) ==
  /\ Up /\ Idle
  /\ d # clock
  /\ "regress" \in Env \/ d >= latest
  /\ clock' = d
  /\ latest' = IF d > latest THEN d ELSE latest
  /\ UNCHANGED <<flashVars, ramVars, opVars, cuts, faults>>

\* Power is cut or the chip resets: RAM is lost, an operation may be torn.
PowerCut ==
  /\ mode # "off"
  /\ cuts < MaxCuts
  /\ "cutformat" \in Env \/ ~Formatting
  /\ nor' \in CutFlashes
  /\ mode' = "off"
  /\ files' = <<>>
  /\ full' = [t \in Types |-> FALSE]
  /\ ymd' = 0
  /\ clock' = 0
  /\ todo' = <<>>
  /\ stage' = "decide"
  /\ off' = 0
  /\ day' = 0
  /\ cuts' = cuts + 1
  /\ UNCHANGED <<cached, cache, latest, faults>>

\* Between two boots the cache is lost: juxta_settings_init finds none.
LoseCache ==
  /\ "lost" \in Env
  /\ mode = "off" /\ cached
  /\ faults < MaxFaults
  /\ faults' = faults + 1
  /\ cached' = FALSE
  /\ cache' = <<>>
  /\ UNCHANGED <<nor, ramVars, opVars, clock, latest, cuts>>

-----------------------------------------------------------------------------
(* The specification. *)

Init ==
  /\ nor = [t \in Types |-> [i \in 0..(Size[t] - 1) |-> Blank]]
  /\ cached = FALSE
  /\ cache = <<>>
  /\ mode = "off"
  /\ files = <<>>
  /\ full = [t \in Types |-> FALSE]
  /\ ymd = 0
  /\ clock = 0
  /\ latest = 0
  /\ todo = <<>>
  /\ stage = "decide"
  /\ off = 0
  /\ day = 0
  /\ cuts = 0
  /\ faults = 0

EnsureStep ==
  \/ EnsureReturns \/ EnsureLatches \/ EnsureBegins
  \/ CloseOld \/ WriteHeader \/ WriteDayStart \/ SaveCache

Step ==
  \/ EnsureStep
  \/ AppendRow
  \/ RecordCalendarDay
  \/ EraseRegion
  \/ ClearTables

Boot == \E d \in 0..MaxDay : BootFromCache(d) \/ BootByScan(d) \/ BootFormats(d)

\* enter_hw_fault_indication blinks the LED and never returns.
FaultIndication == mode = "fault" /\ UNCHANGED vars

Next ==
  \/ Step
  \/ FaultIndication
  \/ WriteFails
  \/ SaveFails
  \/ Boot
  \/ \E t \in Types, n \in RowSizes : StartAppend(t, n)
  \/ \E t \in Types, d \in Days : FlushDraft(t, d)
  \/ StartFormat
  \/ \E d \in Days : SetClock(d)
  \/ PowerCut
  \/ LoseCache

Spec == Init /\ [][Next]_vars

\* A call, once started, runs on: the driver calls are synchronous and the
\* log mutex keeps other calls out until it returns.
FairSpec == Spec /\ WF_vars(Step)

-----------------------------------------------------------------------------
(* Properties. *)

\* Type correctness; no table of files, in RAM or in NVS, outgrows MaxFiles, and
\* every entry has a calendar day.
TypeOK ==
  /\ nor = [t \in Types |-> nor[t]]
  /\ \A t \in Types : nor[t] \in [0..(Size[t] - 1) -> Cell]
  /\ cached \in BOOLEAN
  /\ cache \in Tables
  /\ mode \in {"off", "init", "run", "fault"}
  /\ files \in Tables
  /\ full \in [Types -> BOOLEAN]
  /\ ymd \in 0..MaxDay
  /\ clock \in 0..MaxDay
  /\ latest \in 0..MaxDay
  /\ todo \in Seq(Tasks)
  /\ stage \in {"decide", "close", "header", "daystart", "save"}
  /\ off \in Nat
  /\ day \in 0..MaxDay
  /\ cuts \in 0..MaxCuts
  /\ faults \in 0..MaxFaults

\* No file, in RAM or in the NVS cache, reaches outside its region.
FilesInRegion ==
  \A fs \in {files, cache} : \A i \in DOMAIN fs : EndOf(fs[i]) <= Size[fs[i].t]

\* A day that touch_all_for_calendar_day remembers, and so never touches again, has
\* a file of each type in the table, whatever failed while they were opened and
\* however the clock moved; unless the region or the table had no room for it.
Touched(t, d) ==
  \/ full[t] \/ Len(files) >= MaxFiles
  \/ \E i \in DOMAIN files : files[i].t = t /\ files[i].day = d
RememberedDayHasFiles == ymd # 0 => \A t \in Types : Touched(t, ymd)

IsRow(t, i) == nor[t][i].k = "row"
Rows == {p \in UNION {{t} \X (0..(Size[t] - 1)) : t \in Types} : IsRow(p[1], p[2])}
Covering(t, i) == {f \in DOMAIN files : files[f].t = t /\ i \in Payload(files[f])}

\* Every dated row in flash is sent by exactly one file a gateway can ask for by
\* name, unless the file table is full: ensure_file then lets a row be appended
\* to a file whose rotation was cut, behind its end marker, where the next boot
\* does not look for it.  A row logged before the clock is set can end up there
\* too: ensure_file returns early on it.
RowsDeliverable ==
  Up /\ ~Formatting /\ Len(files) < MaxFiles =>
    \A p \in {q \in Rows : nor[q[1]][q[2]].d # 0} :
      /\ Cardinality(Covering(p[1], p[2])) = 1
      /\ \A f \in Covering(p[1], p[2]) : FindFile(p[1], files[f].day) = f

\* A dated row is in the file of its day, unless the file table is full.
RowsInFileOfTheirDay ==
  Up /\ ~Formatting /\ Len(files) < MaxFiles =>
    \A p \in Rows : \A f \in Covering(p[1], p[2]) :
      nor[p[1]][p[2]].d \in {0, files[f].day}

\* Once the day's files are open, RAM and flash agree on where each type's
\* next row goes: at the first erased cell.  A full table opens no file, and
\* leaves one whose rotation was cut as the cut left it.
AppendsAtFrontier ==
  Up /\ Idle /\ ymd # 0 /\ Len(files) < MaxFiles =>
    \A t \in Types : Slot(t) # 0 /\ ~full[t] => EndOf(files[Slot(t)]) = FirstErased(t)

\* Once ensure_file has passed its checks it opens the new file; it never stops
\* with the old one closed, unless power is cut or a flash operation fails.
RotationCompletes ==
  [][(stage = "close" \/ stage = "header") /\ stage' = "decide"
       => mode' = "off" \/ faults' # faults]_vars

\* The log implements RowJournal: the journal of a type is its rows where they
\* lie in flash.
Offsets == UNION {0..(Size[t] - 1) : t \in Types}
JournalOf(t) ==
  [i \in {j \in 0..(Size[t] - 1) : IsRow(t, j)} |-> nor[t][i].d]
Journal == INSTANCE RowJournal WITH journal <- [t \in Types |-> JournalOf(t)]
ImplementsJournal == Journal!Spec

\* A row, once written, is altered by nothing but the erasing of its region.
RowsNeverMutate ==
  [][\A p \in Rows : nor'[p[1]][p[2]] = nor[p[1]][p[2]] \/ Formatting]_vars

\* Every call finishes unless power is cut or a write fails; when it carries a
\* date, the day's files have been dealt with by then.
DatedCallsReachTheirDay ==
  (Doing("ensure") /\ day # 0) ~> (mode = "off" \/ ymd = day \/ faults > 0)

\* A closed file ends with the marker.
ClosedFilesEndWithEof ==
  Up /\ Idle =>
    \A i \in DOMAIN files :
      ~files[i].active => nor[files[i].t][EndOf(files[i]) - 1].k = "eof"

=============================================================================
