---------------------------- MODULE NorLogProofs ----------------------------
(***************************************************************************)
(* Proofs about NorLog, for every choice of types, region sizes and        *)
(* environment.  TypeOK is not inductive as it stands: a new table entry   *)
(* stays within MaxFiles only because ensure_file looked before it wrote,  *)
(* a scanned length is a number only because files lie inside their        *)
(* region, and the step after a decision finds the file it decided about.  *)
(* IInv adds those three facts.                                            *)
(*                                                                         *)
(* The second half is about where rows go, in a calm environment: the      *)
(* clock never goes back, flash and NVS do as they are told, and no cut    *)
(* interrupts an erasing.  LogInv relates the table in RAM, its copy in    *)
(* NVS and the flash at every step of a rotation: that a row goes to the   *)
(* first erased cell, and that a rotation once begun is finished, hold     *)
(* only because of what it says of the steps between.  DayInv adds which   *)
(* rows lie between the start of a file and that of the next, and SendInv  *)
(* which file sends a row, in RAM now and from NVS after the next boot.    *)
(* From the three follows that the log implements RowJournal: the next     *)
(* write of a region goes behind every dated row.                          *)
(*                                                                         *)
(* The end is about the remembered day, in any environment again: TouchInv *)
(* follows it from the ensuring of each type to the recording of the day.  *)
(***************************************************************************)
EXTENDS NorLog, TLAPS, SequenceTheorems, FiniteSetTheorems, WellFoundedInduction

\* What ensure_file established before it left stage "decide" still holds.
Committed ==
  /\ mode = "off" => todo = <<>>
  /\ stage # "decide" => Doing("ensure")
  /\ stage \in {"close", "header"} => Len(files) < MaxFiles /\ day \in Days
  /\ stage \in {"close", "daystart"} => Slot(Head(todo).t) # 0

IInv == TypeOK /\ FilesInRegion /\ Committed

-----------------------------------------------------------------------------
(* Flash cells and where they are. *)

LEMMA DayRange == Days \subseteq Nat /\ 0..MaxDay \subseteq Nat /\ Days \subseteq 0..MaxDay
BY BoundAssumption DEF Days

LEMMA CellKinds ==
  /\ Blank \in Cell /\ Smear \in Cell /\ Part \in Cell /\ Eof \in Cell /\ Cols \in Cell
  /\ \A d \in Days : Name(d) \in Cell
  /\ \A d \in 0..MaxDay : [k |-> "row", d |-> d] \in Cell /\ [k |-> "start", d |-> d] \in Cell
BY BoundAssumption DEF Blank, Smear, Part, Eof, Cols, Name, Cell, Kinds, Days

LEMMA HeaderType ==
  ASSUME NEW d \in Days
  PROVE  Header(d) \in Seq(Cell) /\ Len(Header(d)) = HeaderLen
BY CellKinds DEF Header, HeaderLen

LEMMA EofType == <<Eof>> \in Seq(Cell) /\ Len(<<Eof>>) = 1
BY CellKinds

LEMMA LineType ==
  ASSUME NEW d \in 0..MaxDay, NEW n \in Nat, NEW k \in {"row", "start"}
  PROVE  Line(k, d, n) \in Seq(Cell) /\ Len(Line(k, d, n)) = n
<1> DEFINE s == Line(k, d, n)
<1>1. s \in [1..n -> Cell]
  BY CellKinds DEF Line
<1>2. s \in Seq(Cell)
  BY <1>1, SeqDef
<1>3. Len(s) = n
  BY <1>1, <1>2, LenProperties
<1> QED BY <1>2, <1>3

\* Programming any cells anywhere leaves cells.
LEMMA ProgramType ==
  ASSUME NEW n \in Nat, NEW r \in [0..n -> Cell], NEW at \in Nat, NEW cells \in Seq(Cell)
  PROVE  Program(r, at, cells) \in [0..n -> Cell]
<1>1. ASSUME NEW i \in 0..n, i \in at..(at + Len(cells) - 1)
      PROVE  Overlay(r[i], cells[i - at + 1]) \in Cell
  <2>1. Len(cells) \in Nat
    BY LenProperties
  <2>2. i - at + 1 \in 1..Len(cells)
    BY <1>1, <2>1
  <2>3. cells[i - at + 1] \in Cell
    BY <2>2, ElementOfSeq
  <2> QED BY <2>3, CellKinds DEF Overlay
<1> QED BY <1>1 DEF Program

LEMMA TornType ==
  ASSUME NEW cells \in Seq(Cell), NEW c \in Torn(cells)
  PROVE  c \in Seq(Cell)
<1>0. Len(cells) \in Nat
  BY LenProperties
<1>1. ASSUME NEW n \in 0..(Len(cells) - 1)
      PROVE  SubSeq(cells, 1, n) \in Seq(Cell)
  <2>1. \A i \in 1..n : cells[i] \in Cell
    BY <1>0, ElementOfSeq
  <2>2. n \in Int
    BY <1>0
  <2> QED BY <2>1, <2>2, SubSeqProperties
<1>2. CASE \E n \in 0..(Len(cells) - 1) : c = SubSeq(cells, 1, n)
  BY <1>1, <1>2
<1>3. CASE \E n \in 0..(Len(cells) - 1) : c = Append(SubSeq(cells, 1, n), Part)
  BY <1>1, <1>3, CellKinds
<1> QED BY <1>2, <1>3 DEF Torn

\* The scans of the flash stay between where they start and the region's end.
LEMMA FirstAtBounds ==
  ASSUME NEW t \in Types, NEW from \in 0..Size[t], NEW ks
  PROVE  FirstAt(t, from, ks) \in from..Size[t]
BY SizeAssumption DEF FirstAt

LEMMA FileEndBounds ==
  ASSUME NEW t \in Types, NEW from \in 0..Size[t]
  PROVE  FileEnd(t, from) \in from..Size[t]
<1>1. FirstAt(t, from, {"blank", "eof"}) \in from..Size[t]
  BY FirstAtBounds
<1> QED BY <1>1, SizeAssumption DEF FileEnd

LEMMA FirstErasedBounds ==
  ASSUME NEW t \in Types
  PROVE  FirstErased(t) \in 0..Size[t]
BY FirstAtBounds, SizeAssumption DEF FirstErased

-----------------------------------------------------------------------------
(* Agendas. *)

LEMMA TaskTypes ==
  /\ SetYmd \in Tasks /\ Clear \in Tasks
  /\ \A t \in Types : Ensure(t) \in Tasks /\ Erase(t) \in Tasks
  /\ \A t \in Types, n \in Nat : AddRow(t, n) \in Tasks
BY OrderAssumption DEF SetYmd, Clear, Ensure, Erase, AddRow, Tasks

LEMMA EnsureAllType == EnsureAll \in Seq(Tasks)
<1>1. Len(TypeOrder) \in Nat /\ DOMAIN TypeOrder = 1..Len(TypeOrder)
  BY OrderAssumption, LenProperties
<1>2. EnsureAll \in [1..Len(TypeOrder) -> Tasks]
  BY <1>1, TaskTypes DEF EnsureAll, Types
<1> QED BY <1>1, <1>2, SeqDef

LEMMA FormatAllType == FormatAll \in Seq(Tasks)
<1> DEFINE erases == [i \in DOMAIN TypeOrder |-> Erase(TypeOrder[i])]
<1>1. Len(TypeOrder) \in Nat /\ DOMAIN TypeOrder = 1..Len(TypeOrder)
  BY OrderAssumption, LenProperties
<1>2. erases \in [1..Len(TypeOrder) -> Tasks]
  BY <1>1, TaskTypes DEF Types
<1>3. erases \in Seq(Tasks)
  BY <1>1, <1>2, SeqDef
<1> HIDE DEF erases
<1>4. Append(erases, Clear) \in Seq(Tasks)
  BY <1>3, TaskTypes
<1> QED BY <1>4 DEF FormatAll, erases

LEMMA AppendAgendaType ==
  ASSUME NEW t \in Types, NEW n \in Nat, NEW d, NEW today
  PROVE  AppendAgenda(t, n, d, today) \in Seq(Tasks)
<1> DEFINE touch == IF d # 0 /\ today # d THEN Append(EnsureAll, SetYmd) ELSE <<>>
           rest  == <<Ensure(t), AddRow(t, n)>>
<1>1. Append(EnsureAll, SetYmd) \in Seq(Tasks)
  BY EnsureAllType, TaskTypes
<1>2. touch \in Seq(Tasks)
  BY <1>1
<1>3. rest \in Seq(Tasks)
  BY TaskTypes
<1> HIDE DEF touch, rest
<1>4. touch \o rest \in Seq(Tasks)
  BY <1>2, <1>3, ConcatProperties
<1> QED BY <1>4 DEF AppendAgenda, touch, rest

LEMMA InitAgendaType ==
  ASSUME NEW d \in 0..MaxDay
  PROVE  InitAgenda(d) \in Seq(Tasks)
<1> DEFINE boot == AppendAgenda(Provenance, 1, d, d)
<1>1. Append(EnsureAll, SetYmd) \in Seq(Tasks)
  BY EnsureAllType, TaskTypes
<1>2. boot \in Seq(Tasks)
  BY OrderAssumption, AppendAgendaType
<1> HIDE DEF boot
<1>3. Append(EnsureAll, SetYmd) \o boot \in Seq(Tasks)
  BY <1>1, <1>2, ConcatProperties
<1> QED BY <1>3 DEF InitAgenda, boot

LEMMA HeadTask ==
  ASSUME todo \in Seq(Tasks), todo # <<>>
  PROVE  /\ Head(todo) \in Tasks /\ Tail(todo) \in Seq(Tasks)
         /\ Head(todo).t \in Types /\ Head(todo).n \in Nat
<1>1. Head(todo) \in Tasks /\ Tail(todo) \in Seq(Tasks)
  BY HeadTailProperties
<1> QED BY <1>1 DEF Tasks

-----------------------------------------------------------------------------
(* The table. *)

LEMMA SlotIndex ==
  ASSUME NEW t, Slot(t) # 0
  PROVE  Slot(t) \in DOMAIN files /\ files[Slot(t)].t = t
BY DEF Slot

LEMMA TableDomain ==
  ASSUME NEW fs \in Tables
  PROVE  /\ Len(fs) \in Nat /\ DOMAIN fs = 1..Len(fs)
         /\ fs \in [1..Len(fs) -> Entry] /\ Len(fs) <= MaxFiles
BY LenProperties DEF Tables

\* Resizing one file of a table gives a table.
LEMMA ResizeFile ==
  ASSUME NEW fs \in Tables, NEW s \in DOMAIN fs, NEW l \in Nat, NEW a \in BOOLEAN
  PROVE  /\ [fs EXCEPT ![s] = Resized(fs[s], l, a)] \in Tables
         /\ Len([fs EXCEPT ![s] = Resized(fs[s], l, a)]) = Len(fs)
<1>1. fs[s] \in Entry
  BY TableDomain
<1>2. Resized(fs[s], l, a) \in Entry
  BY <1>1 DEF Entry, Resized
<1>3. fs \in Seq(Entry) /\ s \in 1..Len(fs)
  BY TableDomain DEF Tables
<1> QED BY <1>2, <1>3, ExceptSeq, TableDomain DEF Tables

\* A new entry at the end of a table that is not full gives a table.
LEMMA AddEntry ==
  ASSUME NEW fs \in Tables, Len(fs) < MaxFiles, NEW e \in Entry
  PROVE  /\ Append(fs, e) \in Tables
         /\ Len(Append(fs, e)) = Len(fs) + 1
         /\ Append(fs, e)[Len(fs) + 1] = e
         /\ \A i \in 1..Len(fs) : Append(fs, e)[i] = fs[i]
<1>1. fs \in Seq(Entry) /\ Len(fs) \in Nat
  BY TableDomain DEF Tables
<1>2. Append(fs, e) \in Seq(Entry) /\ Len(Append(fs, e)) = Len(fs) + 1
  BY <1>1
<1>3. Append(fs, e)[Len(fs) + 1] = e /\ \A i \in 1..Len(fs) : Append(fs, e)[i] = fs[i]
  BY <1>1
<1> QED BY <1>1, <1>2, <1>3, SizeAssumption DEF Tables

LEMMA EmptyTable == <<>> \in Tables
BY SizeAssumption DEF Tables

-----------------------------------------------------------------------------
(* The write a step is about to make. *)

NorOK == nor = [t \in Types |-> nor[t]] /\ \A t \in Types : nor[t] \in [0..(Size[t] - 1) -> Cell]

LEMMA PendingType ==
  ASSUME IInv, HasPending
  PROVE  /\ Pending.t = Head(todo).t /\ Pending.t \in Types
         /\ Pending.at \in Nat /\ Pending.cells \in Seq(Cell)
         /\ stage = "close" =>
              Pending.at = EndOf(files[Slot(Head(todo).t)]) /\ Len(Pending.cells) = 1
         /\ stage = "header" => Pending.at = off /\ Len(Pending.cells) = HeaderLen
         /\ stage = "daystart" =>
              /\ Pending.at = EndOf(files[Slot(Head(todo).t)])
              /\ Len(Pending.cells) = DayStartLen
         /\ Doing("row") =>
              /\ Pending.at = EndOf(files[Slot(Head(todo).t)])
              /\ Len(Pending.cells) = Head(todo).n
<1>1. todo # <<>> /\ Head(todo).t \in Types /\ Head(todo).n \in Nat
  BY HeadTask DEF IInv, TypeOK, HasPending, Writing, Doing, Idle
<1>2. ASSUME Slot(Head(todo).t) # 0
      PROVE  EndOf(files[Slot(Head(todo).t)]) \in Nat
  <2>1. files[Slot(Head(todo).t)] \in Entry
    BY <1>2, SlotIndex, TableDomain DEF IInv, TypeOK
  <2> QED BY <2>1 DEF Entry, EndOf
<1>3. CASE stage = "close"
  <2>1. Slot(Head(todo).t) # 0
    BY <1>3 DEF IInv, Committed
  <2>2. Pending = [t |-> Head(todo).t, at |-> EndOf(files[Slot(Head(todo).t)]), cells |-> <<Eof>>]
    BY <1>3 DEF Pending
  <2>3. ~Doing("row")
    BY <1>3 DEF IInv, Committed, Doing
  <2> QED BY <1>1, <1>2, <1>3, <2>1, <2>2, <2>3, EofType
<1>4. CASE stage = "header"
  <2>1. day \in Days
    BY <1>4 DEF IInv, Committed
  <2>2. Pending = [t |-> Head(todo).t, at |-> off, cells |-> Header(day)]
    BY <1>4 DEF Pending
  <2>3. ~Doing("row")
    BY <1>4 DEF IInv, Committed, Doing
  <2> QED BY <1>1, <1>4, <2>1, <2>2, <2>3, HeaderType DEF IInv, TypeOK
<1>5. CASE stage = "daystart"
  <2>1. Slot(Head(todo).t) # 0
    BY <1>5 DEF IInv, Committed
  <2>2. Pending = [t |-> Head(todo).t, at |-> EndOf(files[Slot(Head(todo).t)]),
                   cells |-> Line("start", day, DayStartLen)]
    BY <1>5 DEF Pending
  <2>3. ~Doing("row")
    BY <1>5 DEF IInv, Committed, Doing
  <2>4. day \in 0..MaxDay /\ DayStartLen \in Nat
    BY RowAssumption DEF IInv, TypeOK
  <2> QED BY <1>1, <1>2, <1>5, <2>1, <2>2, <2>3, <2>4, LineType
<1>6. CASE stage \notin {"close", "header", "daystart"}
  <2>1. Slot(Head(todo).t) # 0
    BY <1>6 DEF HasPending, Writing
  <2>2. Pending = [t |-> Head(todo).t, at |-> EndOf(files[Slot(Head(todo).t)]),
                   cells |-> Line("row", day, Head(todo).n)]
    BY <1>6 DEF Pending
  <2>3. day \in 0..MaxDay
    BY DEF IInv, TypeOK
  <2> QED BY <1>1, <1>2, <1>6, <2>1, <2>2, <2>3, LineType
<1> QED BY <1>3, <1>4, <1>5, <1>6

\* A region of a flash that is all cells, programmed with cells, is all cells.
LEMMA ProgramRegion ==
  ASSUME NorOK, NEW t \in Types, NEW at \in Nat, NEW cells \in Seq(Cell),
         nor' = [nor EXCEPT ![t] = Program(nor[t], at, cells)]
  PROVE  NorOK' /\ \A u \in Types : u # t => nor'[u] = nor[u]
<1>1. Size[t] - 1 \in Nat
  BY SizeAssumption
<1>2. Program(nor[t], at, cells) \in [0..(Size[t] - 1) -> Cell]
  BY <1>1, ProgramType DEF NorOK
<1>3. DOMAIN nor = Types
  BY DEF NorOK
<1> QED BY <1>2, <1>3 DEF NorOK

LEMMA AllowedWrite ==
  ASSUME IInv, HasPending, Allowed
  PROVE  /\ NorOK'
         /\ Pending.at + Len(Pending.cells) <= Size[Head(todo).t]
         /\ ~full[Head(todo).t]
         /\ \A u \in Types : u # Head(todo).t => nor'[u] = nor[u]
<1>1. NorOK
  BY DEF IInv, TypeOK, NorOK
<1>2. nor' = [nor EXCEPT ![Pending.t] = Program(nor[Pending.t], Pending.at, Pending.cells)]
  BY DEF Allowed, GuardAllows
<1> QED BY <1>1, <1>2, PendingType, ProgramRegion DEF Allowed, GuardAllows, Fits

LEMMA ErasedCells ==
  ASSUME NorOK, NEW t \in Types, NEW n,
         nor' = [nor EXCEPT ![t] = EraseCells(nor[t], n)]
  PROVE  NorOK'
<1>1. EraseCells(nor[t], n) \in [0..(Size[t] - 1) -> Cell]
  BY CellKinds DEF EraseCells, NorOK
<1>2. DOMAIN nor = Types
  BY DEF NorOK
<1> QED BY <1>1, <1>2 DEF NorOK

\* Whatever an interruption leaves in flash is still cells, and only the type
\* being written or erased is touched.
LEMMA CutFlashType ==
  ASSUME IInv, nor' \in CutFlashes
  PROVE  /\ NorOK'
         /\ \A u \in Types : nor'[u] # nor[u] =>
              Doing("erase") \/ (u = Head(todo).t /\ ~full[u])
<1>0. NorOK
  BY DEF IInv, TypeOK, NorOK
<1>1. CASE nor' = nor
  BY <1>0, <1>1 DEF NorOK
<1>2. ASSUME Programming, NEW cells \in Torn(Pending.cells),
             nor' = [nor EXCEPT ![Pending.t] = Program(nor[Pending.t], Pending.at, cells)]
      PROVE  /\ NorOK'
             /\ \A u \in Types : nor'[u] # nor[u] => u = Head(todo).t /\ ~full[u]
  <2>1. HasPending /\ ~full[Pending.t]
    BY <1>2 DEF Programming
  <2>2. cells \in Seq(Cell)
    BY <1>2, <2>1, PendingType, TornType
  <2> QED BY <1>0, <1>2, <2>1, <2>2, PendingType, ProgramRegion
<1>3. ASSUME Doing("erase"), NEW n,
             nor' = [nor EXCEPT ![Head(todo).t] = EraseCells(nor[Head(todo).t], n)]
      PROVE  NorOK'
  <2>1. Head(todo).t \in Types
    BY <1>3, HeadTask DEF IInv, TypeOK, Doing, Idle
  <2> QED BY <1>0, <1>3, <2>1, ErasedCells
<1> QED BY <1>1, <1>2, <1>3 DEF CutFlashes

-----------------------------------------------------------------------------
(* Each step preserves IInv. *)

\* A table whose files lie in their regions.
Inside(fs) == fs \in Tables /\ \A i \in DOMAIN fs : EndOf(fs[i]) <= Size[fs[i].t]

\* Growing a file by what fits behind it keeps the table inside the regions.
LEMMA GrowInside ==
  ASSUME Inside(files), NEW s \in DOMAIN files, NEW n \in Nat, NEW a \in BOOLEAN,
         EndOf(files[s]) + n <= Size[files[s].t]
  PROVE  Inside(Grow(s, n, a)) /\ Len(Grow(s, n, a)) = Len(files)
<1>1. files \in Tables /\ files[s] \in Entry
  BY TableDomain DEF Inside
<1>2. files[s].len + n \in Nat
  BY <1>1 DEF Entry
<1>3. Grow(s, n, a) \in Tables /\ Len(Grow(s, n, a)) = Len(files)
  BY <1>1, <1>2, ResizeFile DEF Grow
<1>4. ASSUME NEW i \in DOMAIN files
      PROVE  EndOf(Grow(s, n, a)[i]) <= Size[Grow(s, n, a)[i].t]
  <2>1. CASE i = s
    BY <1>1, <2>1 DEF Grow, Resized, EndOf, Entry
  <2>2. CASE i # s
    BY <2>2 DEF Grow, Inside
  <2> QED BY <2>1, <2>2
<1>5. DOMAIN Grow(s, n, a) = DOMAIN files
  BY DEF Grow
<1> QED BY <1>3, <1>4, <1>5 DEF Inside

LEMMA InsideTables == IInv => Inside(files) /\ Inside(cache) /\ NorOK
BY DEF IInv, TypeOK, FilesInRegion, Inside, NorOK

\* The file the head task is about, when there is one.
LEMMA CurrentFile ==
  ASSUME IInv, HasPending, stage # "header"
  PROVE  /\ Slot(Head(todo).t) \in DOMAIN files
         /\ files[Slot(Head(todo).t)].t = Head(todo).t
         /\ files[Slot(Head(todo).t)] \in Entry
<1>1. Slot(Head(todo).t) # 0
  BY DEF IInv, Committed, HasPending, Writing
<1> QED BY <1>1, SlotIndex, TableDomain DEF IInv, TypeOK

LEMMA EnsureReturnsKeeps == IInv /\ EnsureReturns => IInv'
<1> SUFFICES ASSUME IInv, EnsureReturns PROVE IInv'
  OBVIOUS
<1>1. Tail(todo) \in Seq(Tasks)
  BY HeadTask DEF IInv, TypeOK, EnsureReturns, Deciding, Doing, Idle
<1> QED BY <1>1 DEF IInv, TypeOK, FilesInRegion, Committed, EnsureReturns, Deciding, TaskDone,
          flashVars, ramVars, envVars, Doing, Idle

LEMMA EnsureLatchesKeeps == IInv /\ EnsureLatches => IInv'
<1> SUFFICES ASSUME IInv, EnsureLatches PROVE IInv'
  OBVIOUS
<1>1. Tail(todo) \in Seq(Tasks) /\ Head(todo).t \in Types
  BY HeadTask DEF IInv, TypeOK, EnsureLatches, Deciding, Doing, Idle
<1> QED BY <1>1 DEF IInv, TypeOK, FilesInRegion, Committed, EnsureLatches, Deciding, TaskDone,
          flashVars, envVars, Doing, Idle, EnsureType

LEMMA EnsureBeginsKeeps == IInv /\ EnsureBegins => IInv'
<1> SUFFICES ASSUME IInv, EnsureBegins PROVE IInv'
  OBVIOUS
<1>1. Head(todo).t \in Types
  BY HeadTask DEF IInv, TypeOK, EnsureBegins, Deciding, Doing, Idle
<1>2. FirstErased(Head(todo).t) \in Nat
  BY <1>1, FirstErasedBounds, SizeAssumption
<1>3. Len(files) \in Nat /\ Len(files) < MaxFiles /\ day \in Days
  BY TableDomain, SizeAssumption, BoundAssumption
     DEF IInv, TypeOK, EnsureBegins, NothingToEnsure, Days
<1>4. Doing("ensure") /\ todo # <<>>
  BY DEF EnsureBegins, Deciding, Doing, Idle
<1>5. TypeOK'
  BY <1>2 DEF IInv, TypeOK, EnsureBegins, EnsureType, flashVars, ramVars, envVars
<1>6. FilesInRegion'
  BY DEF IInv, FilesInRegion, EnsureBegins, EndOf, flashVars, ramVars
<1>7. Committed'
  <2>1. Slot(Head(todo).t)' = Slot(Head(todo).t)
    BY DEF Slot, EnsureBegins, ramVars
  <2> QED BY <1>3, <1>4, <2>1 DEF IInv, Committed, EnsureBegins, EnsureType, Doing, Idle, ramVars
<1> QED BY <1>5, <1>6, <1>7 DEF IInv

\* What a refused write does, whichever step makes it.
LEMMA RefusedKeeps ==
  ASSUME IInv, HasPending, Refused
  PROVE  /\ NorOK' /\ Inside(files)' /\ Inside(cache)'
         /\ full' \in [Types -> BOOLEAN]
         /\ Tail(todo) \in Seq(Tasks) /\ todo # <<>>
<1>1. todo # <<>> /\ Tail(todo) \in Seq(Tasks)
  BY HeadTask DEF IInv, TypeOK, HasPending, Writing, Doing, Idle
<1>2. NorOK' /\ Inside(files)' /\ Inside(cache)'
  BY InsideTables DEF Refused, GuardRefuses, flashVars, NorOK, Inside, EndOf
<1>3. full' \in [Types -> BOOLEAN]
  BY PendingType DEF Refused, GuardRefuses, IInv, TypeOK
<1> QED BY <1>1, <1>2, <1>3

\* TypeOK and FilesInRegion, taken apart the way the steps disturb them.
OpOK ==
  /\ mode \in {"off", "init", "run", "fault"}
  /\ todo \in Seq(Tasks)
  /\ stage \in {"decide", "close", "header", "daystart", "save"}
  /\ off \in Nat
  /\ day \in 0..MaxDay
CountsOK ==
  /\ clock \in 0..MaxDay
  /\ latest \in 0..MaxDay
  /\ cuts \in 0..MaxCuts
  /\ faults \in 0..MaxFaults
FlagsOK == cached \in BOOLEAN /\ full \in [Types -> BOOLEAN] /\ ymd \in 0..MaxDay

LEMMA Parts ==
  IInv <=> /\ NorOK /\ Inside(files) /\ Inside(cache)
           /\ OpOK /\ CountsOK /\ FlagsOK /\ Committed
BY DEF IInv, TypeOK, FilesInRegion, NorOK, Inside, OpOK, CountsOK, FlagsOK

LEMMA PartsPrimed ==
  IInv' <=> /\ NorOK' /\ Inside(files)' /\ Inside(cache)'
            /\ OpOK' /\ CountsOK' /\ FlagsOK' /\ Committed'
BY DEF IInv, TypeOK, FilesInRegion, NorOK, Inside, OpOK, CountsOK, FlagsOK

\* A refused write that ends its task.
LEMMA RefusedTaskKeeps ==
  ASSUME IInv, HasPending, Refused, TaskDone
  PROVE  IInv'
<1>1. NorOK' /\ Inside(files)' /\ Inside(cache)'
  BY RefusedKeeps
<1>2. OpOK'
  BY Parts, RefusedKeeps DEF OpOK, TaskDone, Refused, GuardRefuses
<1>3. CountsOK'
  BY Parts DEF CountsOK, Refused, GuardRefuses, envVars
<1>4. FlagsOK'
  BY Parts, RefusedKeeps DEF FlagsOK, Refused, GuardRefuses, flashVars
<1>5. mode # "off"
  BY RefusedKeeps, Parts DEF Committed
<1>6. Committed'
  BY <1>5 DEF Committed, TaskDone, Refused, GuardRefuses
<1> QED BY <1>1, <1>2, <1>3, <1>4, <1>6, PartsPrimed

LEMMA CloseOldKeeps == IInv /\ CloseOld => IInv'
<1> SUFFICES ASSUME IInv, CloseOld PROVE IInv'
  OBVIOUS
<1>0. HasPending /\ stage = "close" /\ Doing("ensure") /\ todo # <<>>
  BY DEF CloseOld, HasPending, Writing, Doing, Idle
<1>1. CASE Refused /\ TaskDone
  BY <1>0, <1>1, RefusedTaskKeeps
<1>2. CASE /\ Allowed
           /\ files' = Grow(Slot(EnsureType), 1, FALSE)
           /\ stage' = "header"
           /\ UNCHANGED <<cached, cache, mode, full, ymd, todo, off, day, envVars>>
  <2>1. /\ Slot(EnsureType) \in DOMAIN files
        /\ EndOf(files[Slot(EnsureType)]) + 1 <= Size[files[Slot(EnsureType)].t]
    BY <1>0, <1>2, AllowedWrite, PendingType, CurrentFile DEF EnsureType
  <2>2. Inside(files') /\ Len(files') = Len(files)
    BY <1>2, <2>1, GrowInside, InsideTables
  <2>3. NorOK'
    BY <1>0, <1>2, AllowedWrite
  <2>4. Inside(cache)' /\ OpOK' /\ CountsOK' /\ FlagsOK'
    BY <1>2, Parts DEF Inside, EndOf, OpOK, CountsOK, FlagsOK, envVars
  <2>5. Committed'
    BY <1>0, <1>2, <2>2, Parts DEF Committed, Doing, Idle
  <2> QED BY <2>2, <2>3, <2>4, <2>5, PartsPrimed DEF Inside
<1> QED BY <1>1, <1>2 DEF CloseOld

LEMMA WriteHeaderKeeps == IInv /\ WriteHeader => IInv'
<1> SUFFICES ASSUME IInv, WriteHeader PROVE IInv'
  OBVIOUS
<1>0. HasPending /\ stage = "header" /\ Doing("ensure") /\ todo # <<>>
  BY DEF WriteHeader, HasPending, Writing, Doing, Idle
<1>1. CASE Refused /\ TaskDone
  BY <1>0, <1>1, RefusedTaskKeeps
<1>2. CASE /\ Allowed
           /\ files' = Append(files, [t |-> EnsureType, day |-> day, off |-> off,
                                      len |-> HeaderLen, active |-> TRUE])
           /\ stage' = IF EnsureType = Provenance THEN "daystart" ELSE "save"
           /\ UNCHANGED <<cached, cache, mode, full, ymd, todo, off, day, envVars>>
  <2> DEFINE e == [t |-> EnsureType, day |-> day, off |-> off,
                   len |-> HeaderLen, active |-> TRUE]
  <2>1. /\ EnsureType \in Types /\ day \in Days /\ off \in Nat
        /\ Len(files) < MaxFiles /\ Inside(files)
        /\ off + HeaderLen <= Size[EnsureType]
    BY <1>0, <1>2, AllowedWrite, PendingType, Parts DEF Committed, OpOK, EnsureType
  <2>2. e \in Entry /\ EndOf(e) <= Size[e.t] /\ e.t = EnsureType
    BY <2>1 DEF Entry, EndOf, HeaderLen
  <2> HIDE DEF e
  <2>3. files \in Tables /\ files' = Append(files, e)
    BY <1>2, <2>1 DEF Inside, e
  <2>4. /\ files' \in Tables /\ Len(files') = Len(files) + 1
        /\ files'[Len(files) + 1] = e
        /\ \A i \in 1..Len(files) : files'[i] = files[i]
    BY <2>1, <2>2, <2>3, AddEntry
  <2>5. DOMAIN files' = 1..(Len(files) + 1) /\ DOMAIN files = 1..Len(files) /\ Len(files) \in Nat
    BY <2>3, <2>4, TableDomain
  <2>6. Inside(files)'
    <3>1. ASSUME NEW i \in 1..(Len(files) + 1)
          PROVE  EndOf(files'[i]) <= Size[files'[i].t]
      <4>1. CASE i = Len(files) + 1
        BY <2>2, <2>4, <4>1
      <4>2. CASE i \in 1..Len(files)
        BY <2>1, <2>4, <2>5, <4>2 DEF Inside
      <4> QED BY <2>5, <4>1, <4>2
    <3> QED BY <2>4, <2>5, <3>1 DEF Inside
  <2>7. Slot(EnsureType)' # 0
    <3>1. Len(files) + 1 \in {i \in DOMAIN files' : /\ files'[i].t = EnsureType
                               /\ \A j \in DOMAIN files' : j > i => files'[j].t # EnsureType}
      BY <2>2, <2>4, <2>5
    <3>2. \A i \in DOMAIN files' : i # 0
      BY <2>5
    <3>3. EnsureType' = EnsureType
      BY <1>2 DEF EnsureType
    <3> QED BY <3>1, <3>2, <3>3 DEF Slot
  <2>8. NorOK'
    BY <1>0, <1>2, AllowedWrite
  <2>9. Inside(cache)' /\ OpOK' /\ CountsOK' /\ FlagsOK'
    BY <1>2, Parts DEF Inside, EndOf, OpOK, CountsOK, FlagsOK, envVars
  <2>10. Committed'
    BY <1>0, <1>2, <2>7, Parts DEF Committed, Doing, Idle, EnsureType
  <2> QED BY <2>6, <2>8, <2>9, <2>10, PartsPrimed
<1> QED BY <1>1, <1>2 DEF WriteHeader

LEMMA WriteDayStartKeeps == IInv /\ WriteDayStart => IInv'
<1> SUFFICES ASSUME IInv, WriteDayStart PROVE IInv'
  OBVIOUS
<1>0. HasPending /\ stage = "daystart" /\ Doing("ensure") /\ todo # <<>>
  BY DEF WriteDayStart, HasPending, Writing, Doing, Idle
<1>1. OpOK'
  BY <1>0, Parts DEF OpOK, WriteDayStart, Refused, GuardRefuses
<1>2. CASE Refused
  <2>1. NorOK' /\ Inside(files)' /\ Inside(cache)'
    BY <1>0, <1>2, RefusedKeeps
  <2>2. CountsOK' /\ FlagsOK'
    BY <1>0, <1>2, Parts, RefusedKeeps
       DEF CountsOK, FlagsOK, Refused, GuardRefuses, flashVars, envVars
  <2>3. Committed'
    BY <1>0, <1>2, Parts DEF Committed, WriteDayStart, Refused, GuardRefuses, Doing, Idle
  <2> QED BY <1>1, <2>1, <2>2, <2>3, PartsPrimed
<1>3. CASE /\ Allowed
           /\ files' = Grow(Slot(EnsureType), DayStartLen, TRUE)
           /\ UNCHANGED <<cached, cache, mode, full, ymd, envVars>>
  <2>1. /\ Slot(EnsureType) \in DOMAIN files
        /\ EndOf(files[Slot(EnsureType)]) + DayStartLen <= Size[files[Slot(EnsureType)].t]
    BY <1>0, <1>3, AllowedWrite, PendingType, CurrentFile DEF EnsureType
  <2>2. Inside(files')
    BY <1>3, <2>1, GrowInside, InsideTables, RowAssumption
  <2>3. NorOK'
    BY <1>0, <1>3, AllowedWrite
  <2>4. Inside(cache)' /\ CountsOK' /\ FlagsOK'
    BY <1>3, Parts DEF Inside, EndOf, CountsOK, FlagsOK, envVars
  <2>5. Committed'
    BY <1>0, <1>3, Parts DEF WriteDayStart, Committed, Doing, Idle
  <2> QED BY <1>1, <2>2, <2>3, <2>4, <2>5, PartsPrimed DEF Inside
<1> QED BY <1>2, <1>3 DEF WriteDayStart

LEMMA SaveCacheKeeps == IInv /\ SaveCache => IInv'
<1> SUFFICES ASSUME IInv, SaveCache PROVE IInv'
  OBVIOUS
<1>1. Tail(todo) \in Seq(Tasks) /\ todo # <<>>
  BY HeadTask, Parts DEF OpOK, SaveCache, Writing, Doing, Idle
<1>2. NorOK' /\ Inside(files)' /\ Inside(cache)'
  BY Parts DEF NorOK, Inside, EndOf, SaveCache, ramVars
<1>3. OpOK' /\ CountsOK' /\ FlagsOK'
  BY <1>1, Parts DEF OpOK, CountsOK, FlagsOK, SaveCache, TaskDone, ramVars, envVars
<1>4. Committed'
  BY <1>1, Parts DEF Committed, SaveCache, TaskDone, ramVars
<1> QED BY <1>2, <1>3, <1>4, PartsPrimed

\* A call that fails leaves the agenda empty.
LEMMA CallFailsKeeps ==
  ASSUME IInv, CallFails, todo # <<>>
  PROVE  OpOK' /\ Committed' /\ UNCHANGED <<files, full, ymd>>
<1>1. OpOK'
  BY Parts, EmptySeq DEF OpOK, CallFails
<1>2. Committed'
  BY DEF Committed, CallFails
<1> QED BY <1>1, <1>2 DEF CallFails

LEMMA AppendRowKeeps == IInv /\ AppendRow => IInv'
<1> SUFFICES ASSUME IInv, AppendRow PROVE IInv'
  OBVIOUS
<1> DEFINE s == Slot(Head(todo).t)
<1>0. Doing("row") /\ todo # <<>> /\ stage = "decide"
  BY Parts DEF AppendRow, Committed, Doing, Idle, OpOK
<1>1. CASE s = 0 /\ CallFails /\ UNCHANGED <<flashVars, envVars>>
  <2>1. OpOK' /\ Committed' /\ UNCHANGED <<files, full, ymd>>
    BY <1>0, <1>1, CallFailsKeeps
  <2>2. NorOK' /\ Inside(files)' /\ Inside(cache)' /\ CountsOK' /\ FlagsOK'
    BY <1>1, <2>1, Parts DEF NorOK, Inside, EndOf, CountsOK, FlagsOK, flashVars, envVars
  <2> QED BY <2>1, <2>2, PartsPrimed
<1>2. CASE s # 0 /\ Refused /\ TaskDone
  BY <1>0, <1>2, RefusedTaskKeeps DEF HasPending
<1>3. CASE /\ s # 0
           /\ Allowed
           /\ files' = Grow(s, Head(todo).n, files[s].active)
           /\ TaskDone
           /\ UNCHANGED <<cached, cache, mode, full, ymd, envVars>>
  <2>0. HasPending
    BY <1>0, <1>3 DEF HasPending
  <2>1. s \in DOMAIN files /\ files[s].t = Head(todo).t /\ files[s] \in Entry
    BY <1>0, <2>0, CurrentFile
  <2>2. EndOf(files[s]) + Head(todo).n <= Size[files[s].t]
    BY <1>0, <1>3, <2>0, <2>1, AllowedWrite, PendingType
  <2>3. Head(todo).n \in Nat /\ files[s].active \in BOOLEAN /\ Tail(todo) \in Seq(Tasks)
    BY <1>0, <2>1, HeadTask, Parts DEF Entry, OpOK
  <2>4. Inside(files')
    BY <1>3, <2>1, <2>2, <2>3, GrowInside, InsideTables
  <2>5. NorOK'
    BY <1>3, <2>0, AllowedWrite
  <2>6. Inside(cache)' /\ CountsOK' /\ FlagsOK'
    BY <1>3, Parts DEF Inside, EndOf, CountsOK, FlagsOK, envVars
  <2>7. OpOK'
    BY <1>3, <2>3, Parts DEF OpOK, TaskDone
  <2>8. Committed'
    BY <1>0, <1>3, Parts DEF Committed, TaskDone
  <2> QED BY <2>4, <2>5, <2>6, <2>7, <2>8, PartsPrimed DEF Inside
<1> QED BY <1>1, <1>2, <1>3 DEF AppendRow

LEMMA RecordCalendarDayKeeps == IInv /\ RecordCalendarDay => IInv'
<1> SUFFICES ASSUME IInv, RecordCalendarDay PROVE IInv'
  OBVIOUS
<1>1. Tail(todo) \in Seq(Tasks) /\ todo # <<>>
  BY HeadTask, Parts DEF OpOK, RecordCalendarDay, Doing, Idle
<1>2. NorOK' /\ Inside(files)' /\ Inside(cache)'
  BY Parts DEF NorOK, Inside, EndOf, RecordCalendarDay, flashVars
<1>3. OpOK' /\ CountsOK' /\ FlagsOK'
  BY <1>1, Parts DEF OpOK, CountsOK, FlagsOK, RecordCalendarDay, TaskDone, flashVars, envVars
<1>4. Committed'
  BY <1>1, Parts DEF Committed, RecordCalendarDay, TaskDone
<1> QED BY <1>2, <1>3, <1>4, PartsPrimed

LEMMA EraseRegionKeeps == IInv /\ EraseRegion => IInv'
<1> SUFFICES ASSUME IInv, EraseRegion PROVE IInv'
  OBVIOUS
<1>1. Tail(todo) \in Seq(Tasks) /\ todo # <<>> /\ Head(todo).t \in Types
  BY HeadTask, Parts DEF OpOK, EraseRegion, Doing, Idle
<1>2. NorOK'
  BY <1>1, ErasedCells, Parts DEF EraseRegion
<1>3. Inside(files)' /\ Inside(cache)'
  BY Parts DEF Inside, EndOf, EraseRegion, ramVars
<1>4. OpOK' /\ CountsOK' /\ FlagsOK'
  BY <1>1, Parts DEF OpOK, CountsOK, FlagsOK, EraseRegion, TaskDone, ramVars, envVars
<1>5. Committed'
  BY <1>1, Parts DEF Committed, EraseRegion, TaskDone, ramVars
<1> QED BY <1>2, <1>3, <1>4, <1>5, PartsPrimed

LEMMA InsideEmpty == Inside(<<>>)
BY EmptyTable DEF Inside

LEMMA NoneFull == [t \in Types |-> FALSE] \in [Types -> BOOLEAN]
OBVIOUS

LEMMA ClearTablesKeeps == IInv /\ ClearTables => IInv'
<1> SUFFICES ASSUME IInv, ClearTables PROVE IInv'
  OBVIOUS
<1>1. Tail(todo) \in Seq(Tasks) /\ todo # <<>>
  BY HeadTask, Parts DEF OpOK, ClearTables, Doing, Idle
<1>2. NorOK'
  BY Parts DEF NorOK, ClearTables
<1>3. Inside(files') /\ Inside(cache')
  BY InsideEmpty DEF ClearTables
<1>4. OpOK' /\ CountsOK'
  BY <1>1, Parts DEF OpOK, CountsOK, ClearTables, TaskDone, envVars
<1>6. FlagsOK'
  <2>1. cached' \in BOOLEAN
    BY DEF ClearTables
  <2>2. ymd' \in 0..MaxDay
    BY BoundAssumption DEF ClearTables
  <2>3. full' \in [Types -> BOOLEAN]
    BY NoneFull DEF ClearTables
  <2> QED BY <2>1, <2>2, <2>3 DEF FlagsOK
<1>5. Committed'
  BY <1>1, Parts DEF Committed, ClearTables, TaskDone
<1> QED BY <1>2, <1>3, <1>4, <1>5, <1>6, PartsPrimed DEF Inside

LEMMA WriteFailsKeeps == IInv /\ WriteFails => IInv'
<1> SUFFICES ASSUME IInv, WriteFails PROVE IInv'
  OBVIOUS
<1>1. todo # <<>>
  BY DEF WriteFails, Programming, HasPending, Writing, Doing, Idle
<1>2. OpOK' /\ Committed' /\ UNCHANGED <<files, full, ymd>>
  BY <1>1, CallFailsKeeps DEF WriteFails
<1>3. NorOK'
  BY CutFlashType DEF WriteFails
<1>4. Inside(files)' /\ Inside(cache)' /\ CountsOK' /\ FlagsOK'
  BY <1>2, BoundAssumption, Parts DEF Inside, EndOf, CountsOK, FlagsOK, WriteFails
<1> QED BY <1>2, <1>3, <1>4, PartsPrimed

LEMMA SaveFailsKeeps == IInv /\ SaveFails => IInv'
<1> SUFFICES ASSUME IInv, SaveFails PROVE IInv'
  OBVIOUS
<1>1. Tail(todo) \in Seq(Tasks) /\ todo # <<>>
  BY HeadTask, Parts DEF OpOK, SaveFails, Writing, Doing, Idle
<1>2. NorOK' /\ Inside(files)' /\ Inside(cache)'
  BY Parts DEF NorOK, Inside, EndOf, SaveFails, SaveGoesWrong, ramVars
<1>3. OpOK' /\ CountsOK' /\ FlagsOK'
  BY <1>1, BoundAssumption, Parts
     DEF OpOK, CountsOK, FlagsOK, SaveFails, SaveGoesWrong, TaskDone, ramVars
<1>4. Committed'
  BY <1>1, Parts DEF Committed, SaveFails, TaskDone, ramVars
<1> QED BY <1>2, <1>3, <1>4, PartsPrimed

\* A new call starts where the last one has finished.
LEMMA CallKeeps ==
  ASSUME IInv, todo = <<>>, NEW agenda \in Seq(Tasks), NEW d \in 0..MaxDay, Call(agenda, d),
         mode' \in {"init", "run"}
  PROVE  OpOK' /\ Committed' /\ stage = "decide"
<1>1. stage = "decide"
  BY Parts DEF Committed, Doing, Idle, OpOK
<1> QED BY <1>1, Parts DEF OpOK, Committed, Call

LEMMA CallsKeeps ==
  ASSUME IInv, NEW agenda \in Seq(Tasks), NEW d \in 0..MaxDay, Calls(agenda, d)
  PROVE  IInv'
<1>1. OpOK' /\ Committed'
  BY CallKeeps DEF Calls, Idle
<1>2. NorOK' /\ Inside(files)' /\ Inside(cache)' /\ CountsOK' /\ FlagsOK'
  BY Parts DEF NorOK, Inside, EndOf, CountsOK, FlagsOK, Calls, flashVars, envVars
<1> QED BY <1>1, <1>2, PartsPrimed

LEMMA StartsKeep ==
  IInv /\ (\/ \E t \in Types, n \in RowSizes : StartAppend(t, n)
           \/ \E t \in Types, d \in Days : FlushDraft(t, d)
           \/ StartFormat) => IInv'
<1> USE Parts DEF CountsOK
<1>1. ASSUME IInv, NEW t \in Types, NEW n \in RowSizes, StartAppend(t, n)
      PROVE  IInv'
  BY <1>1, AppendAgendaType, CallsKeeps, RowAssumption DEF StartAppend
<1>2. ASSUME IInv, NEW t \in Types, NEW d \in Days, FlushDraft(t, d)
      PROVE  IInv'
  BY <1>2, AppendAgendaType, CallsKeeps, DayRange DEF FlushDraft
<1>3. ASSUME IInv, StartFormat
      PROVE  IInv'
  BY <1>3, FormatAllType, CallsKeeps DEF StartFormat
<1> QED BY <1>1, <1>2, <1>3

-----------------------------------------------------------------------------
(* Boot and the environment. *)

\* Reconciling a table that lies inside the regions gives another such table.
LEMMA ReconcileInside ==
  ASSUME NEW fs, Inside(fs)
  PROVE  Inside(Reconcile(fs))
<1>1. fs \in Tables /\ Len(fs) \in Nat /\ DOMAIN fs = 1..Len(fs) /\ Len(fs) <= MaxFiles
  BY TableDomain DEF Inside
<1>2. ASSUME NEW i \in 1..Len(fs)
      PROVE  /\ Reconcile(fs)[i] \in Entry
             /\ EndOf(Reconcile(fs)[i]) <= Size[Reconcile(fs)[i].t]
  <2>1. fs[i] \in Entry /\ EndOf(fs[i]) <= Size[fs[i].t]
    BY <1>1, TableDomain DEF Inside
  <2>2. fs[i].t \in Types /\ fs[i].off \in 0..Size[fs[i].t]
    BY <2>1, SizeAssumption DEF Entry, EndOf
  <2>3. FileEnd(fs[i].t, fs[i].off) \in fs[i].off..Size[fs[i].t]
    BY <2>2, FileEndBounds
  <2> DEFINE l == FileEnd(fs[i].t, fs[i].off) - fs[i].off
  <2>4. l \in Nat /\ fs[i].off + l <= Size[fs[i].t]
    BY <2>2, <2>3, SizeAssumption
  <2> HIDE DEF l
  <2>5. /\ Resized(fs[i], l, TRUE) \in Entry
        /\ EndOf(Resized(fs[i], l, TRUE)) <= Size[Resized(fs[i], l, TRUE).t]
    BY <2>1, <2>4 DEF Entry, EndOf, Resized
  <2>6. Reconcile(fs)[i] = IF fs[i].active THEN Resized(fs[i], l, TRUE) ELSE fs[i]
    BY <1>1 DEF Reconcile, l
  <2> QED BY <2>1, <2>5, <2>6
<1>3. Reconcile(fs) \in [1..Len(fs) -> Entry] /\ DOMAIN Reconcile(fs) = 1..Len(fs)
  <2>1. Reconcile(fs) = [i \in 1..Len(fs) |-> Reconcile(fs)[i]]
    BY <1>1 DEF Reconcile
  <2> QED BY <1>2, <2>1
<1>4. Reconcile(fs) \in Seq(Entry)
  BY <1>1, <1>3, SeqDef
<1>5. Len(Reconcile(fs)) = Len(fs)
  BY <1>1, <1>3, <1>4, LenProperties
<1> QED BY <1>1, <1>2, <1>3, <1>4, <1>5 DEF Inside, Tables

\* What a scan recovers is a table inside the regions.
LEMMA ScanInside ==
  ASSUME NorOK, Recoverable, NEW s \in [1..Cardinality(Starts) -> Starts]
  PROVE  Inside([i \in DOMAIN s |-> RecoveredEntry(s[i])])
<1> DEFINE n  == Cardinality(Starts)
           fs == [i \in DOMAIN s |-> RecoveredEntry(s[i])]
<1>1. n \in 0..MaxFiles /\ DOMAIN s = 1..n
  BY DEF Recoverable
<1>2. ASSUME NEW p \in Starts
      PROVE  RecoveredEntry(p) \in Entry /\ EndOf(RecoveredEntry(p)) <= Size[RecoveredEntry(p).t]
  <2>1. p[1] \in Types /\ p[2] \in 0..(Size[p[1]] - 1)
    BY DEF Starts
  <2>2. nor[p[1]][p[2]] \in Cell /\ nor[p[1]][p[2]].k = "name"
    BY <2>1 DEF NorOK, Recoverable
  <2>3. nor[p[1]][p[2]].d \in Days
    BY <2>2 DEF Cell
  <2>4. p[2] \in 0..Size[p[1]] /\ p[2] \in Nat /\ Size[p[1]] \in Nat
    BY <2>1, SizeAssumption
  <2>5. FileEnd(p[1], p[2]) \in p[2]..Size[p[1]]
    BY <2>1, <2>4, FileEndBounds
  <2> DEFINE e == FileEnd(p[1], p[2])
  <2>6. e - p[2] \in Nat /\ p[2] + (e - p[2]) <= Size[p[1]]
    BY <2>4, <2>5
  <2> HIDE DEF e
  <2>7. RecoveredEntry(p) =
          [t |-> p[1], day |-> nor[p[1]][p[2]].d, off |-> p[2], len |-> e - p[2],
           active |-> nor[p[1]][e - 1].k # "eof"]
    BY DEF RecoveredEntry, e
  <2> QED BY <2>1, <2>3, <2>4, <2>6, <2>7 DEF Entry, EndOf
<1>3. fs \in [1..n -> Entry]
  BY <1>1, <1>2
<1>4. fs \in Seq(Entry) /\ Len(fs) = n
  BY <1>1, <1>3, SeqDef, LenProperties
<1>5. \A i \in DOMAIN fs : EndOf(fs[i]) <= Size[fs[i].t]
  BY <1>1, <1>2
<1> QED BY <1>1, <1>4, <1>5 DEF Inside, Tables

\* Every boot, whatever table it finds.
LEMMA BootKeeps ==
  ASSUME IInv, NEW d \in 0..MaxDay, Booting(d), NEW agenda \in Seq(Tasks), Call(agenda, d),
         Inside(files'), Inside(cache'), cached' \in BOOLEAN, faults' \in 0..MaxFaults
  PROVE  IInv'
<1>1. todo = <<>> /\ mode' = "init"
  BY Parts DEF Booting, Committed
<1>2. OpOK' /\ Committed'
  BY <1>1, CallKeeps
<1>3. NorOK'
  BY Parts DEF NorOK, Booting
<1>4. CountsOK' /\ FlagsOK'
  BY Parts DEF CountsOK, FlagsOK, Booting
<1> QED BY <1>2, <1>3, <1>4, PartsPrimed DEF Inside

LEMMA BootsKeep == IInv /\ Boot => IInv'
<1>1. ASSUME IInv, NEW d \in 0..MaxDay, BootFromCache(d)
      PROVE  IInv'
  <2>1. Inside(files') /\ Inside(cache') /\ cached' \in BOOLEAN /\ faults' \in 0..MaxFaults
    BY <1>1, ReconcileInside, Parts DEF BootFromCache, FlagsOK, CountsOK
  <2> QED BY <1>1, <2>1, InitAgendaType, BootKeeps DEF BootFromCache
<1>2. ASSUME IInv, NEW d \in 0..MaxDay, BootByScan(d)
      PROVE  IInv'
  <2>1. Inside(files')
    BY <1>2, ScanInside, Parts DEF BootByScan
  <2>2. CASE cached' = TRUE /\ cache' = files' /\ UNCHANGED faults
    <3>1. Inside(cache') /\ cached' \in BOOLEAN /\ faults' \in 0..MaxFaults
      BY <1>2, <2>1, <2>2, Parts DEF CountsOK
    <3> QED BY <1>2, <2>1, <3>1, InitAgendaType, BootKeeps DEF BootByScan
  <2>3. CASE SaveGoesWrong
    <3>1. Inside(cache') /\ cached' \in BOOLEAN /\ faults' \in 0..MaxFaults
      BY <1>2, <2>3, BoundAssumption, Parts DEF SaveGoesWrong, FlagsOK, CountsOK
    <3> QED BY <1>2, <2>1, <3>1, InitAgendaType, BootKeeps DEF BootByScan
  <2> QED BY <1>2, <2>2, <2>3 DEF BootByScan
<1>3. ASSUME IInv, NEW d \in 0..MaxDay, BootFormats(d)
      PROVE  IInv'
  <2>1. Inside(files') /\ Inside(cache') /\ cached' \in BOOLEAN /\ faults' \in 0..MaxFaults
    BY <1>3, InsideEmpty, Parts DEF BootFormats, FlagsOK, CountsOK
  <2> QED BY <1>3, <2>1, FormatAllType, BootKeeps DEF BootFormats
<1> QED BY <1>1, <1>2, <1>3 DEF Boot

LEMMA EnvironmentKeeps ==
  IInv /\ ((\E d \in Days : SetClock(d)) \/ PowerCut \/ LoseCache) => IInv'
<1>1. ASSUME IInv, NEW d \in Days, SetClock(d)
      PROVE  IInv'
  <2>1. NorOK' /\ Inside(files)' /\ Inside(cache)'
    BY <1>1, Parts DEF NorOK, Inside, EndOf, SetClock, flashVars, ramVars
  <2>2. OpOK' /\ FlagsOK'
    BY <1>1, Parts DEF OpOK, FlagsOK, SetClock, flashVars, ramVars, opVars
  <2>3. CountsOK'
    BY <1>1, DayRange, Parts DEF CountsOK, SetClock
  <2>4. Committed'
    BY <1>1, Parts DEF Committed, SetClock, Up, Idle, Doing, ramVars, opVars
  <2> QED BY <2>1, <2>2, <2>3, <2>4, PartsPrimed
<1>2. ASSUME IInv, PowerCut
      PROVE  IInv'
  <2>1. NorOK'
    BY <1>2, CutFlashType DEF PowerCut
  <2>2. Inside(files') /\ Inside(cache')
    BY <1>2, InsideEmpty, Parts DEF PowerCut
  <2>3. OpOK'
    BY <1>2, BoundAssumption, EmptySeq, Parts DEF OpOK, PowerCut
  <2>4. CountsOK'
    BY <1>2, BoundAssumption, Parts DEF CountsOK, PowerCut
  <2>5. FlagsOK'
    <3>1. cached' \in BOOLEAN /\ ymd' \in 0..MaxDay
      BY <1>2, BoundAssumption, Parts DEF PowerCut, FlagsOK
    <3>2. full' \in [Types -> BOOLEAN]
      BY <1>2, NoneFull DEF PowerCut
    <3> QED BY <3>1, <3>2 DEF FlagsOK
  <2>6. Committed'
    BY <1>2 DEF Committed, PowerCut
  <2> QED BY <2>1, <2>2, <2>3, <2>4, <2>5, <2>6, PartsPrimed DEF Inside
<1>3. ASSUME IInv, LoseCache
      PROVE  IInv'
  <2>1. NorOK' /\ Inside(files') /\ Inside(cache')
    BY <1>3, InsideEmpty, Parts DEF NorOK, LoseCache, ramVars
  <2>2. OpOK' /\ FlagsOK'
    BY <1>3, Parts DEF OpOK, FlagsOK, LoseCache, ramVars, opVars
  <2>3. CountsOK'
    BY <1>3, BoundAssumption, Parts DEF CountsOK, LoseCache
  <2>4. Committed'
    BY <1>3, Parts DEF Committed, LoseCache, Idle, Doing, ramVars, opVars
  <2> QED BY <2>1, <2>2, <2>3, <2>4, PartsPrimed DEF Inside
<1> QED BY <1>1, <1>2, <1>3

LEMMA StutterKeeps == IInv /\ UNCHANGED vars => IInv'
<1> SUFFICES ASSUME IInv, UNCHANGED vars PROVE IInv'
  OBVIOUS
<1>1. NorOK' /\ Inside(files)' /\ Inside(cache)'
  BY Parts DEF NorOK, Inside, EndOf, vars, flashVars, ramVars
<1>2. OpOK' /\ FlagsOK' /\ CountsOK'
  BY Parts DEF OpOK, FlagsOK, CountsOK, vars, flashVars, ramVars, opVars, envVars
<1>3. Slot(Head(todo).t)' = Slot(Head(todo).t)
  BY DEF Slot, vars, ramVars, opVars
<1>4. Committed'
  BY <1>3, Parts DEF Committed, Idle, Doing, vars, ramVars, opVars
<1> QED BY <1>1, <1>2, <1>4, PartsPrimed

LEMMA InitInv == Init => IInv
<1> SUFFICES ASSUME Init PROVE IInv
  OBVIOUS
<1>1. NorOK
  BY CellKinds DEF Init, NorOK
<1>2. Inside(files) /\ Inside(cache)
  BY InsideEmpty DEF Init
<1>3. OpOK
  BY BoundAssumption, EmptySeq DEF Init, OpOK
<1>4. CountsOK
  BY BoundAssumption DEF Init, CountsOK
<1>5. FlagsOK
  <2>1. cached \in BOOLEAN
    BY DEF Init
  <2>2. ymd \in 0..MaxDay
    BY BoundAssumption DEF Init
  <2>3. full \in [Types -> BOOLEAN]
    BY NoneFull DEF Init
  <2> QED BY <2>1, <2>2, <2>3 DEF FlagsOK
<1>6. Committed
  BY DEF Init, Committed
<1> QED BY <1>1, <1>2, <1>3, <1>4, <1>5, <1>6, Parts

LEMMA NextInv == IInv /\ [Next]_vars => IInv'
<1> SUFFICES ASSUME IInv, [Next]_vars PROVE IInv'
  OBVIOUS
<1>1. CASE EnsureStep
  BY <1>1, EnsureReturnsKeeps, EnsureLatchesKeeps, EnsureBeginsKeeps, CloseOldKeeps,
     WriteHeaderKeeps, WriteDayStartKeeps, SaveCacheKeeps DEF EnsureStep
<1>2. CASE AppendRow \/ RecordCalendarDay \/ EraseRegion \/ ClearTables
  BY <1>2, AppendRowKeeps, RecordCalendarDayKeeps, EraseRegionKeeps, ClearTablesKeeps
<1>3. CASE WriteFails \/ SaveFails
  BY <1>3, WriteFailsKeeps, SaveFailsKeeps
<1>4. CASE Boot
  BY <1>4, BootsKeep
<1>5. CASE \/ \E t \in Types, n \in RowSizes : StartAppend(t, n)
           \/ \E t \in Types, d \in Days : FlushDraft(t, d)
           \/ StartFormat
  BY <1>5, StartsKeep
<1>6. CASE (\E d \in Days : SetClock(d)) \/ PowerCut \/ LoseCache
  BY <1>6, EnvironmentKeeps
<1>7. CASE FaultIndication \/ UNCHANGED vars
  BY <1>7, StutterKeeps DEF FaultIndication
<1> QED BY <1>1, <1>2, <1>3, <1>4, <1>5, <1>6, <1>7 DEF Next, Step

\* The variables keep their types and the inductive invariant holds for ever:
\* no step of the log, of a boot or of the environment breaks either.
THEOREM Inductive == Spec => []IInv
<1> QED BY InitInv, NextInv, PTL DEF Spec

\* In particular the file table, and its copy in NVS, never exceed MaxFiles
\* entries (juxta_log.c's files[] and the cache are arrays of that size), and
\* what is in flash is always whole cells, whatever interrupted its writing.
THEOREM TypeCorrect == Spec => []TypeOK
<1>1. IInv => TypeOK
  BY DEF IInv
<1> QED BY <1>1, Inductive, PTL

\* No file entry, in RAM or saved, reaches past the end of its flash region,
\* through full regions, torn writes, lost caches and scans of what is left.
THEOREM FilesStayInRegion == Spec => []FilesInRegion
<1>1. IInv => FilesInRegion
  BY DEF IInv
<1> QED BY <1>1, Inductive, PTL

-----------------------------------------------------------------------------
(* How far a region is filled. *)

\* The first n cells have been programmed, the rest of the region is erased.
Filled(r, size, n) ==
  /\ n \in 0..size
  /\ \A i \in 0..(size - 1) : IF i < n THEN r[i].k # "blank" ELSE r[i] = Blank

\* There is an #EOF at or after p.
EofIn(r, size, p) == \E i \in p..(size - 1) : r[i].k = "eof"

LEMMA LeastOf ==
  ASSUME NEW T \in SUBSET Nat, T # {}
  PROVE  \E m \in T : \A n \in T : m <= n
<1>1. \E m \in T : \A n \in T : ~(<<n, m>> \in OpToRel(<, Nat))
  BY NatLessThanWellFounded, WFMin, Zenon
<1>2. \A n, m \in Nat : n < m => <<n, m>> \in OpToRel(<, Nat)
  BY Zenon DEF OpToRel
<1>3. \A n, m \in Nat : m <= n \/ n < m
  OBVIOUS
<1> QED BY <1>1, <1>2, <1>3, Zenon

\* FirstAt, on any region.
ScanOf(r, size, from, ks) ==
  LET First(i) == /\ r[i].k \in ks
                  /\ \A j \in from..(i - 1) : r[j].k \notin ks
      Found    == {i \in from..(size - 1) : First(i)}
  IN IF Found = {} THEN size ELSE CHOOSE i \in Found : TRUE

LEMMA FirstAtScans ==
  ASSUME NEW t, NEW from, NEW ks
  PROVE  /\ FirstAt(t, from, ks) = ScanOf(nor[t], Size[t], from, ks)
         /\ FirstAt(t, from, ks)' = ScanOf(nor'[t], Size[t], from, ks)
BY DEF FirstAt, ScanOf

\* What a scan finds: a cell of the kind, none before; or none up to the end.
LEMMA ScanFinds ==
  ASSUME NEW r, NEW size \in Nat, NEW from \in 0..size, NEW ks,
         NEW i, i = ScanOf(r, size, from, ks)
  PROVE  /\ i \in from..size
         /\ i < size => r[i].k \in ks
         /\ \A j \in from..(i - 1) : r[j].k \notin ks
<1> DEFINE First(m) == r[m].k \in ks /\ \A j \in from..(m - 1) : r[j].k \notin ks
           Found == {m \in from..(size - 1) : First(m)}
           Hits  == {m \in from..(size - 1) : r[m].k \in ks}
<1>1. CASE Found # {}
  <2>1. i \in Found
    BY <1>1 DEF ScanOf
  <2>2. i \in from..(size - 1) /\ First(i)
    BY <2>1
  <2> QED BY <2>2
<1>2. CASE Found = {}
  <2>1. Hits = {}
    <3> SUFFICES ASSUME Hits # {} PROVE FALSE
      OBVIOUS
    <3>1. Hits \in SUBSET Nat
      OBVIOUS
    <3>2. PICK m \in Hits : \A n \in Hits : m <= n
      BY <3>1, LeastOf
    <3>3. \A j \in from..(m - 1) : j \in from..(size - 1) /\ j < m
      BY <3>2
    <3>4. \A j \in from..(m - 1) : r[j].k \notin ks
      BY <3>2, <3>3
    <3>5. m \in Found
      BY <3>2, <3>4
    <3> QED BY <1>2, <3>5
  <2>2. i = size
    BY <1>2 DEF ScanOf
  <2>3. \A j \in from..(i - 1) : r[j].k \notin ks
    BY <2>1, <2>2
  <2> QED BY <2>2, <2>3
<1> HIDE DEF Found
<1> QED BY <1>1, <1>2

\* The first erased cell of a region that is filled from its start.
LEMMA ScanFilled ==
  ASSUME NEW r, NEW size \in Nat, NEW n, Filled(r, size, n)
  PROVE  ScanOf(r, size, 0, {"blank"}) = n
<1> DEFINE i == ScanOf(r, size, 0, {"blank"})
<1>0. size \in Nat /\ 0 \in 0..size
  OBVIOUS
<1> HIDE DEF i
<1>1. /\ i \in 0..size
      /\ i < size => r[i].k = "blank"
      /\ \A j \in 0..(i - 1) : r[j].k # "blank"
  <2>1. i = ScanOf(r, size, 0, {"blank"})
    BY DEF i
  <2>2. /\ i \in 0..size
        /\ i < size => r[i].k \in {"blank"}
        /\ \A j \in 0..(i - 1) : r[j].k \notin {"blank"}
    BY <1>0, <2>1, ScanFinds
  <2> QED BY <2>2
<1>2. n \in 0..size /\ (\A j \in 0..(size - 1) : j < n => r[j].k # "blank")
      /\ (n < size => r[n].k = "blank")
  BY DEF Filled, Blank
<1>3. n = i
  BY <1>1, <1>2
<1> QED BY <1>3 DEF i

LEMMA FrontierIs ==
  ASSUME NEW t \in Types, NEW n
  PROVE  /\ Filled(nor[t], Size[t], n) => FirstErased(t) = n
         /\ Filled(nor'[t], Size[t], n) => FirstErased(t)' = n
<1>1. Size[t] \in Nat
  BY SizeAssumption
<1>2. /\ FirstErased(t) = ScanOf(nor[t], Size[t], 0, {"blank"})
      /\ FirstErased(t)' = ScanOf(nor'[t], Size[t], 0, {"blank"})
  BY FirstAtScans DEF FirstErased
<1> QED BY <1>1, <1>2, ScanFilled

\* The end of a file that reaches to the first #EOF behind its start, or to
\* where the region is erased.
EndIn(r, size, from) ==
  LET i == ScanOf(r, size, from, {"blank", "eof"})
  IN IF i < size /\ r[i].k = "eof" THEN i + 1 ELSE i

LEMMA FileEndScans ==
  ASSUME NEW t, NEW from
  PROVE  /\ FileEnd(t, from) = EndIn(nor[t], Size[t], from)
         /\ FileEnd(t, from)' = EndIn(nor'[t], Size[t], from)
BY FirstAtScans DEF FileEnd, EndIn

LEMMA EndFilled ==
  ASSUME NEW r, NEW size \in Nat, NEW n, Filled(r, size, n), NEW from \in 0..n
  PROVE  /\ EndIn(r, size, from) \in from..n
         /\ from < n => EndIn(r, size, from) > from
         /\ ~EofIn(r, size, from) => EndIn(r, size, from) = n
         /\ EndIn(r, size, from) < n => r[EndIn(r, size, from) - 1].k = "eof"
         /\ \A j \in from..(EndIn(r, size, from) - 2) : r[j].k # "eof"
<1> DEFINE i == ScanOf(r, size, from, {"blank", "eof"})
<1>0. n \in 0..size /\ from \in 0..size
  BY DEF Filled
<1>a. i = ScanOf(r, size, from, {"blank", "eof"})
  OBVIOUS
<1>3. EndIn(r, size, from) = IF i < size /\ r[i].k = "eof" THEN i + 1 ELSE i
  BY DEF EndIn
<1> HIDE DEF i
<1>1. /\ i \in from..size
      /\ i < size => r[i].k \in {"blank", "eof"}
      /\ \A j \in from..(i - 1) : r[j].k \notin {"blank", "eof"}
  <2> DEFINE ks == {"blank", "eof"}
  <2>1. i = ScanOf(r, size, from, ks)
    BY <1>a
  <2> HIDE DEF ks
  <2>2. /\ i \in from..size
        /\ i < size => r[i].k \in ks
        /\ \A j \in from..(i - 1) : r[j].k \notin ks
    BY <1>0, <2>1, ScanFinds
  <2> QED BY <2>2 DEF ks
<1>2. /\ \A j \in 0..(size - 1) : j < n => r[j].k # "blank"
      /\ n < size => r[n].k = "blank"
      /\ \A j \in 0..(size - 1) : j >= n => r[j].k = "blank"
  BY <1>0 DEF Filled, Blank
<1>4. i <= n
  BY <1>0, <1>1, <1>2
<1>5. CASE i < size /\ r[i].k = "eof"
  <2>1. i < n
    BY <1>0, <1>1, <1>2, <1>4, <1>5
  <2>2. EofIn(r, size, from)
    BY <1>1, <1>5 DEF EofIn
  <2> QED BY <1>0, <1>1, <1>3, <1>5, <2>1, <2>2
<1>6. CASE ~(i < size /\ r[i].k = "eof")
  <2>1. i = n
    BY <1>0, <1>1, <1>2, <1>4, <1>6
  <2> QED BY <1>0, <1>1, <1>3, <1>6, <2>1
<1> QED BY <1>5, <1>6

\* Programming cells that are not blank from where the region is filled, or
\* from before.
LEMMA ProgramFills ==
  ASSUME NEW r, NEW size \in Nat, DOMAIN r = 0..(size - 1), NEW n, Filled(r, size, n),
         NEW at \in 0..n, NEW cells, Len(cells) \in Nat, at + Len(cells) <= size,
         \A i \in 1..Len(cells) : cells[i].k # "blank"
  PROVE  /\ Filled(Program(r, at, cells), size,
                   IF at + Len(cells) > n THEN at + Len(cells) ELSE n)
         /\ \A i \in 0..(size - 1) :
              IF i >= at /\ i < at + Len(cells)
              THEN Program(r, at, cells)[i] \in {Smear, cells[i - at + 1]}
              ELSE Program(r, at, cells)[i] = r[i]
<1> DEFINE q == Program(r, at, cells)
           m == IF at + Len(cells) > n THEN at + Len(cells) ELSE n
<1>1. n \in 0..size
  BY DEF Filled
<1>2. ASSUME NEW i \in 0..(size - 1)
      PROVE  /\ i >= at /\ i < at + Len(cells) =>
                  q[i] \in {Smear, cells[i - at + 1]} /\ q[i].k # "blank"
             /\ ~(i >= at /\ i < at + Len(cells)) => q[i] = r[i]
  <2>1. CASE i >= at /\ i < at + Len(cells)
    <3>1. i \in at..(at + Len(cells) - 1) /\ i - at + 1 \in 1..Len(cells)
      BY <1>1, <2>1
    <3>2. q[i] = Overlay(r[i], cells[i - at + 1])
      BY <3>1 DEF Program
    <3> QED BY <2>1, <3>1, <3>2 DEF Overlay, Smear
  <2>2. CASE ~(i >= at /\ i < at + Len(cells))
    <3>1. i \notin at..(at + Len(cells) - 1)
      BY <1>1, <2>2
    <3> QED BY <2>2, <3>1 DEF Program
  <2> QED BY <2>1, <2>2
<1> HIDE DEF q
<1>3. ASSUME NEW i \in 0..(size - 1)
      PROVE  IF i < m THEN q[i].k # "blank" ELSE q[i] = Blank
  <2>1. IF i < n THEN r[i].k # "blank" ELSE r[i] = Blank
    BY DEF Filled
  <2> QED BY <1>1, <1>2, <2>1
<1>4. m \in 0..size
  BY <1>1
<1> QED BY <1>2, <1>3, <1>4 DEF Filled, q
-----------------------------------------------------------------------------
(* Where the files lie.  The proofs of this section are about a calm        *)
(* environment: the clock never goes back, flash and NVS do as they are     *)
(* told, and what cuts power spares an erasing.  Resets, torn writes and    *)
(* rows without a date are in it, as many as there may be.                  *)

Calm == Env \subseteq {"undated"}

\* FirstErased, FirstAt's #EOF and Slot, on any flash nr and any table fs.
Edge(nr, t) == ScanOf(nr[t], Size[t], 0, {"blank"})
NoEof(nr, t, p) == ~EofIn(nr[t], Size[t], p)
NewestIn(fs, t) ==
  {i \in DOMAIN fs : fs[i].t = t /\ \A j \in DOMAIN fs : j > i => fs[j].t # t}
SlotIn(fs, t) == IF NewestIn(fs, t) = {} THEN 0 ELSE CHOOSE i \in NewestIn(fs, t) : TRUE

Regions(nr) == \A t \in Types : Filled(nr[t], Size[t], Edge(nr, t))
DaysUpTo(fs, d) == \A i \in DOMAIN fs : fs[i].day <= d
NamesUpTo(nr, d) ==
  \A t \in Types : \A i \in 0..(Size[t] - 1) : nr[t][i].k = "name" => nr[t][i].d <= d
Within(fs, nr) == \A i \in DOMAIN fs : EndOf(fs[i]) <= Edge(nr, fs[i].t)

\* The clock shows the latest day there has been, and a call carries its day.
Calendar ==
  /\ clock \in {0, latest}
  /\ ~Idle => day = clock
  /\ DaysUpTo(files, latest) /\ DaysUpTo(cache, latest)
  /\ NamesUpTo(nor, latest)

\* No file reaches behind where its region is programmed.
Behind == ~Formatting => Within(files, nor) /\ Within(cache, nor)

\* RAM has the files of the cache, in their places, and the one being opened.
Alike(e, f) == e.t = f.t /\ e.day = f.day /\ e.off = f.off
Opened == IF stage \in {"daystart", "save"} THEN 1 ELSE 0
Saved ==
  /\ ~cached => cache = <<>>
  /\ mode = "off" => files = <<>> /\ ymd = 0
  /\ mode # "off" /\ ~Formatting =>
       /\ Len(files) = Len(cache) + Opened
       /\ \A i \in DOMAIN cache : Alike(cache[i], files[i])
  /\ stage \in {"daystart", "save"} =>
       files[Len(files)].t = Head(todo).t /\ files[Len(files)].day = day

\* Tables are cleared when nothing is left to erase.
Erasing ==
  Formatting =>
    /\ mode # "off"
    /\ \A i \in DOMAIN todo :
         IF i = Len(todo) THEN todo[i] = Clear ELSE todo[i].do = "erase"
    /\ \A t \in Types : Edge(nor, t) = 0 \/ \E i \in DOMAIN todo : todo[i] = Erase(t)

\* Before the first table is saved no file has been closed, or written to.
Untouched ==
  ~cached /\ ~Formatting =>
    \A t \in Types : \A i \in 0..(Size[t] - 1) : nor[t][i].k \notin {"eof", "row"}

\* What ensure_file knows while it rotates the files of a type.
Rotating ==
  stage \in {"close", "header"} =>
    LET h == Head(todo).t
        s == SlotIn(files, h)
    IN /\ ~full[h] /\ off + HeaderLen <= Size[h]
       /\ s # 0 => files[s].day # day
       /\ IF stage = "close" THEN Edge(nor, h) = off ELSE Edge(nor, h) \in {off, off + 1}

\* The newest file of a type is open, and when it is today's it has no #EOF
\* and ends where the region is erased.
NewestOpen ==
  ~Formatting =>
    \A t \in Types :
      LET s == SlotIn(files, t)
      IN s # 0 =>
         /\ files[s].active \/ (stage = "header" /\ Head(todo).t = t)
         /\ files[s].day = latest => EndOf(files[s]) = Edge(nor, t) /\ NoEof(nor, t, files[s].off)
NewestSaved ==
  ~Formatting =>
    \A t \in Types :
      LET s == SlotIn(cache, t)
      IN s # 0 => /\ cache[s].active
                  /\ cache[s].day = latest => NoEof(nor, t, cache[s].off)

\* Rows of this type go to the first erased cell.
Good(fs, fl, nr, t) ==
  SlotIn(fs, t) # 0 /\ ~fl[t] => EndOf(fs[SlotIn(fs, t)]) = Edge(nr, t)
\* A day is recorded when every type has been seen to.
DayDone ==
  ~Formatting /\ Len(files) < MaxFiles =>
    /\ ymd # 0 => \A t \in Types : Good(files, full, nor, t)
    /\ \A i \in DOMAIN todo : todo[i].do = "ymd" =>
         /\ day # 0
         /\ \A t \in Types : Good(files, full, nor, t) \/ \E j \in 1..(i - 1) : todo[j] = Ensure(t)

LogInv ==
  /\ Calendar /\ Regions(nor) /\ Behind /\ Saved /\ Erasing
  /\ Untouched /\ Rotating /\ NewestOpen /\ NewestSaved /\ DayDone

-----------------------------------------------------------------------------
(* The newest file of a type, and where its region is erased. *)

LEMMA EdgeIs ==
  ASSUME NEW t
  PROVE  FirstErased(t) = Edge(nor, t) /\ FirstErased(t)' = Edge(nor', t)
BY FirstAtScans DEF FirstErased, Edge

LEMMA FilledEdge ==
  ASSUME NEW nr, NEW t \in Types, NEW n, Filled(nr[t], Size[t], n)
  PROVE  Edge(nr, t) = n
BY SizeAssumption, ScanFilled DEF Edge

LEMMA SlotIs ==
  ASSUME NEW t
  PROVE  Slot(t) = SlotIn(files, t) /\ Slot(t)' = SlotIn(files', t)
BY DEF Slot, SlotIn, NewestIn

LEMMA SlotInIndex ==
  ASSUME NEW fs, NEW t, SlotIn(fs, t) # 0
  PROVE  /\ SlotIn(fs, t) \in DOMAIN fs /\ fs[SlotIn(fs, t)].t = t
         /\ SlotIn(fs, t) \in NewestIn(fs, t)
BY DEF SlotIn, NewestIn

LEMMA SlotInUnique ==
  ASSUME NEW fs, NEW n \in Nat, DOMAIN fs = 1..n, NEW t, NEW i \in NewestIn(fs, t)
  PROVE  SlotIn(fs, t) = i /\ i # 0
<1>1. \A j \in NewestIn(fs, t) : j = i
  BY DEF NewestIn
<1>2. SlotIn(fs, t) \in NewestIn(fs, t)
  BY DEF SlotIn
<1> QED BY <1>1, <1>2 DEF NewestIn

LEMMA SlotSame ==
  ASSUME NEW fs, NEW gs, DOMAIN fs = DOMAIN gs, \A i \in DOMAIN fs : fs[i].t = gs[i].t, NEW t
  PROVE  SlotIn(fs, t) = SlotIn(gs, t)
<1>1. NewestIn(fs, t) = NewestIn(gs, t)
  BY DEF NewestIn
<1> QED BY <1>1 DEF SlotIn

LEMMA SlotAppended ==
  ASSUME NEW fs, NEW gs, NEW n \in Nat, DOMAIN fs = 1..n, DOMAIN gs = 1..(n + 1),
         \A i \in 1..n : gs[i] = fs[i], NEW h, gs[n + 1].t = h
  PROVE  /\ SlotIn(gs, h) = n + 1
         /\ \A u : u # h => SlotIn(gs, u) = SlotIn(fs, u)
<1>1. n + 1 \in NewestIn(gs, h)
  BY DEF NewestIn
<1>2. ASSUME NEW u, u # h
      PROVE  NewestIn(gs, u) = NewestIn(fs, u)
  <2>1. ASSUME NEW i \in NewestIn(gs, u) PROVE i \in NewestIn(fs, u)
    BY <1>2 DEF NewestIn
  <2>2. ASSUME NEW i \in NewestIn(fs, u) PROVE i \in NewestIn(gs, u)
    BY <1>2 DEF NewestIn
  <2> QED BY <2>1, <2>2
<1>3. n + 1 \in Nat
  OBVIOUS
<1>4. SlotIn(gs, h) = n + 1
  BY <1>1, <1>3, SlotInUnique
<1>5. ASSUME NEW u, u # h PROVE SlotIn(gs, u) = SlotIn(fs, u)
  <2>1. NewestIn(gs, u) = NewestIn(fs, u)
    BY <1>2, <1>5
  <2> QED BY <2>1 DEF SlotIn
<1> QED BY <1>4, <1>5

LEMMA NoSlot == \A t : SlotIn(<<>>, t) = 0
BY EmptySeq DEF SlotIn, NewestIn

-----------------------------------------------------------------------------
(* What a step writes, and what an interruption leaves of it. *)

LEMMA PendingCells ==
  ASSUME IInv, HasPending, NEW i \in 1..Len(Pending.cells)
  PROVE  /\ Pending.cells[i].k # "blank"
         /\ Pending.cells[i].k = "eof" => stage = "close"
         /\ Pending.cells[i].k = "name" => stage = "header" /\ Pending.cells[i].d = day
         /\ Pending.cells[i].k = "row" =>
              Doing("row") /\ Pending.cells[i].d = day /\ i = Len(Pending.cells)
<1>1. CASE stage = "close"
  <2>1. Pending.cells = <<Eof>>
    BY <1>1 DEF Pending
  <2>2. i = 1
    BY <2>1
  <2> QED BY <1>1, <2>1, <2>2 DEF Eof
<1>2. CASE stage = "header"
  <2>1. Pending.cells = <<Name(day), Cols>>
    BY <1>2 DEF Pending, Header
  <2>2. i \in {1, 2}
    BY <2>1
  <2> QED BY <1>2, <2>1, <2>2 DEF Name, Cols
<1>3. CASE stage = "daystart"
  <2>1. Pending.cells = Line("start", day, DayStartLen) /\ Len(Pending.cells) = DayStartLen
    BY <1>3, PendingType DEF Pending
  <2>2. Pending.cells[i] = IF i = DayStartLen THEN [k |-> "start", d |-> day] ELSE Part
    BY <2>1 DEF Line
  <2> QED BY <2>2 DEF Part
<1>4. CASE stage \notin {"close", "header", "daystart"}
  <2>0. Doing("row")
    BY <1>4 DEF HasPending, Writing
  <2>1. Pending.cells = Line("row", day, Head(todo).n) /\ Len(Pending.cells) = Head(todo).n
    BY <1>4, <2>0, PendingType DEF Pending
  <2>2. Pending.cells[i] = IF i = Head(todo).n THEN [k |-> "row", d |-> day] ELSE Part
    BY <2>1 DEF Line
  <2> QED BY <2>0, <2>1, <2>2 DEF Part
<1> QED BY <1>1, <1>2, <1>3, <1>4

\* A torn write is a beginning of the cells, perhaps with a fragment after it.
LEMMA TornCells ==
  ASSUME NEW cells \in Seq(Cell), NEW c \in Torn(cells)
  PROVE  /\ Len(c) \in Nat /\ Len(c) <= Len(cells)
         /\ \A i \in 1..Len(c) : c[i] = Part \/ (i < Len(cells) /\ c[i] = cells[i])
<1>0. Len(cells) \in Nat
  BY LenProperties
<1>1. ASSUME NEW n \in 0..(Len(cells) - 1)
      PROVE  /\ SubSeq(cells, 1, n) \in Seq(Cell) /\ Len(SubSeq(cells, 1, n)) = n
             /\ \A i \in 1..n : SubSeq(cells, 1, n)[i] = cells[i]
  <2>1. \A i \in 1..n : cells[i] \in Cell
    BY <1>0, ElementOfSeq
  <2>2. n \in Int /\ n \in Nat
    BY <1>0
  <2>3. SubSeq(cells, 1, n) \in Seq(Cell)
    BY <2>1, <2>2, SubSeqProperties
  <2>4. Len(SubSeq(cells, 1, n)) = n
    BY <2>1, <2>2, SubSeqProperties
  <2>5. \A i \in 1..n : SubSeq(cells, 1, n)[i] = cells[i]
    BY <2>1, <2>2, SubSeqProperties
  <2> QED BY <2>3, <2>4, <2>5
<1>2. ASSUME NEW n \in 0..(Len(cells) - 1), c = SubSeq(cells, 1, n)
      PROVE  /\ Len(c) \in Nat /\ Len(c) <= Len(cells)
             /\ \A i \in 1..Len(c) : c[i] = Part \/ (i < Len(cells) /\ c[i] = cells[i])
  BY <1>0, <1>1, <1>2
<1>3. ASSUME NEW n \in 0..(Len(cells) - 1), c = Append(SubSeq(cells, 1, n), Part)
      PROVE  /\ Len(c) \in Nat /\ Len(c) <= Len(cells)
             /\ \A i \in 1..Len(c) : c[i] = Part \/ (i < Len(cells) /\ c[i] = cells[i])
  <2> DEFINE p == SubSeq(cells, 1, n)
  <2>1. p \in Seq(Cell) /\ Len(p) = n /\ \A i \in 1..n : p[i] = cells[i]
    BY <1>1
  <2>2. c = Append(p, Part)
    BY <1>3
  <2> HIDE DEF p
  <2>3. Len(c) = n + 1 /\ c[n + 1] = Part /\ \A i \in 1..n : c[i] = p[i]
    BY <2>1, <2>2, CellKinds, AppendProperties
  <2> QED BY <1>0, <2>1, <2>3
<1> QED BY <1>2, <1>3 DEF Torn

\* The effect on flash of programming cells c of the step's write at its place.
Wrote(nr, nr2, h, at, c) ==
  /\ Regions(nr2)
  /\ Edge(nr2, h) = IF at + Len(c) > Edge(nr, h) THEN at + Len(c) ELSE Edge(nr, h)
  /\ \A u \in Types : u # h => nr2[u] = nr[u]
  /\ \A i \in 0..(Size[h] - 1) :
       IF i >= at /\ i < at + Len(c)
       THEN nr2[h][i] \in {Smear, c[i - at + 1]}
       ELSE nr2[h][i] = nr[h][i]

LEMMA RegionWritten ==
  ASSUME NorOK, Regions(nor), NEW h \in Types, NEW at \in 0..Edge(nor, h), NEW c,
         Len(c) \in Nat, at + Len(c) <= Size[h], \A i \in 1..Len(c) : c[i].k # "blank",
         nor' = [nor EXCEPT ![h] = Program(nor[h], at, c)]
  PROVE  Wrote(nor, nor', h, at, c)
<1> DEFINE n == Edge(nor, h)
           m == IF at + Len(c) > n THEN at + Len(c) ELSE n
<1>1. Size[h] \in Nat /\ Filled(nor[h], Size[h], n)
  BY SizeAssumption DEF Regions
<1>2. DOMAIN nor[h] = 0..(Size[h] - 1) /\ DOMAIN nor = Types
  BY DEF NorOK
<1>3. nor'[h] = Program(nor[h], at, c) /\ \A u \in Types : u # h => nor'[u] = nor[u]
  BY <1>2
<1> HIDE DEF n
<1>4. at \in 0..n
  BY DEF n
<1>5. /\ Filled(Program(nor[h], at, c), Size[h], m)
      /\ \A i \in 0..(Size[h] - 1) :
           IF i >= at /\ i < at + Len(c)
           THEN Program(nor[h], at, c)[i] \in {Smear, c[i - at + 1]}
           ELSE Program(nor[h], at, c)[i] = nor[h][i]
  BY <1>1, <1>2, <1>4, ProgramFills
<1>6. Edge(nor', h) = m
  BY <1>3, <1>5, FilledEdge
<1>7. ASSUME NEW u \in Types PROVE Filled(nor'[u], Size[u], Edge(nor', u))
  <2>1. CASE u = h
    BY <1>3, <1>5, <1>6, <2>1
  <2>2. CASE u # h
    BY <1>3, <2>2 DEF Regions, Edge
  <2> QED BY <2>1, <2>2
<1> QED BY <1>3, <1>5, <1>6, <1>7 DEF Wrote, Regions, n

-----------------------------------------------------------------------------
(* What the agendas hold. *)

Wipes(ag) == \E i \in DOMAIN ag : ag[i].do \in {"erase", "clear"}
\* A day is recorded only after every type has been ensured.
EnsuredFirst(ag, d) ==
  \A i \in DOMAIN ag : ag[i].do = "ymd" =>
    d # 0 /\ \A t \in Types : \E j \in 1..(i - 1) : ag[j] = Ensure(t)
\* A row comes right after the ensuring of its type.
RowAfterEnsure(ag) ==
  \A i \in DOMAIN ag : ag[i].do = "row" => i > 1 /\ ag[i - 1] = Ensure(ag[i].t)

LEMMA WipesIs == Formatting = Wipes(todo) /\ Formatting' = Wipes(todo')
BY DEF Formatting, Wipes

LEMMA TaskKinds ==
  /\ SetYmd.do = "ymd" /\ Clear.do = "clear"
  /\ \A t : Ensure(t).do = "ensure" /\ Erase(t).do = "erase" /\ Ensure(t).t = t /\ Erase(t).t = t
  /\ \A t, n : AddRow(t, n).do = "row" /\ AddRow(t, n).t = t
BY DEF SetYmd, Clear, Ensure, Erase, AddRow

LEMMA RowAgenda ==
  ASSUME NEW t \in Types, NEW n, NEW d
  PROVE  LET ag == <<Ensure(t), AddRow(t, n)>>
         IN ~Wipes(ag) /\ EnsuredFirst(ag, d) /\ RowAfterEnsure(ag)
<1> DEFINE ag == <<Ensure(t), AddRow(t, n)>>
<1>1. DOMAIN ag = {1, 2} /\ ag[1] = Ensure(t) /\ ag[2] = AddRow(t, n)
  OBVIOUS
<1>2. ag[1].do = "ensure" /\ ag[2].do = "row" /\ ag[2].t = t
  BY <1>1 DEF Ensure, AddRow
<1> HIDE DEF ag
<1>3. ~Wipes(ag) /\ EnsuredFirst(ag, d)
  BY <1>1, <1>2 DEF Wipes, EnsuredFirst
<1>4. RowAfterEnsure(ag)
  BY <1>1, <1>2 DEF RowAfterEnsure
<1> QED BY <1>3, <1>4 DEF ag

\* What follows a sequence of n + 1 when a pair is appended to it.
LEMMA TwoMore ==
  ASSUME NEW D, NEW R, NEW ag, NEW n \in Nat, Len(D) = n + 1, Len(R) = 2,
         Len(ag) = Len(D) + Len(R), DOMAIN ag = 1..Len(ag),
         \A i \in 1..(Len(D) + Len(R)) : ag[i] = IF i <= Len(D) THEN D[i] ELSE R[i - Len(D)]
  PROVE  /\ Len(ag) = n + 3 /\ DOMAIN ag = 1..(n + 3)
         /\ \A i \in 1..(n + 1) : ag[i] = D[i]
         /\ ag[n + 2] = R[1] /\ ag[n + 3] = R[2]
<1>3. Len(ag) = n + 3
  OBVIOUS
<1>4. \A i \in 1..(n + 3) : ag[i] = IF i <= n + 1 THEN D[i] ELSE R[i - (n + 1)]
  OBVIOUS
<1>5. ag[n + 2] = R[1]
  <2>1. n + 2 \in 1..(n + 3) /\ ~(n + 2 <= n + 1) /\ (n + 2) - (n + 1) = 1
    OBVIOUS
  <2> QED BY <1>4, <2>1
<1>6. ag[n + 3] = R[2]
  <2>1. n + 3 \in 1..(n + 3) /\ ~(n + 3 <= n + 1) /\ (n + 3) - (n + 1) = 2
    OBVIOUS
  <2> QED BY <1>4, <2>1
<1>7. \A i \in 1..(n + 1) : ag[i] = D[i]
  BY <1>4
<1> QED BY <1>3, <1>5, <1>6, <1>7

LEMMA DayAgenda ==
  ASSUME NEW t \in Types, NEW n \in Nat, NEW d, d # 0
  PROVE  LET ag == Append(EnsureAll, SetYmd) \o <<Ensure(t), AddRow(t, n)>>
         IN ~Wipes(ag) /\ EnsuredFirst(ag, d) /\ RowAfterEnsure(ag)
<1> DEFINE N  == Len(TypeOrder)
           D  == Append(EnsureAll, SetYmd)
           R  == <<Ensure(t), AddRow(t, n)>>
           ag == D \o R
<1>1. N \in Nat /\ DOMAIN TypeOrder = 1..N
  BY OrderAssumption, LenProperties
<1>2. EnsureAll \in Seq(Tasks) /\ SetYmd \in Tasks /\ R \in Seq(Tasks)
  BY EnsureAllType, TaskTypes
<1>3. Len(EnsureAll) = N /\ \A i \in 1..N : EnsureAll[i] = Ensure(TypeOrder[i])
  BY <1>1, <1>2, LenProperties DEF EnsureAll
<1>4. /\ D \in Seq(Tasks) /\ Len(D) = N + 1 /\ D[N + 1] = SetYmd
      /\ \A i \in 1..N : D[i] = Ensure(TypeOrder[i])
  BY <1>1, <1>2, <1>3, AppendProperties
<1>5. Len(R) = 2 /\ R[1] = Ensure(t) /\ R[2] = AddRow(t, n)
  OBVIOUS
<1> HIDE DEF D, R
<1>6. /\ Len(ag) = N + 3 /\ DOMAIN ag = 1..(N + 3)
      /\ \A i \in 1..N : ag[i] = Ensure(TypeOrder[i])
      /\ ag[N + 1] = SetYmd /\ ag[N + 2] = Ensure(t) /\ ag[N + 3] = AddRow(t, n)
  <2> HIDE DEF N
  <2>1. /\ D \in Seq(Tasks) /\ R \in Seq(Tasks) /\ N \in Nat
        /\ Len(D) = N + 1 /\ Len(R) = 2
    BY <1>1, <1>2, <1>4, <1>5
  <2>a. /\ ag \in Seq(Tasks) /\ Len(ag) = Len(D) + Len(R)
        /\ \A i \in 1..(Len(D) + Len(R)) : ag[i] = IF i <= Len(D) THEN D[i] ELSE R[i - Len(D)]
    <3>1. D \in Seq(Tasks) /\ R \in Seq(Tasks)
      BY <2>1
    <3> QED BY <3>1, ConcatProperties
  <2> HIDE DEF ag
  <2>b. DOMAIN ag = 1..Len(ag)
    BY <2>a, LenProperties
  <2>2. /\ Len(ag) = N + 3 /\ DOMAIN ag = 1..(N + 3)
        /\ \A i \in 1..(N + 1) : ag[i] = D[i]
        /\ ag[N + 2] = R[1] /\ ag[N + 3] = R[2]
    BY <2>1, <2>a, <2>b, TwoMore
  <2>3. \A i \in 1..N : i \in 1..(N + 1)
    BY <2>1
  <2>4. N + 1 \in 1..(N + 1)
    BY <2>1
  <2> QED BY <1>4, <1>5, <2>2, <2>3, <2>4
<1> HIDE DEF ag, N
<1>7. /\ \A i \in 1..N : ag[i].do = "ensure"
      /\ ag[N + 1].do = "ymd" /\ ag[N + 2].do = "ensure"
      /\ ag[N + 3].do = "row" /\ ag[N + 3].t = t
  <2>1. ag[N + 1].do = "ymd" /\ ag[N + 2].do = "ensure" /\ ag[N + 3].do = "row" /\ ag[N + 3].t = t
    BY <1>6, TaskKinds
  <2>2. ASSUME NEW i \in 1..N PROVE ag[i].do = "ensure"
    BY <1>6, TaskKinds
  <2> QED BY <2>1, <2>2
<1>8. ~Wipes(ag)
  <2>1. ASSUME NEW i \in 1..(N + 3) PROVE ag[i].do \notin {"erase", "clear"}
    <3>1. CASE i \in 1..N
      BY <1>7, <3>1
    <3>2. CASE i \in {N + 1, N + 2, N + 3}
      BY <1>7, <3>2
    <3> QED BY <1>1, <3>1, <3>2
  <2> QED BY <1>6, <2>1 DEF Wipes
<1>9. EnsuredFirst(ag, d)
  <2>1. ASSUME NEW i \in 1..(N + 3), ag[i].do = "ymd" PROVE i = N + 1
    BY <1>1, <1>7, <2>1
  <2>2. ASSUME NEW u \in Types PROVE \E j \in 1..N : ag[j] = Ensure(u)
    <3>1. PICK j \in 1..N : TypeOrder[j] = u
      BY <1>1 DEF Types
    <3> QED BY <1>6, <3>1
  <2>3. (N + 1) - 1 = N
    BY <1>1
  <2> QED BY <1>6, <2>1, <2>2, <2>3 DEF EnsuredFirst
<1>10. RowAfterEnsure(ag)
  <2>1. ASSUME NEW i \in 1..(N + 3), ag[i].do = "row" PROVE i = N + 3
    BY <1>1, <1>7, <2>1
  <2>2. N + 3 > 1 /\ (N + 3) - 1 = N + 2
    BY <1>1
  <2> QED BY <1>6, <1>7, <2>1, <2>2 DEF RowAfterEnsure
<1> QED BY <1>8, <1>9, <1>10 DEF ag, D, R

LEMMA NoAgenda == ~Wipes(<<>>) /\ \A d : EnsuredFirst(<<>>, d) /\ RowAfterEnsure(<<>>)
BY EmptySeq DEF Wipes, EnsuredFirst, RowAfterEnsure

LEMMA AppendAgendaShape ==
  ASSUME NEW t \in Types, NEW n \in Nat, NEW d, NEW today
  PROVE  LET ag == AppendAgenda(t, n, d, today)
         IN ~Wipes(ag) /\ EnsuredFirst(ag, d) /\ RowAfterEnsure(ag)
<1> DEFINE R == <<Ensure(t), AddRow(t, n)>>
<1>1. CASE d # 0 /\ today # d
  <2>1. AppendAgenda(t, n, d, today) = Append(EnsureAll, SetYmd) \o R
    BY <1>1 DEF AppendAgenda
  <2> QED BY <1>1, <2>1, DayAgenda
<1>2. CASE ~(d # 0 /\ today # d)
  <2>1. AppendAgenda(t, n, d, today) = <<>> \o R
    BY <1>2 DEF AppendAgenda
  <2>2. R \in Seq(Tasks)
    BY TaskTypes
  <2>3. <<>> \o R = R
    BY <2>2, ConcatEmptySeq
  <2> QED BY <2>1, <2>3, RowAgenda
<1> QED BY <1>1, <1>2

LEMMA InitAgendaShape ==
  ASSUME NEW d
  PROVE  LET ag == InitAgenda(d)
         IN ~Wipes(ag) /\ EnsuredFirst(ag, d) /\ RowAfterEnsure(ag)
<1> DEFINE R == <<Ensure(Provenance), AddRow(Provenance, 1)>>
<1>1. CASE d = 0
  BY <1>1, NoAgenda DEF InitAgenda
<1>2. CASE d # 0
  <2>1. R \in Seq(Tasks) /\ Provenance \in Types
    BY TaskTypes, OrderAssumption
  <2>2. AppendAgenda(Provenance, 1, d, d) = <<>> \o R
    BY DEF AppendAgenda
  <2>3. InitAgenda(d) = Append(EnsureAll, SetYmd) \o R
    BY <1>2, <2>1, <2>2, ConcatEmptySeq DEF InitAgenda
  <2> QED BY <1>2, <2>1, <2>3, DayAgenda
<1> QED BY <1>1, <1>2

LEMMA FormatAgenda ==
  /\ DOMAIN FormatAll = 1..Len(FormatAll) /\ FormatAll # <<>>
  /\ \A i \in DOMAIN FormatAll :
       IF i = Len(FormatAll) THEN FormatAll[i] = Clear ELSE FormatAll[i].do = "erase"
  /\ \A t \in Types : \E i \in DOMAIN FormatAll : FormatAll[i] = Erase(t)
<1> DEFINE N == Len(TypeOrder)
           E == [i \in DOMAIN TypeOrder |-> Erase(TypeOrder[i])]
<1>1. N \in Nat /\ DOMAIN TypeOrder = 1..N
  BY OrderAssumption, LenProperties
<1>2. E \in [1..N -> Tasks] /\ \A i \in 1..N : E[i] = Erase(TypeOrder[i])
  BY <1>1, TaskTypes DEF Types
<1>3. E \in Seq(Tasks) /\ Len(E) = N
  BY <1>1, <1>2, SeqDef, LenProperties
<1> HIDE DEF E
<1>4. /\ FormatAll \in Seq(Tasks) /\ Len(FormatAll) = N + 1
      /\ FormatAll[N + 1] = Clear
      /\ \A i \in 1..N : FormatAll[i] = Erase(TypeOrder[i])
  <2>1. FormatAll = Append(E, Clear)
    BY DEF FormatAll, E
  <2> QED BY <1>1, <1>2, <1>3, <2>1, TaskTypes, AppendProperties
<1>5. DOMAIN FormatAll = 1..(N + 1)
  BY <1>4, LenProperties
<1> HIDE DEF N
<1>6. FormatAll # <<>>
  BY <1>1, <1>4, EmptySeq
<1>7. ASSUME NEW t \in Types PROVE \E i \in DOMAIN FormatAll : FormatAll[i] = Erase(t)
  <2>1. PICK i \in 1..N : TypeOrder[i] = t
    BY <1>1 DEF Types
  <2> QED BY <1>1, <1>4, <1>5, <2>1
<1>8. \A i \in 1..(N + 1) : i # N + 1 => i \in 1..N
  BY <1>1
<1>9. ASSUME NEW i \in 1..N PROVE FormatAll[i].do = "erase"
  BY <1>4, TaskKinds
<1> QED BY <1>4, <1>5, <1>6, <1>7, <1>8, <1>9

\* The tasks that are left when the first is done.
LEMMA TailTasks ==
  ASSUME todo \in Seq(Tasks), todo # <<>>
  PROVE  /\ Len(todo) \in Nat \ {0} /\ DOMAIN todo = 1..Len(todo) /\ Head(todo) = todo[1]
         /\ Len(Tail(todo)) = Len(todo) - 1 /\ DOMAIN Tail(todo) = 1..(Len(todo) - 1)
         /\ \A i \in 1..(Len(todo) - 1) : Tail(todo)[i] = todo[i + 1]
<1>1. Len(todo) \in Nat \ {0} /\ DOMAIN todo = 1..Len(todo) /\ Head(todo) = todo[1]
  BY LenProperties, HeadTailProperties
<1>2. Tail(todo) \in Seq(Tasks) /\ Len(Tail(todo)) = Len(todo) - 1
      /\ \A i \in 1..Len(Tail(todo)) : Tail(todo)[i] = todo[i + 1]
  BY HeadTailProperties
<1> QED BY <1>1, <1>2, LenProperties

LEMMA NotWiping ==
  ASSUME todo \in Seq(Tasks), todo # <<>>, Erasing, Head(todo).do \notin {"erase", "clear"}
  PROVE  ~Formatting /\ ~Wipes(todo) /\ ~Wipes(Tail(todo))
<1>1. Len(todo) \in Nat \ {0} /\ DOMAIN todo = 1..Len(todo) /\ Head(todo) = todo[1]
      /\ DOMAIN Tail(todo) = 1..(Len(todo) - 1)
      /\ \A i \in 1..(Len(todo) - 1) : Tail(todo)[i] = todo[i + 1]
  BY TailTasks
<1>2. ~Formatting
  BY <1>1 DEF Erasing, Clear
<1>3. ~Wipes(todo)
  BY <1>2, WipesIs
<1>4. ~Wipes(Tail(todo))
  BY <1>1, <1>3 DEF Wipes
<1> QED BY <1>2, <1>3, <1>4

-----------------------------------------------------------------------------
(* Steps that leave flash and both tables alone. *)

StillThere == UNCHANGED <<nor, cached, cache, files, clock, latest>>

LEMMA QuietKeeps ==
  ASSUME LogInv, StillThere, mode # "off", mode' # "off", ~Formatting, ~Wipes(todo'),
         stage # "header", ~Idle' => day' = clock,
         stage' \in {"daystart", "save"} <=> stage \in {"daystart", "save"},
         stage' \in {"daystart", "save"} => Head(todo') = Head(todo) /\ day' = day
  PROVE  /\ Calendar' /\ Regions(nor') /\ Behind' /\ Saved' /\ Erasing'
         /\ Untouched' /\ NewestOpen' /\ NewestSaved'
<1>1. ~Formatting'
  BY WipesIs
<1>2. Calendar'
  BY DEF LogInv, Calendar, StillThere
<1>3. Regions(nor')
  BY DEF LogInv, StillThere
<1>4. Behind'
  BY DEF LogInv, Behind, StillThere
<1>5. Saved'
  BY <1>1 DEF LogInv, Saved, StillThere, Opened
<1>6. Erasing'
  BY <1>1 DEF Erasing
<1>7. Untouched'
  BY DEF LogInv, Untouched, StillThere
<1>8. NewestOpen'
  BY DEF LogInv, NewestOpen, StillThere
<1>9. NewestSaved'
  BY DEF LogInv, NewestSaved, StillThere
<1> QED BY <1>2, <1>3, <1>4, <1>5, <1>6, <1>7, <1>8, <1>9

LEMMA DayIsLatest ==
  ASSUME LogInv, todo # <<>>
  PROVE  day = clock /\ (day # 0 => day = latest)
BY DEF LogInv, Calendar, Idle

\* A task that is done leaves the day's bookkeeping right when it has seen to
\* its own type and spoilt no other.
LEMMA TaskDoneDays ==
  ASSUME todo \in Seq(Tasks), DayDone, todo # <<>>, ~Formatting, TaskDone,
         Len(files') < MaxFiles => Len(files) < MaxFiles,
         \A t \in Types : Good(files, full, nor, t) => Good(files', full', nor', t),
         \A t \in Types : Head(todo) = Ensure(t) /\ day # 0 /\ Len(files') < MaxFiles
                            => Good(files', full', nor', t),
         ymd' = ymd \/ Head(todo).do = "ymd"
  PROVE  DayDone'
<1> SUFFICES ASSUME Len(files') < MaxFiles
             PROVE  /\ ymd' # 0 => \A t \in Types : Good(files', full', nor', t)
                    /\ \A i \in DOMAIN todo' : todo'[i].do = "ymd" =>
                         /\ day' # 0
                         /\ \A t \in Types : \/ Good(files', full', nor', t)
                                             \/ \E j \in 1..(i - 1) : todo'[j] = Ensure(t)
  BY DEF DayDone
<1>1. /\ ymd # 0 => \A t \in Types : Good(files, full, nor, t)
      /\ \A i \in DOMAIN todo : todo[i].do = "ymd" =>
           /\ day # 0
           /\ \A t \in Types : Good(files, full, nor, t) \/ \E j \in 1..(i - 1) : todo[j] = Ensure(t)
  BY DEF DayDone
<1>2. /\ Len(todo) \in Nat \ {0} /\ DOMAIN todo = 1..Len(todo) /\ Head(todo) = todo[1]
      /\ DOMAIN Tail(todo) = 1..(Len(todo) - 1)
      /\ \A i \in 1..(Len(todo) - 1) : Tail(todo)[i] = todo[i + 1]
  BY TailTasks
<1>3. todo' = Tail(todo) /\ day' = day
  BY DEF TaskDone
<1>4. ASSUME Head(todo).do = "ymd", NEW t \in Types
      PROVE  Good(files, full, nor, t)
  <2>1. Good(files, full, nor, t) \/ \E j \in 1..(1 - 1) : todo[j] = Ensure(t)
    BY <1>1, <1>2, <1>4
  <2> QED BY <2>1
<1>5. ymd' # 0 => \A t \in Types : Good(files', full', nor', t)
  BY <1>1, <1>4
<1>6. ASSUME NEW i \in 1..(Len(todo) - 1), Tail(todo)[i].do = "ymd"
      PROVE  /\ day # 0
             /\ \A t \in Types : \/ Good(files', full', nor', t)
                                 \/ \E j \in 1..(i - 1) : Tail(todo)[j] = Ensure(t)
  <2>1. i + 1 \in DOMAIN todo /\ todo[i + 1].do = "ymd" /\ (i + 1) - 1 = i
    BY <1>2, <1>6
  <2>2. /\ day # 0
        /\ \A t \in Types : Good(files, full, nor, t) \/ \E j \in 1..i : todo[j] = Ensure(t)
    BY <1>1, <2>1
  <2>3. ASSUME NEW t \in Types, NEW j \in 1..i, todo[j] = Ensure(t)
        PROVE  \/ Good(files', full', nor', t)
               \/ \E m \in 1..(i - 1) : Tail(todo)[m] = Ensure(t)
    <3>1. CASE j = 1
      BY <1>2, <2>2, <2>3, <3>1
    <3>2. CASE j # 1
      <4>1. j - 1 \in 1..(i - 1) /\ j - 1 \in 1..(Len(todo) - 1) /\ (j - 1) + 1 = j
        BY <1>2, <3>2
      <4>2. Tail(todo)[j - 1] = Ensure(t)
        BY <1>2, <2>3, <4>1
      <4> QED BY <4>1, <4>2
    <3> QED BY <3>1, <3>2
  <2> QED BY <2>2, <2>3
<1> QED BY <1>2, <1>3, <1>5, <1>6

LEMMA EnsureReturnsLog == IInv /\ LogInv /\ EnsureReturns => LogInv'
<1> SUFFICES ASSUME IInv, LogInv, EnsureReturns PROVE LogInv'
  OBVIOUS
<1>0. todo \in Seq(Tasks) /\ todo # <<>> /\ Head(todo).do = "ensure" /\ stage = "decide" /\ mode # "off"
  BY Parts DEF OpOK, EnsureReturns, Deciding, Doing, Idle, Committed
<1>1. ~Formatting /\ ~Wipes(Tail(todo))
  BY <1>0, NotWiping DEF LogInv
<1>2. StillThere /\ mode' = mode /\ todo' = Tail(todo) /\ stage' = "decide" /\ day' = day
      /\ full' = full /\ ymd' = ymd
  BY DEF EnsureReturns, StillThere, TaskDone, flashVars, ramVars, envVars
<1>3. day = clock /\ (day # 0 => day = latest)
  BY <1>0, DayIsLatest
<1>4. /\ Calendar' /\ Regions(nor') /\ Behind' /\ Saved' /\ Erasing'
      /\ Untouched' /\ NewestOpen' /\ NewestSaved'
  BY <1>0, <1>1, <1>2, <1>3, QuietKeeps DEF StillThere
<1>5. Rotating'
  BY <1>2 DEF Rotating
<1>6. ASSUME NEW t \in Types, Head(todo) = Ensure(t), day # 0, Len(files) < MaxFiles
      PROVE  Good(files, full, nor, t)
  <2>1. EnsureType = t
    BY <1>6, TaskKinds DEF EnsureType
  <2>2. full[t] \/ (Slot(t) # 0 /\ files[Slot(t)].day = day)
    BY <1>6, <2>1, SizeAssumption, InsideTables, TableDomain DEF EnsureReturns, NothingToEnsure, Inside
  <2>3. SlotIn(files, t) # 0 /\ files[SlotIn(files, t)].day = latest
         => EndOf(files[SlotIn(files, t)]) = Edge(nor, t)
    BY <1>1 DEF LogInv, NewestOpen
  <2> QED BY <1>3, <1>6, <2>2, <2>3, SlotIs DEF Good
<1>7. DayDone'
  <2>1. TaskDone /\ DayDone
    BY DEF EnsureReturns, LogInv
  <2>2. files' = files /\ nor' = nor
    BY <1>2 DEF StillThere
  <2> QED BY <1>0, <1>1, <1>2, <1>6, <2>1, <2>2, TaskDoneDays
<1> QED BY <1>4, <1>5, <1>7 DEF LogInv

LEMMA EnsureLatchesLog == IInv /\ LogInv /\ EnsureLatches => LogInv'
<1> SUFFICES ASSUME IInv, LogInv, EnsureLatches PROVE LogInv'
  OBVIOUS
<1>0. todo \in Seq(Tasks) /\ todo # <<>> /\ Head(todo).do = "ensure" /\ stage = "decide" /\ mode # "off"
  BY Parts DEF OpOK, EnsureLatches, Deciding, Doing, Idle, Committed
<1>1. ~Formatting /\ ~Wipes(Tail(todo))
  BY <1>0, NotWiping DEF LogInv
<1>2. StillThere /\ mode' = mode /\ todo' = Tail(todo) /\ stage' = "decide" /\ day' = day
      /\ full' = [full EXCEPT ![Head(todo).t] = TRUE] /\ ymd' = ymd
  BY DEF EnsureLatches, StillThere, TaskDone, flashVars, envVars, EnsureType
<1>3. day = clock
  BY <1>0, DayIsLatest
<1>4. /\ Calendar' /\ Regions(nor') /\ Behind' /\ Saved' /\ Erasing'
      /\ Untouched' /\ NewestOpen' /\ NewestSaved'
  BY <1>0, <1>1, <1>2, <1>3, QuietKeeps DEF StillThere
<1>5. Rotating'
  BY <1>2 DEF Rotating
<1>6. /\ \A t \in Types : Good(files, full, nor, t) => Good(files', full', nor', t)
      /\ \A t \in Types : Head(todo) = Ensure(t) => Good(files', full', nor', t)
  <2>1. full \in [Types -> BOOLEAN]
    BY Parts DEF FlagsOK
  <2>2. \A t \in Types : (full[t] => full'[t]) /\ (Head(todo).t = t => full'[t])
    BY <1>2, <2>1
  <2>3. \A t \in Types : Head(todo) = Ensure(t) => Head(todo).t = t
    BY TaskKinds
  <2> QED BY <1>2, <2>2, <2>3 DEF Good, StillThere
<1>7. DayDone'
  <2>1. TaskDone /\ DayDone
    BY DEF EnsureLatches, LogInv
  <2>2. files' = files
    BY <1>2 DEF StillThere
  <2> QED BY <1>0, <1>1, <1>2, <1>6, <2>1, <2>2, TaskDoneDays
<1> QED BY <1>4, <1>5, <1>7 DEF LogInv

LEMMA RecordCalendarDayLog == IInv /\ LogInv /\ RecordCalendarDay => LogInv'
<1> SUFFICES ASSUME IInv, LogInv, RecordCalendarDay PROVE LogInv'
  OBVIOUS
<1>0. todo \in Seq(Tasks) /\ todo # <<>> /\ Head(todo).do = "ymd" /\ stage = "decide" /\ mode # "off"
  BY Parts DEF OpOK, RecordCalendarDay, Doing, Idle, Committed
<1>1. ~Formatting /\ ~Wipes(Tail(todo))
  BY <1>0, NotWiping DEF LogInv
<1>2. StillThere /\ mode' = mode /\ todo' = Tail(todo) /\ stage' = "decide" /\ day' = day
      /\ full' = full
  BY DEF RecordCalendarDay, StillThere, TaskDone, flashVars, envVars
<1>3. day = clock
  BY <1>0, DayIsLatest
<1>4. /\ Calendar' /\ Regions(nor') /\ Behind' /\ Saved' /\ Erasing'
      /\ Untouched' /\ NewestOpen' /\ NewestSaved'
  BY <1>0, <1>1, <1>2, <1>3, QuietKeeps DEF StillThere
<1>5. Rotating'
  BY <1>2 DEF Rotating
<1>7. DayDone'
  <2>1. TaskDone /\ DayDone
    BY DEF RecordCalendarDay, LogInv
  <2>2. files' = files /\ nor' = nor
    BY <1>2 DEF StillThere
  <2>3. \A t \in Types : Head(todo) # Ensure(t)
    BY <1>0, TaskKinds
  <2> QED BY <1>0, <1>1, <1>2, <2>1, <2>2, <2>3, TaskDoneDays
<1> QED BY <1>4, <1>5, <1>7 DEF LogInv

\* Where the new file's header goes: nothing is written behind it yet.
LEMMA EnsureBeginsLog == IInv /\ LogInv /\ EnsureBegins => LogInv'
<1> SUFFICES ASSUME IInv, LogInv, EnsureBegins PROVE LogInv'
  OBVIOUS
<1> DEFINE h == Head(todo).t
<1>0. todo \in Seq(Tasks) /\ todo # <<>> /\ Head(todo).do = "ensure" /\ stage = "decide" /\ mode # "off"
      /\ h \in Types
  BY HeadTask, Parts DEF OpOK, EnsureBegins, Deciding, Doing, Idle, Committed
<1>1. ~Formatting /\ ~Wipes(todo)
  BY <1>0, NotWiping DEF LogInv
<1>2. StillThere /\ mode' = mode /\ todo' = todo /\ stage' \in {"close", "header"} /\ day' = day
      /\ full' = full /\ ymd' = ymd /\ off' = FirstErased(h)
  BY DEF EnsureBegins, StillThere, flashVars, ramVars, envVars, EnsureType
<1>3. day = clock
  BY <1>0, DayIsLatest
<1>4. /\ Calendar' /\ Regions(nor') /\ Behind' /\ Saved' /\ Erasing'
      /\ Untouched' /\ NewestOpen' /\ NewestSaved'
  BY <1>0, <1>1, <1>2, <1>3, QuietKeeps DEF StillThere
<1>5. Rotating'
  <2>1. ~full[h] /\ (Slot(h) # 0 => files[Slot(h)].day # day)
    BY DEF EnsureBegins, NothingToEnsure, EnsureType
  <2>2. FirstErased(h) \in 0..Size[h] /\ Size[h] \in Nat
    BY <1>0, FirstErasedBounds, SizeAssumption
  <2>3. off' + HeaderLen <= Size[h]
    <3>1. ~(FirstErased(h) + HeaderLen + (IF h = Provenance THEN DayStartReserve ELSE 0) > Size[h])
      BY DEF EnsureBegins, NoRoom, EnsureType
    <3> QED BY <1>2, <2>2, <3>1, RowAssumption DEF HeaderLen
  <2>4. off' = Edge(nor, h)
    BY <1>2, EdgeIs
  <2> QED BY <1>2, <2>1, <2>3, <2>4, SlotIs DEF Rotating, StillThere
<1>7. DayDone'
  BY <1>2 DEF LogInv, DayDone, Formatting, StillThere
<1> QED BY <1>4, <1>5, <1>7 DEF LogInv

\* A region that is latched is no longer written to, so nothing is asked of it.
LEMMA LatchGood ==
  ASSUME IInv, NEW h \in Types, full' = [full EXCEPT ![h] = TRUE],
         files' = files, nor' = nor
  PROVE  \A t \in Types : Good(files, full, nor, t) => Good(files', full', nor', t)
<1>1. full \in [Types -> BOOLEAN]
  BY Parts DEF FlagsOK
<1>2. \A t \in Types : full[t] => full'[t]
  BY <1>1
<1> QED BY <1>2 DEF Good

LEMMA RefusedRowLog == IInv /\ LogInv /\ Doing("row") /\ HasPending /\ Refused /\ TaskDone => LogInv'
<1> SUFFICES ASSUME IInv, LogInv, Doing("row"), HasPending, Refused, TaskDone PROVE LogInv'
  OBVIOUS
<1>0. todo \in Seq(Tasks) /\ todo # <<>> /\ Head(todo).do = "row" /\ stage = "decide" /\ mode # "off"
      /\ Head(todo).t \in Types
  BY HeadTask, Parts DEF OpOK, Doing, Idle, Committed
<1>1. ~Formatting /\ ~Wipes(Tail(todo))
  BY <1>0, NotWiping DEF LogInv
<1>2. StillThere /\ mode' = mode /\ todo' = Tail(todo) /\ stage' = "decide" /\ day' = day
      /\ full' = [full EXCEPT ![Head(todo).t] = TRUE] /\ ymd' = ymd
  BY PendingType DEF Refused, GuardRefuses, StillThere, TaskDone, flashVars, envVars
<1>3. day = clock
  BY <1>0, DayIsLatest
<1>4. /\ Calendar' /\ Regions(nor') /\ Behind' /\ Saved' /\ Erasing'
      /\ Untouched' /\ NewestOpen' /\ NewestSaved'
  BY <1>0, <1>1, <1>2, <1>3, QuietKeeps DEF StillThere
<1>5. Rotating'
  BY <1>2 DEF Rotating
<1>7. DayDone'
  <2>1. TaskDone /\ DayDone
    BY DEF LogInv
  <2>2. files' = files /\ nor' = nor
    BY <1>2 DEF StillThere
  <2>3. \A t \in Types : Head(todo) # Ensure(t)
    BY <1>0, TaskKinds
  <2>4. \A t \in Types : Good(files, full, nor, t) => Good(files', full', nor', t)
    BY <1>0, <1>2, <2>2, LatchGood
  <2> QED BY <1>0, <1>1, <1>2, <2>1, <2>2, <2>3, <2>4, TaskDoneDays
<1> QED BY <1>4, <1>5, <1>7 DEF LogInv

LEMMA RefusedDayStartLog ==
  IInv /\ LogInv /\ Writing("daystart") /\ stage' = "save" /\ Refused /\ UNCHANGED <<todo, off, day>>
    => LogInv'
<1> SUFFICES ASSUME IInv, LogInv, Writing("daystart"), stage' = "save", Refused,
                    UNCHANGED <<todo, off, day>>
             PROVE  LogInv'
  OBVIOUS
<1>0. todo \in Seq(Tasks) /\ todo # <<>> /\ Head(todo).do = "ensure" /\ stage = "daystart" /\ mode # "off"
      /\ Head(todo).t \in Types /\ HasPending
  BY HeadTask, Parts DEF OpOK, Writing, Doing, Idle, Committed, HasPending
<1>1. ~Formatting /\ ~Wipes(todo)
  BY <1>0, NotWiping DEF LogInv
<1>2. StillThere /\ mode' = mode /\ todo' = todo /\ stage' = "save" /\ day' = day
      /\ full' = [full EXCEPT ![Head(todo).t] = TRUE] /\ ymd' = ymd
  BY <1>0, PendingType DEF Refused, GuardRefuses, StillThere, flashVars, envVars
<1>3. day = clock
  BY <1>0, DayIsLatest
<1>4. /\ Calendar' /\ Regions(nor') /\ Behind' /\ Saved' /\ Erasing'
      /\ Untouched' /\ NewestOpen' /\ NewestSaved'
  BY <1>0, <1>1, <1>2, <1>3, QuietKeeps DEF StillThere
<1>5. Rotating'
  BY <1>2 DEF Rotating
<1>7. DayDone'
  <2>2. files' = files /\ nor' = nor
    BY <1>2 DEF StillThere
  <2>4. \A t \in Types : Good(files, full, nor, t) => Good(files', full', nor', t)
    BY <1>0, <1>2, <2>2, LatchGood
  <2> QED BY <1>2, <2>2, <2>4 DEF LogInv, DayDone, Formatting
<1> QED BY <1>4, <1>5, <1>7 DEF LogInv

\* A call that cannot add its row gives up.
LEMMA NoFileLog ==
  IInv /\ LogInv /\ Doing("row") /\ CallFails /\ UNCHANGED <<flashVars, envVars>> => LogInv'
<1> SUFFICES ASSUME IInv, LogInv, Doing("row"), CallFails, UNCHANGED <<flashVars, envVars>>
             PROVE  LogInv'
  OBVIOUS
<1>0. todo \in Seq(Tasks) /\ todo # <<>> /\ Head(todo).do = "row" /\ stage = "decide" /\ mode # "off"
  BY Parts DEF OpOK, Doing, Idle, Committed
<1>1. ~Formatting
  BY <1>0, NotWiping DEF LogInv
<1>2. StillThere /\ mode' # "off" /\ todo' = <<>> /\ stage' = "decide" /\ Idle'
      /\ full' = full /\ ymd' = ymd
  BY <1>0 DEF CallFails, StillThere, flashVars, envVars, Idle
<1>4. /\ Calendar' /\ Regions(nor') /\ Behind' /\ Saved' /\ Erasing'
      /\ Untouched' /\ NewestOpen' /\ NewestSaved'
  BY <1>0, <1>1, <1>2, NoAgenda, QuietKeeps DEF StillThere
<1>5. Rotating'
  BY <1>2 DEF Rotating
<1>7. DayDone'
  BY <1>1, <1>2, EmptySeq DEF LogInv, DayDone, StillThere
<1> QED BY <1>4, <1>5, <1>7 DEF LogInv

LEMMA StartAppendLog ==
  ASSUME IInv, LogInv, NEW t \in Types, NEW n \in RowSizes, StartAppend(t, n)
  PROVE  LogInv'
<1> DEFINE ag == AppendAgenda(t, n, clock, ymd)
<1>0. todo = <<>> /\ stage = "decide" /\ mode # "off" /\ ~Formatting
  BY EmptySeq, Parts DEF StartAppend, Calls, Idle, Up, OpOK, Committed, Doing, Formatting
<1>1. n \in Nat /\ ~Wipes(ag) /\ EnsuredFirst(ag, clock)
  <2>1. n \in Nat
    BY RowAssumption
  <2> QED BY <2>1, AppendAgendaShape
<1> HIDE DEF ag
<1>2. StillThere /\ mode' = "run" /\ todo' = ag /\ stage' = "decide" /\ day' = clock
      /\ full' = full /\ ymd' = ymd
  BY <1>0 DEF StartAppend, Calls, Call, StillThere, flashVars, envVars, ag
<1>4. /\ Calendar' /\ Regions(nor') /\ Behind' /\ Saved' /\ Erasing'
      /\ Untouched' /\ NewestOpen' /\ NewestSaved'
  BY <1>0, <1>1, <1>2, QuietKeeps DEF StillThere
<1>5. Rotating'
  BY <1>2 DEF Rotating
<1>7. DayDone'
  <2>1. ymd' # 0 /\ Len(files') < MaxFiles => \A u \in Types : Good(files', full', nor', u)
    BY <1>0, <1>2 DEF LogInv, DayDone, StillThere
  <2>2. \A i \in DOMAIN todo' : todo'[i].do = "ymd" =>
          day' # 0 /\ \A u \in Types : \E j \in 1..(i - 1) : todo'[j] = Ensure(u)
    BY <1>1, <1>2 DEF EnsuredFirst
  <2> QED BY <2>1, <2>2 DEF DayDone
<1> QED BY <1>4, <1>5, <1>7 DEF LogInv

LEMMA StartFormatLog == IInv /\ LogInv /\ StartFormat => LogInv'
<1> SUFFICES ASSUME IInv, LogInv, StartFormat PROVE LogInv'
  OBVIOUS
<1>0. stage = "decide" /\ mode # "off"
  BY Parts DEF StartFormat, Calls, Idle, Up, OpOK, Committed, Doing
<1>1. StillThere /\ mode' = "run" /\ todo' = FormatAll /\ stage' = "decide" /\ day' = clock
  BY <1>0 DEF StartFormat, Calls, Call, StillThere, flashVars, envVars
<1>2. Formatting'
  <2>1. \E i \in DOMAIN FormatAll : FormatAll[i] = Erase(Provenance)
    BY FormatAgenda, OrderAssumption
  <2>2. Wipes(FormatAll)
    BY <2>1, TaskKinds DEF Wipes
  <2> QED BY <1>1, <2>2, WipesIs
<1>3. Calendar' /\ Regions(nor')
  BY <1>1 DEF LogInv, Calendar, StillThere
<1>4. Behind' /\ Untouched' /\ NewestOpen' /\ NewestSaved' /\ DayDone'
  BY <1>2 DEF Behind, Untouched, NewestOpen, NewestSaved, DayDone
<1>5. Saved' /\ Rotating'
  BY <1>1, <1>2 DEF LogInv, Saved, Rotating, StillThere
<1>6. Erasing'
  BY <1>1, FormatAgenda DEF Erasing
<1> QED BY <1>3, <1>4, <1>5, <1>6 DEF LogInv

-----------------------------------------------------------------------------
(* Steps that program flash. *)

\* Every write begins where its region is erased, or before.
LEMMA WriteBehindEdge ==
  ASSUME IInv, LogInv, HasPending
  PROVE  /\ todo \in Seq(Tasks) /\ todo # <<>> /\ Head(todo).t \in Types /\ mode # "off"
         /\ ~Formatting /\ ~Wipes(todo) /\ ~Wipes(Tail(todo))
         /\ Pending.at \in 0..Edge(nor, Head(todo).t)
         /\ Edge(nor, Head(todo).t) \in 0..Size[Head(todo).t]
         /\ Size[Head(todo).t] \in Nat
<1> DEFINE h == Head(todo).t
<1>1. todo \in Seq(Tasks) /\ todo # <<>> /\ h \in Types /\ mode # "off"
      /\ Head(todo).do \in {"ensure", "row"}
  BY HeadTask, Parts DEF OpOK, HasPending, Writing, Doing, Idle, Committed
<1>2. ~Formatting /\ ~Wipes(todo) /\ ~Wipes(Tail(todo))
  BY <1>1, NotWiping DEF LogInv
<1>3. Edge(nor, h) \in 0..Size[h] /\ Size[h] \in Nat
  BY <1>1, EdgeIs, FirstErasedBounds, SizeAssumption
<1>4. Pending.at \in Nat
  BY PendingType
<1>5. CASE stage = "header"
  <2>1. Edge(nor, h) \in {off, off + 1} /\ Pending.at = off
    BY <1>5, PendingType DEF LogInv, Rotating
  <2> QED BY <1>1, <1>2, <1>3, <1>4, <2>1
<1>6. CASE stage # "header"
  <2>1. Slot(h) \in DOMAIN files /\ files[Slot(h)].t = h
    BY <1>6, CurrentFile
  <2>2. Pending.at = EndOf(files[Slot(h)])
    BY <1>6, PendingType DEF HasPending, Writing
  <2>3. EndOf(files[Slot(h)]) <= Edge(nor, h)
    BY <1>2, <2>1 DEF LogInv, Behind, Within
  <2> QED BY <1>1, <1>2, <1>3, <1>4, <2>2, <2>3
<1> QED BY <1>5, <1>6

LEMMA AllowedWrote ==
  ASSUME IInv, LogInv, HasPending, Allowed
  PROVE  /\ Wrote(nor, nor', Head(todo).t, Pending.at, Pending.cells)
         /\ Len(Pending.cells) \in Nat
         /\ Pending.at + Len(Pending.cells) <= Size[Head(todo).t]
<1> DEFINE h == Head(todo).t
           c == Pending.cells
           at == Pending.at
<1>1. h \in Types /\ at \in 0..Edge(nor, h)
  BY WriteBehindEdge
<1>2. c \in Seq(Cell) /\ Pending.t = h /\ at + Len(c) <= Size[h]
  BY PendingType, AllowedWrite
<1>3. Len(c) \in Nat
  BY <1>2, LenProperties
<1>4. \A i \in 1..Len(c) : c[i].k # "blank"
  BY PendingCells
<1>5. nor' = [nor EXCEPT ![h] = Program(nor[h], at, c)]
  BY <1>2 DEF Allowed, GuardAllows
<1>6. NorOK /\ Regions(nor)
  BY Parts DEF LogInv
<1> HIDE DEF h, c, at
<1>7. Wrote(nor, nor', h, at, c)
  BY <1>1, <1>2, <1>3, <1>4, <1>5, <1>6, RegionWritten
<1> QED BY <1>2, <1>3, <1>7 DEF h, c, at

\* What is in flash after a write was there before, or is of what was written.
LEMMA CellFrom ==
  ASSUME NEW nr, NEW nr2, NEW h \in Types, NEW at \in Nat, NEW c, Len(c) \in Nat,
         Wrote(nr, nr2, h, at, c), NEW t \in Types, NEW i \in 0..(Size[t] - 1)
  PROVE  \/ nr2[t][i] = nr[t][i] \/ nr2[t][i].k = "smear"
         \/ \E j \in 1..Len(c) : t = h /\ i = at + j - 1 /\ nr2[t][i] = c[j]
<1>1. CASE t # h
  BY <1>1 DEF Wrote
<1>2. CASE t = h /\ i >= at /\ i < at + Len(c)
  <2>1. nr2[t][i] \in {Smear, c[i - at + 1]}
    BY <1>2 DEF Wrote
  <2>2. i - at + 1 \in 1..Len(c) /\ i = at + (i - at + 1) - 1
    BY <1>2
  <2> QED BY <1>2, <2>1, <2>2 DEF Smear
<1>3. CASE t = h /\ ~(i >= at /\ i < at + Len(c))
  BY <1>3 DEF Wrote
<1> QED BY <1>1, <1>2, <1>3

\* A write moves no edge back, and brings only what it writes.
LEMMA WroteEdges ==
  ASSUME NEW nr, NEW nr2, NEW h \in Types, NEW at \in Nat, NEW c, Len(c) \in Nat,
         Wrote(nr, nr2, h, at, c), Edge(nr, h) \in Nat
  PROVE  \A t \in Types : Edge(nr2, t) = Edge(nr, t) \/ (t = h /\ Edge(nr2, t) > Edge(nr, t))
<1>1. ASSUME NEW t \in Types, t # h PROVE Edge(nr2, t) = Edge(nr, t)
  BY <1>1 DEF Wrote, Edge
<1>2. Edge(nr2, h) = Edge(nr, h) \/ Edge(nr2, h) > Edge(nr, h)
  BY DEF Wrote
<1> QED BY <1>1, <1>2

LEMMA WroteNames ==
  ASSUME NEW nr, NEW nr2, NEW h \in Types, NEW at \in Nat, NEW c, Len(c) \in Nat,
         Wrote(nr, nr2, h, at, c), NEW d, NamesUpTo(nr, d),
         \A i \in 1..Len(c) : c[i].k = "name" => c[i].d <= d
  PROVE  NamesUpTo(nr2, d)
<1> SUFFICES ASSUME NEW t \in Types, NEW i \in 0..(Size[t] - 1), nr2[t][i].k = "name"
             PROVE  nr2[t][i].d <= d
  BY DEF NamesUpTo
<1> DEFINE Came == \E j \in 1..Len(c) : t = h /\ i = at + j - 1 /\ nr2[t][i] = c[j]
<1>1. nr2[t][i] = nr[t][i] \/ nr2[t][i].k = "smear" \/ Came
  BY CellFrom
<1>2. Came => nr2[t][i].d <= d
  OBVIOUS
<1> HIDE DEF Came
<1> QED BY <1>1, <1>2 DEF NamesUpTo

LEMMA WroteNoEof ==
  ASSUME NEW nr, NEW nr2, NEW h \in Types, NEW at \in Nat, NEW c, Len(c) \in Nat,
         Wrote(nr, nr2, h, at, c), \A i \in 1..Len(c) : c[i].k # "eof",
         NEW t \in Types, NEW p \in Nat, NoEof(nr, t, p)
  PROVE  NoEof(nr2, t, p)
<1> SUFFICES ASSUME NEW i \in p..(Size[t] - 1), nr2[t][i].k = "eof"
             PROVE  FALSE
  BY DEF NoEof, EofIn
<1> DEFINE Came == \E j \in 1..Len(c) : t = h /\ i = at + j - 1 /\ nr2[t][i] = c[j]
<1>1. nr2[t][i] = nr[t][i] \/ nr2[t][i].k = "smear" \/ Came
  <2>1. i \in 0..(Size[t] - 1)
    BY SizeAssumption
  <2> QED BY <2>1, CellFrom
<1>2. ~Came
  OBVIOUS
<1> QED BY <1>1, <1>2 DEF NoEof, EofIn

\* A table whose files stay behind the edge stays so.
LEMMA WithinStays ==
  ASSUME NEW fs \in Tables, NEW nr, NEW nr2, Within(fs, nr),
         \A t \in Types : Edge(nr, t) \in Nat,
         \A t \in Types : Edge(nr2, t) = Edge(nr, t) \/ Edge(nr2, t) > Edge(nr, t),
         \A t \in Types : Edge(nr2, t) \in Nat
  PROVE  Within(fs, nr2)
<1> SUFFICES ASSUME NEW i \in DOMAIN fs PROVE EndOf(fs[i]) <= Edge(nr2, fs[i].t)
  BY DEF Within
<1>1. fs[i].t \in Types /\ EndOf(fs[i]) \in Nat
  BY TableDomain DEF Entry, EndOf
<1>2. EndOf(fs[i]) <= Edge(nr, fs[i].t)
  BY DEF Within
<1> QED BY <1>1, <1>2

\* A region's edge is a place in it, whatever the flash.
LEMMA EdgeNat ==
  ASSUME NEW nr, Regions(nr)
  PROVE  \A t \in Types : Edge(nr, t) \in 0..Size[t] /\ Edge(nr, t) \in Nat
<1> SUFFICES ASSUME NEW t \in Types PROVE Edge(nr, t) \in 0..Size[t] /\ Edge(nr, t) \in Nat
  OBVIOUS
<1>1. Filled(nr[t], Size[t], Edge(nr, t)) /\ Size[t] \in Nat
  BY SizeAssumption DEF Regions
<1> QED BY <1>1 DEF Filled

LEMMA GrowTable ==
  ASSUME NEW s \in DOMAIN files, files \in Tables, NEW n \in Nat, NEW a \in BOOLEAN
  PROVE  Grow(s, n, a) \in Tables /\ Len(Grow(s, n, a)) = Len(files)
<1>1. files[s] \in Entry
  BY TableDomain
<1>2. files[s].len + n \in Nat
  BY <1>1 DEF Entry
<1> QED BY <1>1, <1>2, ResizeFile DEF Grow

LEMMA GrowEffect ==
  ASSUME NEW s \in DOMAIN files, files \in Tables, NEW n \in Nat, NEW a \in BOOLEAN,
         files' = Grow(s, n, a)
  PROVE  /\ DOMAIN files' = DOMAIN files /\ Len(files') = Len(files) /\ files' \in Tables
         /\ files'[s].active = a /\ EndOf(files'[s]) = EndOf(files[s]) + n
         /\ \A i \in DOMAIN files : i # s => files'[i] = files[i]
         /\ \A i \in DOMAIN files : Alike(files'[i], files[i])
         /\ \A t : SlotIn(files', t) = SlotIn(files, t)
<1>1. files[s] \in Entry
  BY TableDomain
<1>2. files[s].len + n \in Nat
  BY <1>1 DEF Entry
<1>3. files' = [files EXCEPT ![s] = Resized(files[s], files[s].len + n, a)]
  BY DEF Grow
<1>4. files' \in Tables /\ Len(files') = Len(files)
  BY GrowTable
<1>5. DOMAIN files' = DOMAIN files /\ files'[s] = Resized(files[s], files[s].len + n, a)
      /\ \A i \in DOMAIN files : i # s => files'[i] = files[i]
  BY <1>3
<1>6. files'[s].active = a /\ EndOf(files'[s]) = EndOf(files[s]) + n /\ Alike(files'[s], files[s])
  BY <1>1, <1>5 DEF Resized, EndOf, Alike, Entry
<1>7. \A i \in DOMAIN files : Alike(files'[i], files[i])
  BY <1>5, <1>6 DEF Alike
<1>8. \A t : SlotIn(files', t) = SlotIn(files, t)
  BY <1>5, <1>7, SlotSame DEF Alike
<1> QED BY <1>4, <1>5, <1>6, <1>7, <1>8

\* A write of n cells at the end of file s, the newest of type h, makes the file
\* that much longer and leaves the other types as they were.
Grown(h, s, n, a) ==
  /\ Calendar' /\ Regions(nor') /\ Behind' /\ Erasing' /\ ~Formatting'
  /\ s # 0 /\ SlotIn(files', h) = s /\ h \in Types /\ s \in DOMAIN files /\ files[s].t = h
  /\ DOMAIN files' = DOMAIN files /\ Len(files') = Len(files)
  /\ \A i \in DOMAIN files : Alike(files'[i], files[i])
  /\ files'[s].active = a
  /\ Pending.at = EndOf(files[s]) /\ Pending.at \in Nat /\ n \in Nat
  /\ EndOf(files'[s]) = EndOf(files[s]) + n
  /\ Edge(nor', h) = IF EndOf(files'[s]) > Edge(nor, h) THEN EndOf(files'[s]) ELSE Edge(nor, h)
  /\ \A t \in Types : t # h =>
       /\ nor'[t] = nor[t] /\ Edge(nor', t) = Edge(nor, t)
       /\ SlotIn(files', t) = SlotIn(files, t)
       /\ SlotIn(files, t) # 0 => files'[SlotIn(files, t)] = files[SlotIn(files, t)]
  /\ \A t \in Types : Good(files, full, nor, t) => Good(files', full', nor', t)

LEMMA GrowWrite ==
  ASSUME IInv, LogInv, HasPending, stage # "header", Allowed, NEW a \in BOOLEAN,
         NEW n, n = Len(Pending.cells),
         files' = Grow(Slot(Head(todo).t), n, a),
         UNCHANGED <<cached, cache, full, clock, latest, day, mode>>, ~Wipes(todo')
  PROVE  Grown(Head(todo).t, SlotIn(files, Head(todo).t), n, a)
<1> DEFINE h == Head(todo).t
           s == SlotIn(files, h)
           c == Pending.cells
           at == Pending.at
<1>1. /\ todo \in Seq(Tasks) /\ todo # <<>> /\ h \in Types /\ mode # "off"
      /\ ~Formatting /\ at \in 0..Edge(nor, h) /\ Edge(nor, h) \in 0..Size[h] /\ Size[h] \in Nat
  BY WriteBehindEdge
<1>2. Wrote(nor, nor', h, at, c) /\ Len(c) \in Nat /\ at + Len(c) <= Size[h] /\ at \in Nat
  BY <1>1, AllowedWrote
<1>3. s = Slot(h) /\ s # 0 /\ s \in DOMAIN files /\ files[s].t = h
  BY SlotIs, CurrentFile DEF HasPending, Writing, IInv, Committed
<1>4. at = EndOf(files[s])
  BY <1>3, PendingType DEF HasPending, Writing
<1>5. files \in Tables /\ cache \in Tables
  BY InsideTables DEF Inside
<1>6. /\ DOMAIN files' = DOMAIN files /\ Len(files') = Len(files) /\ files' \in Tables
      /\ files'[s].active = a /\ EndOf(files'[s]) = EndOf(files[s]) + Len(c)
      /\ \A i \in DOMAIN files : i # s => files'[i] = files[i]
      /\ \A i \in DOMAIN files : Alike(files'[i], files[i])
      /\ \A t : SlotIn(files', t) = SlotIn(files, t)
  BY <1>2, <1>3, <1>5, GrowEffect
<1>7. Regions(nor') /\ Regions(nor)
  BY <1>2 DEF Wrote, LogInv
<1>8. \A t \in Types : Edge(nor, t) \in Nat /\ Edge(nor', t) \in Nat
  BY <1>7, EdgeNat
<1>9. \A i \in 1..Len(c) : c[i].k = "name" => c[i].d = day
  BY PendingCells
<1>10. /\ \A t \in Types : Edge(nor', t) = Edge(nor, t) \/ Edge(nor', t) > Edge(nor, t)
       /\ NamesUpTo(nor', latest)
  <2>1. NamesUpTo(nor, latest) /\ clock \in {0, latest} /\ day = clock
    BY <1>1, DayIsLatest DEF LogInv, Calendar
  <2>2. day <= latest
    BY <2>1, Parts DEF CountsOK
  <2>3. \A i \in 1..Len(c) : c[i].k = "name" => c[i].d <= latest
    BY <1>9, <2>2
  <2>4. Edge(nor, h) \in Nat
    BY <1>1
  <2> HIDE DEF c, at, h
  <2>5. \A t \in Types : Edge(nor', t) = Edge(nor, t) \/ (t = h /\ Edge(nor', t) > Edge(nor, t))
    BY <1>1, <1>2, <2>4, WroteEdges
  <2>6. NamesUpTo(nor', latest)
    BY <1>1, <1>2, <2>1, <2>3, WroteNames
  <2> QED BY <2>5, <2>6
<1>11. Edge(nor', h) = IF EndOf(files'[s]) > Edge(nor, h) THEN EndOf(files'[s]) ELSE Edge(nor, h)
  BY <1>2, <1>4, <1>6 DEF Wrote
<1>12. ASSUME NEW t \in Types, t # h
       PROVE  /\ nor'[t] = nor[t] /\ Edge(nor', t) = Edge(nor, t)
              /\ SlotIn(files', t) = SlotIn(files, t)
              /\ SlotIn(files, t) # 0 => files'[SlotIn(files, t)] = files[SlotIn(files, t)]
  <2>1. nor'[t] = nor[t]
    BY <1>2, <1>12 DEF Wrote
  <2>2. SlotIn(files, t) # 0 => SlotIn(files, t) \in DOMAIN files /\ files[SlotIn(files, t)].t = t
    BY SlotInIndex
  <2> QED BY <1>3, <1>6, <1>12, <2>1, <2>2 DEF Edge
<1>13. Calendar'
  <2>1. DaysUpTo(files', latest)
    BY <1>6 DEF LogInv, Calendar, DaysUpTo, Alike
  <2>2. ~Idle' => day' = clock
    BY <1>1, DayIsLatest
  <2> QED BY <1>10, <2>1, <2>2 DEF LogInv, Calendar
<1>14. Behind'
  <2>1. Within(cache, nor')
    BY <1>1, <1>5, <1>8, <1>10, WithinStays DEF LogInv, Behind
  <2>2. ASSUME NEW i \in DOMAIN files' PROVE EndOf(files'[i]) <= Edge(nor', files'[i].t)
    <3>1. files[i] \in Entry
      BY <1>5, <1>6, TableDomain
    <3>2. files'[i].t = files[i].t /\ files[i].t \in Types /\ EndOf(files[i]) \in Nat
      BY <1>6, <3>1 DEF Alike, Entry, EndOf
    <3>3. EndOf(files[i]) <= Edge(nor, files[i].t)
      BY <1>1, <1>6 DEF LogInv, Behind, Within
    <3>4. CASE i = s
      <4>1. EndOf(files'[s]) \in Nat
        BY <1>2, <1>6, <3>2, <3>4
      <4> QED BY <1>1, <1>3, <1>11, <3>2, <3>4, <4>1
    <3>5. CASE i # s
      BY <1>6, <1>8, <1>10, <3>2, <3>3, <3>5
    <3> QED BY <3>4, <3>5
  <2> QED BY <2>1, <2>2 DEF Behind, Within
<1>15. ~Formatting' /\ Erasing'
  BY WipesIs DEF Erasing
<1>16. ASSUME NEW t \in Types, Good(files, full, nor, t)
       PROVE  Good(files', full', nor', t)
  <2>1. CASE t = h
    <3>1. ~full[h]
      BY <1>1, AllowedWrite
    <3>2. EndOf(files[s]) = Edge(nor, h)
      BY <1>3, <1>16, <2>1, <3>1 DEF Good
    <3>3. EndOf(files'[s]) = Edge(nor', h)
      BY <1>1, <1>2, <1>6, <1>11, <3>2
    <3> QED BY <1>6, <2>1, <3>3 DEF Good
  <2>2. CASE t # h
    BY <1>12, <1>16, <2>2 DEF Good
  <2> QED BY <2>1, <2>2
<1> QED BY <1>1, <1>2, <1>3, <1>4, <1>6, <1>7, <1>11, <1>12, <1>13, <1>14, <1>15, <1>16 DEF Grown

\* The cache lists a type's newest file in the same place as RAM.
LEMMA SavedSlot ==
  ASSUME IInv, LogInv, mode # "off", ~Formatting, stage \notin {"daystart", "save"}
  PROVE  /\ DOMAIN cache = DOMAIN files /\ Len(cache) = Len(files)
         /\ \A i \in DOMAIN cache : Alike(cache[i], files[i])
         /\ \A t : SlotIn(cache, t) = SlotIn(files, t)
         /\ ~cached => \A t : SlotIn(files, t) = 0
<1>1. Len(files) = Len(cache) /\ \A i \in DOMAIN cache : Alike(cache[i], files[i])
  <2>1. Opened = 0
    BY DEF Opened
  <2>2. Len(cache) \in Nat
    BY InsideTables, TableDomain DEF Inside
  <2> QED BY <2>1, <2>2 DEF LogInv, Saved
<1>2. DOMAIN cache = DOMAIN files
  BY <1>1, InsideTables, TableDomain DEF Inside
<1>3. \A t : SlotIn(cache, t) = SlotIn(files, t)
  BY <1>1, <1>2, SlotSame DEF Alike
<1>4. ~cached => \A t : SlotIn(files, t) = 0
  BY <1>3, NoSlot DEF LogInv, Saved
<1> QED BY <1>1, <1>2, <1>3, <1>4

\* The #EOF of an old file: Rotating says it fits and the region is not latched.
LEMMA CloseAllowed ==
  ASSUME IInv, LogInv, CloseOld
  PROVE  /\ HasPending /\ stage = "close" /\ todo # <<>> /\ ~Formatting /\ mode # "off"
         /\ Head(todo).t \in Types /\ ~Wipes(todo)
         /\ ~full[Head(todo).t] /\ off + HeaderLen <= Size[Head(todo).t] /\ off \in Nat
         /\ Edge(nor, Head(todo).t) = off /\ Size[Head(todo).t] \in Nat
         /\ SlotIn(files, Head(todo).t) # 0 => files[SlotIn(files, Head(todo).t)].day # day
         /\ Len(Pending.cells) = 1 /\ Pending.t = Head(todo).t
         /\ Allowed
         /\ files' = Grow(Slot(Head(todo).t), 1, FALSE)
         /\ stage' = "header"
         /\ UNCHANGED <<cached, cache, mode, full, ymd, todo, off, day, envVars>>
<1> DEFINE h == Head(todo).t
           s == SlotIn(files, h)
<1>0. HasPending /\ stage = "close" /\ todo # <<>> /\ ~Formatting /\ mode # "off" /\ h \in Types /\ ~Wipes(todo)
  BY WriteBehindEdge DEF CloseOld, HasPending, Writing
<1>1. /\ ~full[h] /\ off + HeaderLen <= Size[h] /\ off \in Nat /\ Edge(nor, h) = off /\ Size[h] \in Nat
      /\ s # 0 => files[s].day # day
  BY <1>0, Parts, WriteBehindEdge DEF LogInv, Rotating, OpOK
<1>2. Len(Pending.cells) = 1 /\ Pending.t = h
  BY <1>0, PendingType
<1>3. ~Refused
  BY <1>0, <1>1, <1>2, WriteBehindEdge DEF Refused, GuardRefuses, Fits, HeaderLen
<1> QED BY <1>0, <1>1, <1>2, <1>3 DEF CloseOld, EnsureType

LEMMA CloseOldLog == IInv /\ LogInv /\ CloseOld => LogInv'
<1> SUFFICES ASSUME IInv, LogInv, CloseOld PROVE LogInv'
  OBVIOUS
<1> DEFINE h == Head(todo).t
           s == SlotIn(files, h)
<1>0. HasPending /\ stage = "close" /\ todo # <<>> /\ ~Formatting /\ mode # "off" /\ h \in Types /\ ~Wipes(todo)
  BY CloseAllowed
<1>1. /\ ~full[h] /\ off + HeaderLen <= Size[h] /\ off \in Nat /\ Edge(nor, h) = off /\ Size[h] \in Nat
      /\ s # 0 => files[s].day # day
  BY CloseAllowed
<1>2. Len(Pending.cells) = 1
  BY CloseAllowed
<1>4. /\ Allowed
      /\ files' = Grow(Slot(h), 1, FALSE)
      /\ stage' = "header"
      /\ UNCHANGED <<cached, cache, mode, full, ymd, todo, off, day, envVars>>
  BY CloseAllowed
<1>5. UNCHANGED <<cached, cache, full, clock, latest, day, mode>> /\ ~Wipes(todo')
  BY <1>0, <1>4 DEF envVars
<1>6. Grown(h, s, 1, FALSE)
  <2>1. 1 = Len(Pending.cells) /\ stage # "header" /\ FALSE \in BOOLEAN
    BY <1>0, <1>2
  <2> QED BY <1>0, <1>4, <1>5, <2>1, GrowWrite
<1> HIDE DEF h, s
<1>8. day = latest /\ day # 0 /\ h = Head(todo).t /\ s = SlotIn(files, h)
  BY <1>0, DayIsLatest, DayRange DEF IInv, Committed, Days, h, s
<1>7. cached /\ SlotIn(cache, h) = s /\ Len(cache) = Len(files) /\ Alike(cache[s], files[s])
      /\ DOMAIN cache = DOMAIN files /\ \A i \in DOMAIN cache : Alike(cache[i], files[i])
  BY <1>0, <1>6, <1>8, SavedSlot DEF Grown
<1>9. Saved'
  <2>1. Opened' = 0 /\ stage' \notin {"daystart", "save"}
    BY <1>4 DEF Opened
  <2>2. Len(cache') \in Nat /\ Len(files') = Len(cache')
    BY <1>5, <1>6, <1>7, InsideTables, TableDomain DEF Inside, Grown
  <2>3. \A i \in DOMAIN cache' : Alike(cache'[i], files'[i])
    BY <1>5, <1>6, <1>7 DEF Alike, Grown
  <2>4. cached' /\ mode' # "off"
    BY <1>0, <1>5, <1>7
  <2> QED BY <2>1, <2>2, <2>3, <2>4 DEF Saved
<1>10. Untouched'
  BY <1>5, <1>7 DEF Untouched
<1>11. Rotating'
  <2>1. Edge(nor', h) \in {off, off + 1}
    BY <1>0, <1>1, <1>6, WriteBehindEdge DEF h, Grown
  <2>2. files'[s].day # day
    BY <1>1, <1>6 DEF Alike, Grown
  <2> QED BY <1>1, <1>4, <1>6, <1>8, <2>1, <2>2 DEF Rotating, Grown
<1>12. NewestOpen'
  <2> SUFFICES ASSUME NEW t \in Types, SlotIn(files', t) # 0
               PROVE  LET i == SlotIn(files', t)
                      IN /\ files'[i].active \/ (stage' = "header" /\ Head(todo').t = t)
                         /\ files'[i].day = latest'
                              => EndOf(files'[i]) = Edge(nor', t) /\ NoEof(nor', t, files'[i].off)
    BY DEF NewestOpen
  <2>1. CASE t = h
    <3>1. files'[s].day # latest
      BY <1>1, <1>6, <1>8 DEF Alike, Grown
    <3> QED BY <1>4, <1>5, <1>6, <1>8, <2>1, <3>1 DEF Grown
  <2>2. CASE t # h
    <3>1. NoEof(nor', t, files[SlotIn(files, t)].off) <=> NoEof(nor, t, files[SlotIn(files, t)].off)
      BY <1>6, <2>2 DEF NoEof, Grown
    <3> QED BY <1>0, <1>5, <1>6, <2>2, <3>1 DEF LogInv, NewestOpen, Grown
  <2> QED BY <2>1, <2>2
<1>13. NewestSaved'
  <2> SUFFICES ASSUME NEW t \in Types, SlotIn(cache, t) # 0
               PROVE  LET i == SlotIn(cache, t)
                      IN cache[i].active /\ (cache[i].day = latest => NoEof(nor', t, cache[i].off))
    BY <1>5 DEF NewestSaved
  <2>0. cache[SlotIn(cache, t)].active
        /\ (cache[SlotIn(cache, t)].day = latest => NoEof(nor, t, cache[SlotIn(cache, t)].off))
    BY <1>0 DEF LogInv, NewestSaved
  <2>1. CASE t = h
    BY <1>1, <1>6, <1>7, <1>8, <2>0, <2>1 DEF Alike, Grown
  <2>2. CASE t # h
    BY <1>6, <2>0, <2>2 DEF NoEof, Grown
  <2> QED BY <2>1, <2>2
<1>14. DayDone'
  BY <1>0, <1>4, <1>6 DEF LogInv, DayDone, Grown
<1> QED BY <1>6, <1>9, <1>10, <1>11, <1>12, <1>13, <1>14 DEF LogInv, Grown

\* The header of a new file: Rotating says it fits and the region is not latched.
LEMMA HeaderAllowed ==
  ASSUME IInv, LogInv, WriteHeader
  PROVE  /\ HasPending /\ stage = "header" /\ todo # <<>> /\ ~Formatting /\ mode # "off"
         /\ Head(todo).t \in Types /\ ~Wipes(todo) /\ ~full[Head(todo).t]
         /\ Pending.at = off /\ off \in Nat /\ Len(Pending.cells) = 2
         /\ Size[Head(todo).t] \in Nat /\ off + 2 <= Size[Head(todo).t]
         /\ Edge(nor, Head(todo).t) \in {off, off + 1}
         /\ SlotIn(files, Head(todo).t) # 0 => files[SlotIn(files, Head(todo).t)].day # day
         /\ day = clock /\ day = latest /\ day \in Days /\ Len(files) < MaxFiles
         /\ Allowed
         /\ files' = Append(files, [t |-> EnsureType, day |-> day, off |-> off,
                                    len |-> HeaderLen, active |-> TRUE])
         /\ stage' \in {"daystart", "save"}
         /\ UNCHANGED <<cached, cache, mode, full, ymd, todo, off, day, clock, latest>>
<1> DEFINE h == Head(todo).t
<1>0. HasPending /\ stage = "header" /\ todo # <<>> /\ ~Formatting /\ mode # "off" /\ h \in Types
      /\ ~Wipes(todo) /\ Size[h] \in Nat
  BY WriteBehindEdge DEF WriteHeader, HasPending, Writing
<1>1. /\ ~full[h] /\ off + 2 <= Size[h] /\ off \in Nat /\ Edge(nor, h) \in {off, off + 1}
      /\ SlotIn(files, h) # 0 => files[SlotIn(files, h)].day # day
  BY <1>0, Parts DEF LogInv, Rotating, OpOK, HeaderLen
<1>2. Len(Pending.cells) = 2 /\ Pending.t = h /\ Pending.at = off
  BY <1>0, PendingType DEF HeaderLen
<1>3. ~Refused
  BY <1>1, <1>2 DEF Refused, GuardRefuses, Fits
<1>4. day \in Days /\ Len(files) < MaxFiles
  BY <1>0 DEF IInv, Committed
<1>5. day = clock /\ day = latest
  BY <1>0, <1>4, DayIsLatest, DayRange DEF Days
<1> QED BY <1>0, <1>1, <1>2, <1>3, <1>4, <1>5 DEF WriteHeader, envVars

\* What the new entry does to the table.
LEMMA EntryAdded ==
  ASSUME IInv, LogInv, WriteHeader
  PROVE  /\ files' \in Tables /\ Len(files') = Len(files) + 1 /\ Len(files) \in Nat
         /\ DOMAIN files = 1..Len(files) /\ DOMAIN files' = 1..(Len(files) + 1)
         /\ \A i \in 1..Len(files) : files'[i] = files[i]
         /\ LET e == files'[Len(files) + 1]
            IN /\ e.t = Head(todo).t /\ e.day = day /\ e.off = off /\ e.active
               /\ EndOf(e) = off + 2
         /\ SlotIn(files', Head(todo).t) = Len(files) + 1
         /\ \A u : u # Head(todo).t => SlotIn(files', u) = SlotIn(files, u)
<1> DEFINE e == [t |-> EnsureType, day |-> day, off |-> off, len |-> HeaderLen, active |-> TRUE]
<1>1. /\ Head(todo).t \in Types /\ off \in Nat /\ day \in Days /\ Len(files) < MaxFiles
      /\ files' = Append(files, e)
  BY HeaderAllowed
<1>2. e \in Entry /\ EndOf(e) = off + 2 /\ e.t = Head(todo).t /\ e.day = day /\ e.off = off /\ e.active
  BY <1>1 DEF Entry, EndOf, HeaderLen, EnsureType
<1> HIDE DEF e
<1>3. files \in Tables
  BY InsideTables DEF Inside
<1>4. /\ files' \in Tables /\ Len(files') = Len(files) + 1 /\ files'[Len(files) + 1] = e
      /\ \A i \in 1..Len(files) : files'[i] = files[i]
  BY <1>1, <1>2, <1>3, AddEntry
<1>5. Len(files) \in Nat /\ DOMAIN files = 1..Len(files) /\ DOMAIN files' = 1..(Len(files) + 1)
  BY <1>3, <1>4, TableDomain
<1>6. /\ SlotIn(files', Head(todo).t) = Len(files) + 1
      /\ \A u : u # Head(todo).t => SlotIn(files', u) = SlotIn(files, u)
  BY <1>2, <1>4, <1>5, SlotAppended
<1> QED BY <1>2, <1>4, <1>5, <1>6

\* What it does to the flash.
LEMMA HeaderInFlash ==
  ASSUME IInv, LogInv, WriteHeader
  PROVE  /\ Regions(nor') /\ Edge(nor', Head(todo).t) = off + 2
         /\ \A u \in Types : u # Head(todo).t => nor'[u] = nor[u] /\ Edge(nor', u) = Edge(nor, u)
         /\ \A u \in Types : Edge(nor', u) = Edge(nor, u) \/ Edge(nor', u) > Edge(nor, u)
         /\ NamesUpTo(nor', latest)
         /\ NoEof(nor', Head(todo).t, off)
         /\ \A i \in off..(Size[Head(todo).t] - 1) : nor'[Head(todo).t][i].k # "row"
         /\ \A t \in Types : \A i \in 0..(Size[t] - 1) :
              nor'[t][i] = nor[t][i] \/ nor'[t][i].k \notin {"eof", "row"}
<1> DEFINE h == Head(todo).t
           c == Pending.cells
<1>0. /\ HasPending /\ stage = "header" /\ h \in Types /\ Pending.at = off /\ off \in Nat
      /\ Len(c) = 2 /\ Edge(nor, h) \in {off, off + 1} /\ day = latest /\ Allowed /\ ~Formatting
  BY HeaderAllowed
<1>1. Wrote(nor, nor', h, off, c) /\ Len(c) \in Nat
  BY <1>0, AllowedWrote
<1>2. \A i \in 1..Len(c) : c[i].k \notin {"eof", "row"} /\ (c[i].k = "name" => c[i].d = day)
  <2>1. ~Doing("row")
    BY <1>0 DEF IInv, Committed, Doing
  <2> QED BY <1>0, <2>1, PendingCells
<1> HIDE DEF h, c
<1>3. Regions(nor') /\ Edge(nor', h) = off + 2
  BY <1>0, <1>1 DEF Wrote
<1>4. ASSUME NEW u \in Types, u # h PROVE nor'[u] = nor[u] /\ Edge(nor', u) = Edge(nor, u)
  BY <1>1, <1>4 DEF Wrote, Edge
<1>5. \A u \in Types : Edge(nor', u) = Edge(nor, u) \/ Edge(nor', u) > Edge(nor, u)
  BY <1>0, <1>3, <1>4
<1>6. NamesUpTo(nor', latest)
  <2>1. NamesUpTo(nor, latest)
    BY DEF LogInv, Calendar
  <2>2. \A i \in 1..Len(c) : c[i].k = "name" => c[i].d <= latest
    <3>1. latest \in Nat
      BY Parts, DayRange DEF CountsOK
    <3> QED BY <1>0, <1>2, <3>1
  <2> QED BY <1>0, <1>1, <2>1, <2>2, WroteNames
<1>7. ASSUME NEW t \in Types, NEW i \in 0..(Size[t] - 1)
      PROVE  nor'[t][i] = nor[t][i] \/ nor'[t][i].k \notin {"eof", "row"}
  <2> DEFINE Came == \E j \in 1..Len(c) : t = h /\ i = off + j - 1 /\ nor'[t][i] = c[j]
  <2>1. nor'[t][i] = nor[t][i] \/ nor'[t][i].k = "smear" \/ Came
    <3>1. h \in Types /\ off \in Nat /\ Len(c) \in Nat /\ Wrote(nor, nor', h, off, c)
      BY <1>0, <1>1
    <3> QED BY <3>1, CellFrom
  <2>2. Came => nor'[t][i].k \notin {"eof", "row"}
    BY <1>2
  <2> HIDE DEF Came
  <2> QED BY <2>1, <2>2
<1>8. ASSUME NEW i \in off..(Size[h] - 1) PROVE nor'[h][i].k \notin {"eof", "row"}
  <2>1. Size[h] \in Nat /\ i \in 0..(Size[h] - 1)
    BY <1>0, SizeAssumption
  <2>2. CASE i < off + 2
    <3>1. nor'[h][i] \in {Smear, c[i - off + 1]} /\ i - off + 1 \in 1..Len(c)
      BY <1>0, <1>1, <2>1, <2>2 DEF Wrote
    <3> QED BY <1>2, <3>1 DEF Smear
  <2>3. CASE ~(i < off + 2)
    <3>1. nor'[h][i] = nor[h][i]
      BY <1>0, <1>1, <2>1, <2>3 DEF Wrote
    <3>2. nor[h][i] = Blank
      <4>1. Filled(nor[h], Size[h], Edge(nor, h))
        BY <1>0 DEF LogInv, Regions
      <4> QED BY <1>0, <2>1, <2>3, <4>1 DEF Filled
    <3> QED BY <3>1, <3>2 DEF Blank
  <2> QED BY <2>2, <2>3
<1>9. NoEof(nor', h, off)
  BY <1>8 DEF NoEof, EofIn
<1> QED BY <1>3, <1>4, <1>5, <1>6, <1>7, <1>8, <1>9 DEF h

LEMMA WriteHeaderLog == IInv /\ LogInv /\ WriteHeader => LogInv'
<1> SUFFICES ASSUME IInv, LogInv, WriteHeader PROVE LogInv'
  OBVIOUS
<1> DEFINE h == Head(todo).t
           n == Len(files)
<1>0. /\ HasPending /\ stage = "header" /\ todo # <<>> /\ ~Formatting /\ mode # "off" /\ h \in Types
      /\ ~Wipes(todo) /\ off \in Nat
      /\ SlotIn(files, h) # 0 => files[SlotIn(files, h)].day # day
      /\ day = clock /\ day = latest /\ stage' \in {"daystart", "save"}
      /\ UNCHANGED <<cached, cache, mode, full, ymd, todo, off, day, clock, latest>>
  BY HeaderAllowed
<1>1. /\ files' \in Tables /\ Len(files') = n + 1 /\ n \in Nat
      /\ DOMAIN files = 1..n /\ DOMAIN files' = 1..(n + 1)
      /\ \A i \in 1..n : files'[i] = files[i]
      /\ files'[n + 1].t = h /\ files'[n + 1].day = day /\ files'[n + 1].off = off
      /\ files'[n + 1].active /\ EndOf(files'[n + 1]) = off + 2
      /\ SlotIn(files', h) = n + 1
      /\ \A u : u # h => SlotIn(files', u) = SlotIn(files, u)
  BY EntryAdded
<1>2. /\ Regions(nor') /\ Edge(nor', h) = off + 2
      /\ \A u \in Types : u # h => nor'[u] = nor[u] /\ Edge(nor', u) = Edge(nor, u)
      /\ \A u \in Types : Edge(nor', u) = Edge(nor, u) \/ Edge(nor', u) > Edge(nor, u)
      /\ NamesUpTo(nor', latest)
      /\ NoEof(nor', h, off)
      /\ \A t \in Types : \A i \in 0..(Size[t] - 1) :
           nor'[t][i] = nor[t][i] \/ nor'[t][i].k \notin {"eof", "row"}
  BY HeaderInFlash
<1>h. h = Head(todo).t
  OBVIOUS
<1> HIDE DEF h, n
<1>3. ~Formatting' /\ Erasing'
  BY <1>0, WipesIs DEF Erasing
<1>s. /\ n = Len(cache) /\ DOMAIN cache = 1..n
      /\ \A i \in DOMAIN cache : Alike(cache[i], files[i])
      /\ \A t : SlotIn(cache, t) = SlotIn(files, t)
  BY <1>0, <1>1, SavedSlot DEF n
<1>4. Calendar'
  <2>1. \A i \in 1..(n + 1) : i = n + 1 \/ i \in 1..n
    BY <1>1
  <2>2. latest \in Nat
    BY Parts, DayRange DEF CountsOK
  <2>3. DaysUpTo(files', latest)
    BY <1>0, <1>1, <2>1, <2>2 DEF LogInv, Calendar, DaysUpTo
  <2> QED BY <1>0, <1>2, <2>3 DEF LogInv, Calendar
<1>5. Behind'
  <2>1. \A t \in Types : Edge(nor, t) \in Nat /\ Edge(nor', t) \in Nat
    BY <1>2, EdgeNat DEF LogInv
  <2>2. files \in Tables /\ cache \in Tables
    BY InsideTables DEF Inside
  <2>3. Within(cache, nor')
    BY <1>0, <1>2, <2>1, <2>2, WithinStays DEF LogInv, Behind
  <2>4. Within(files, nor')
    BY <1>0, <1>2, <2>1, <2>2, WithinStays DEF LogInv, Behind
  <2>5. \A i \in 1..(n + 1) : i = n + 1 \/ i \in 1..n
    BY <1>1
  <2>6. Within(files', nor')
    <3>1. EndOf(files'[n + 1]) <= Edge(nor', files'[n + 1].t)
      BY <1>0, <1>1, <1>2
    <3> QED BY <1>1, <2>4, <2>5, <3>1 DEF Within
  <2> QED BY <1>0, <2>3, <2>6 DEF Behind
<1>6. Saved'
  <2>1. Opened' = 1
    BY <1>0 DEF Opened
  <2>2. Len(files') = Len(cache') + Opened'
    BY <1>0, <1>1, <1>s, <2>1
  <2>3. \A i \in DOMAIN cache' : Alike(cache'[i], files'[i])
    BY <1>0, <1>1, <1>s
  <2>4. files'[Len(files')].t = Head(todo').t /\ files'[Len(files')].day = day'
    BY <1>0, <1>1, <1>h
  <2> QED BY <1>0, <2>2, <2>3, <2>4 DEF LogInv, Saved
<1>7. Untouched'
  BY <1>0, <1>2 DEF LogInv, Untouched
<1>8. Rotating'
  BY <1>0 DEF Rotating
<1>9. NewestOpen'
  <2> SUFFICES ASSUME NEW t \in Types, SlotIn(files', t) # 0
               PROVE  LET i == SlotIn(files', t)
                      IN /\ files'[i].active \/ (stage' = "header" /\ Head(todo').t = t)
                         /\ files'[i].day = latest'
                              => EndOf(files'[i]) = Edge(nor', t) /\ NoEof(nor', t, files'[i].off)
    BY DEF NewestOpen
  <2>1. CASE t = h
    BY <1>1, <1>2, <2>1
  <2>2. CASE t # h
    <3>1. SlotIn(files, t) \in 1..n /\ SlotIn(files', t) = SlotIn(files, t) /\ SlotIn(files, t) # 0
      BY <1>1, <2>2, SlotInIndex
    <3>2. files'[SlotIn(files', t)] = files[SlotIn(files, t)]
      BY <1>1, <3>1
    <3>3. /\ files[SlotIn(files, t)].active
          /\ files[SlotIn(files, t)].day = latest
               => EndOf(files[SlotIn(files, t)]) = Edge(nor, t) /\ NoEof(nor, t, files[SlotIn(files, t)].off)
      BY <1>0, <1>h, <2>2, <3>1 DEF LogInv, NewestOpen
    <3> QED BY <1>0, <1>2, <2>2, <3>2, <3>3 DEF NoEof
  <2> QED BY <2>1, <2>2
<1>10. NewestSaved'
  <2> SUFFICES ASSUME NEW t \in Types, SlotIn(cache, t) # 0
               PROVE  LET i == SlotIn(cache, t)
                      IN cache[i].active /\ (cache[i].day = latest => NoEof(nor', t, cache[i].off))
    BY <1>0 DEF NewestSaved
  <2>0. cache[SlotIn(cache, t)].active
        /\ (cache[SlotIn(cache, t)].day = latest => NoEof(nor, t, cache[SlotIn(cache, t)].off))
    BY <1>0 DEF LogInv, NewestSaved
  <2>1. CASE t = h
    <3>1. cache[SlotIn(cache, t)].day = files[SlotIn(files, h)].day /\ SlotIn(files, h) # 0
      BY <1>s, <2>1, SlotInIndex DEF Alike
    <3> QED BY <1>0, <2>0, <3>1
  <2>2. CASE t # h
    BY <1>2, <2>0, <2>2 DEF NoEof
  <2> QED BY <2>1, <2>2
<1>11. DayDone'
  <2>1. ASSUME NEW t \in Types, Good(files, full, nor, t) PROVE Good(files', full', nor', t)
    <3>1. CASE t = h
      BY <1>1, <1>2, <3>1 DEF Good
    <3>2. CASE t # h
      <4>1. SlotIn(files', t) = SlotIn(files, t) /\ (SlotIn(files, t) # 0 => SlotIn(files, t) \in 1..n)
        BY <1>1, <3>2, SlotInIndex
      <4>2. SlotIn(files, t) # 0 => files'[SlotIn(files, t)] = files[SlotIn(files, t)]
        BY <1>1, <4>1
      <4> QED BY <1>0, <1>2, <2>1, <3>2, <4>1, <4>2 DEF Good
    <3> QED BY <3>1, <3>2
  <2>2. Len(files') < MaxFiles => Len(files) < MaxFiles
    BY <1>1, SizeAssumption DEF n
  <2> QED BY <1>0, <1>3, <2>1, <2>2 DEF LogInv, DayDone
<1> QED BY <1>2, <1>3, <1>4, <1>5, <1>6, <1>7, <1>8, <1>9, <1>10, <1>11 DEF LogInv

\* A row or a day_start row brings no #EOF, and no row but a row's.
LEMMA RowsInFlash ==
  ASSUME IInv, LogInv, HasPending, stage \notin {"close", "header"}, Allowed
  PROVE  /\ \A t \in Types, p \in Nat : NoEof(nor, t, p) => NoEof(nor', t, p)
         /\ \A t \in Types : \A i \in 0..(Size[t] - 1) :
              \/ nor'[t][i] = nor[t][i]
              \/ nor'[t][i].k # "eof" /\ (nor'[t][i].k = "row" => Doing("row"))
<1> DEFINE h == Head(todo).t
           c == Pending.cells
           at == Pending.at
<1>1. h \in Types /\ at \in Nat /\ Len(c) \in Nat /\ Wrote(nor, nor', h, at, c)
  BY WriteBehindEdge, AllowedWrote, PendingType
<1>2. \A i \in 1..Len(c) : c[i].k # "eof" /\ (c[i].k = "row" => Doing("row"))
  BY PendingCells
<1> HIDE DEF h, c, at
<1>3. ASSUME NEW t \in Types, NEW p \in Nat, NoEof(nor, t, p) PROVE NoEof(nor', t, p)
  <2>1. \A i \in 1..Len(c) : c[i].k # "eof"
    BY <1>2
  <2> QED BY <1>1, <1>3, <2>1, WroteNoEof
<1>4. ASSUME NEW t \in Types, NEW i \in 0..(Size[t] - 1)
      PROVE  \/ nor'[t][i] = nor[t][i]
             \/ nor'[t][i].k # "eof" /\ (nor'[t][i].k = "row" => Doing("row"))
  <2> DEFINE Came == \E j \in 1..Len(c) : t = h /\ i = at + j - 1 /\ nor'[t][i] = c[j]
  <2>1. nor'[t][i] = nor[t][i] \/ nor'[t][i].k = "smear" \/ Came
    BY <1>1, CellFrom
  <2>2. Came => nor'[t][i].k # "eof" /\ (nor'[t][i].k = "row" => Doing("row"))
    BY <1>2
  <2> HIDE DEF Came
  <2> QED BY <2>1, <2>2
<1> QED BY <1>3, <1>4

\* The newest files stay open, and end where their region is erased.
LEMMA GrowOpen ==
  ASSUME IInv, LogInv, HasPending, stage \notin {"close", "header"}, Allowed, NEW h, NEW s, NEW n,
         NEW a, a, Grown(h, s, n, a), ~Formatting, stage' # "header", UNCHANGED <<cache, latest>>
  PROVE  NewestOpen' /\ NewestSaved'
<1>0. \A t \in Types, p \in Nat : NoEof(nor, t, p) => NoEof(nor', t, p)
  BY RowsInFlash
<1>1. files \in Tables /\ cache \in Tables
  BY InsideTables DEF Inside
<1>2. ASSUME NEW t \in Types, SlotIn(files', t) # 0
      PROVE  /\ files'[SlotIn(files', t)].active
             /\ files'[SlotIn(files', t)].day = latest =>
                  /\ EndOf(files'[SlotIn(files', t)]) = Edge(nor', t)
                  /\ NoEof(nor', t, files'[SlotIn(files', t)].off)
  <2>1. CASE t = h
    <3>1. SlotIn(files', t) = s /\ files'[s].active /\ s \in DOMAIN files /\ files[s].t = h
      BY <2>1 DEF Grown
    <3>2. SlotIn(files, t) = s
      <4>1. DOMAIN files' = DOMAIN files /\ \A i \in DOMAIN files : files'[i].t = files[i].t
        BY DEF Grown, Alike
      <4> QED BY <3>1, <4>1, SlotSame
    <3>3. s # 0 /\ files[s].day = latest => EndOf(files[s]) = Edge(nor, h) /\ NoEof(nor, h, files[s].off)
      BY <2>1, <3>2 DEF LogInv, NewestOpen
    <3>4. files[s].off \in Nat /\ EndOf(files[s]) \in Nat /\ files'[s].off = files[s].off
          /\ files'[s].day = files[s].day /\ n \in Nat /\ s # 0
      <4>1. files[s] \in Entry
        BY <1>1, <3>1, TableDomain
      <4> QED BY <3>1, <4>1 DEF Grown, Alike, Entry, EndOf
    <3>5. EndOf(files[s]) = Edge(nor, h) => EndOf(files'[s]) = Edge(nor', h)
      BY <3>4 DEF Grown
    <3> QED BY <1>0, <2>1, <3>1, <3>3, <3>4, <3>5
  <2>2. CASE t # h
    <3>1. nor'[t] = nor[t] /\ Edge(nor', t) = Edge(nor, t) /\ SlotIn(files', t) = SlotIn(files, t)
          /\ files'[SlotIn(files, t)] = files[SlotIn(files, t)]
      BY <1>2, <2>2 DEF Grown
    <3> QED BY <1>2, <3>1 DEF LogInv, NewestOpen, NoEof
  <2> QED BY <2>1, <2>2
<1>3. NewestOpen'
  BY <1>2 DEF NewestOpen
<1>4. ASSUME NEW t \in Types, SlotIn(cache, t) # 0
      PROVE  cache[SlotIn(cache, t)].active
             /\ (cache[SlotIn(cache, t)].day = latest => NoEof(nor', t, cache[SlotIn(cache, t)].off))
  <2>1. cache[SlotIn(cache, t)] \in Entry
    BY <1>1, <1>4, SlotInIndex, TableDomain
  <2>2. cache[SlotIn(cache, t)].off \in Nat
    BY <2>1 DEF Entry
  <2> QED BY <1>0, <1>4, <2>2 DEF LogInv, NewestSaved
<1>5. NewestSaved'
  BY <1>4 DEF NewestSaved
<1> QED BY <1>3, <1>5

LEMMA DayStartLog ==
  ASSUME IInv, LogInv, Writing("daystart"), stage' = "save", Allowed,
         files' = Grow(Slot(Head(todo).t), DayStartLen, TRUE),
         UNCHANGED <<cached, cache, mode, full, ymd, envVars, todo, off, day>>
  PROVE  LogInv'
<1> DEFINE h == Head(todo).t
           s == SlotIn(files, h)
<1>0. HasPending /\ stage = "daystart" /\ todo # <<>> /\ ~Formatting /\ mode # "off" /\ h \in Types
      /\ ~Wipes(todo) /\ todo' = todo /\ stage' = "save" /\ day' = day
  BY WriteBehindEdge DEF HasPending, Writing
<1>1. UNCHANGED <<cached, cache, full, clock, latest, day, mode, ymd>> /\ ~Wipes(todo')
  BY <1>0 DEF envVars
<1>2. Grown(h, s, DayStartLen, TRUE)
  <2>1. DayStartLen = Len(Pending.cells) /\ stage # "header" /\ TRUE \in BOOLEAN
    BY <1>0, PendingType
  <2> QED BY <1>0, <1>1, <2>1, GrowWrite
<1>3. /\ \A t \in Types : \A i \in 0..(Size[t] - 1) :
           \/ nor'[t][i] = nor[t][i]
           \/ nor'[t][i].k # "eof" /\ (nor'[t][i].k = "row" => Doing("row"))
      /\ ~Doing("row")
  BY <1>0, RowsInFlash DEF Writing, Doing
<1> HIDE DEF h, s
<1>h. h = Head(todo).t
  BY DEF h
<1>4. NewestOpen' /\ NewestSaved'
  BY <1>0, <1>1, <1>2, GrowOpen
<1>5. Saved'
  <2>1. Opened' = 1 /\ Opened = 1
    BY <1>0 DEF Opened
  <2>2. Len(files') = Len(cache) + 1 /\ \A i \in DOMAIN cache : Alike(cache[i], files[i])
    BY <1>0, <1>2, <2>1 DEF LogInv, Saved, Grown
  <2>3. Len(cache) \in Nat /\ DOMAIN cache = 1..Len(cache) /\ DOMAIN files = 1..Len(files)
        /\ Len(files) = Len(cache) + 1
    BY <1>2, <2>2, InsideTables, TableDomain DEF Inside, Grown
  <2>4. \A i \in DOMAIN cache : i \in DOMAIN files
    BY <2>3
  <2>5. \A i \in DOMAIN cache : Alike(cache[i], files'[i])
    BY <1>2, <2>2, <2>4 DEF Alike, Grown
  <2>6. files[Len(files)].t = Head(todo).t /\ files[Len(files)].day = day /\ Len(files) \in DOMAIN files
    BY <1>0, <2>3 DEF LogInv, Saved
  <2>7. files'[Len(files')].t = Head(todo).t /\ files'[Len(files')].day = day
    BY <1>2, <2>6 DEF Grown, Alike
  <2>8. (~cached' => cache' = <<>>) /\ mode' # "off"
    BY <1>0, <1>1 DEF LogInv, Saved
  <2>9. Len(files') = Len(cache') + Opened' /\ \A i \in DOMAIN cache' : Alike(cache'[i], files'[i])
    BY <1>1, <2>1, <2>2, <2>5
  <2>10. files'[Len(files')].t = Head(todo').t /\ files'[Len(files')].day = day'
    BY <1>0, <2>7
  <2> QED BY <2>8, <2>9, <2>10 DEF Saved
<1>6. Untouched'
  BY <1>0, <1>1, <1>3 DEF LogInv, Untouched
<1>7. Rotating'
  BY <1>0 DEF Rotating
<1>8. DayDone'
  <2>1. Len(files') = Len(files) /\ \A t \in Types : Good(files, full, nor, t) => Good(files', full', nor', t)
    BY <1>2 DEF Grown
  <2>2. ymd' = ymd /\ todo' = todo /\ day' = day
    BY <1>0, <1>1
  <2> QED BY <1>0, <2>1, <2>2 DEF LogInv, DayDone
<1> QED BY <1>2, <1>4, <1>5, <1>6, <1>7, <1>8 DEF LogInv, Grown

LEMMA WriteDayStartLog == IInv /\ LogInv /\ WriteDayStart => LogInv'
<1> SUFFICES ASSUME IInv, LogInv, WriteDayStart PROVE LogInv'
  OBVIOUS
<1>1. CASE Refused
  BY <1>1, RefusedDayStartLog DEF WriteDayStart
<1>2. CASE /\ Allowed
           /\ files' = Grow(Slot(EnsureType), DayStartLen, TRUE)
           /\ UNCHANGED <<cached, cache, mode, full, ymd, envVars>>
  BY <1>2, DayStartLog DEF WriteDayStart, EnsureType
<1> QED BY <1>1, <1>2 DEF WriteDayStart

\* A row goes into a file that the cache knows: it was saved before.
LEMMA RowWrittenLog ==
  ASSUME IInv, LogInv, Doing("row"), Slot(Head(todo).t) # 0, Allowed, TaskDone,
         files' = Grow(Slot(Head(todo).t), Head(todo).n, files[Slot(Head(todo).t)].active),
         UNCHANGED <<cached, cache, mode, full, ymd, envVars>>
  PROVE  LogInv'
<1> DEFINE h == Head(todo).t
           s == SlotIn(files, h)
           a == files[s].active
<1>0. HasPending /\ stage = "decide" /\ todo # <<>> /\ ~Formatting /\ mode # "off" /\ h \in Types
      /\ ~Wipes(Tail(todo)) /\ todo' = Tail(todo) /\ stage' = "decide" /\ day' = day
      /\ Slot(h) = s /\ s # 0 /\ todo \in Seq(Tasks)
  BY WriteBehindEdge, SlotIs DEF HasPending, TaskDone, IInv, Committed, Doing
<1>1. UNCHANGED <<cached, cache, full, clock, latest, day, mode, ymd>> /\ ~Wipes(todo')
  BY <1>0 DEF envVars
<1>a. a /\ a \in BOOLEAN
  <2>1. files[s] \in Entry
    BY <1>0, SlotInIndex, InsideTables, TableDomain DEF Inside
  <2>2. a
    BY <1>0 DEF LogInv, NewestOpen
  <2> QED BY <2>1, <2>2 DEF Entry
<1>2. Grown(h, s, Head(todo).n, a)
  <2>1. Head(todo).n = Len(Pending.cells) /\ stage # "header"
    BY <1>0, PendingType
  <2>2. files' = Grow(Slot(h), Head(todo).n, a)
    BY <1>0
  <2> HIDE DEF a
  <2> QED BY <1>0, <1>1, <1>a, <2>1, <2>2, GrowWrite
<1> HIDE DEF a
<1>s. /\ DOMAIN cache = DOMAIN files /\ Len(cache) = Len(files)
      /\ \A i \in DOMAIN cache : Alike(cache[i], files[i])
      /\ cached
  BY <1>0, SavedSlot
<1> HIDE DEF h, s
<1>4. NewestOpen' /\ NewestSaved'
  BY <1>0, <1>1, <1>2, <1>a, GrowOpen
<1>5. Saved'
  <2>1. Opened' = 0 /\ Len(cache) \in Nat
    BY <1>0, InsideTables, TableDomain DEF Opened, Inside
  <2>2. Len(files') = Len(cache') + Opened'
    <3>1. Len(files') = Len(files)
      BY <1>2 DEF Grown
    <3>2. cache' = cache /\ Len(cache) = Len(files)
      BY <1>1, <1>s
    <3> QED BY <2>1, <3>1, <3>2
  <2>5. \A i \in DOMAIN cache' : Alike(cache'[i], files'[i])
    BY <1>1, <1>2, <1>s DEF Alike, Grown
  <2> QED BY <1>0, <1>1, <1>s, <2>2, <2>5 DEF Saved
<1>6. Untouched'
  BY <1>1, <1>s DEF Untouched
<1>7. Rotating'
  BY <1>0 DEF Rotating
<1>8. DayDone'
  <2>1. TaskDone /\ DayDone
    BY DEF LogInv
  <2>2. Len(files') = Len(files) /\ \A t \in Types : Good(files, full, nor, t) => Good(files', full', nor', t)
    BY <1>2 DEF Grown
  <2>3. \A t \in Types : Head(todo) # Ensure(t)
    BY TaskKinds DEF Doing
  <2> QED BY <1>0, <1>1, <2>1, <2>2, <2>3, TaskDoneDays
<1> QED BY <1>2, <1>4, <1>5, <1>6, <1>7, <1>8 DEF LogInv, Grown

LEMMA AppendRowLog == IInv /\ LogInv /\ AppendRow => LogInv'
<1> SUFFICES ASSUME IInv, LogInv, AppendRow PROVE LogInv'
  OBVIOUS
<1> DEFINE s == Slot(Head(todo).t)
<1>1. CASE s = 0 /\ CallFails /\ UNCHANGED <<flashVars, envVars>>
  BY <1>1, NoFileLog DEF AppendRow
<1>2. CASE s # 0 /\ Refused /\ TaskDone
  BY <1>2, RefusedRowLog DEF AppendRow, HasPending
<1>3. CASE /\ s # 0
           /\ Allowed
           /\ files' = Grow(s, Head(todo).n, files[s].active)
           /\ TaskDone
           /\ UNCHANGED <<cached, cache, mode, full, ymd, envVars>>
  BY <1>3, RowWrittenLog DEF AppendRow
<1> QED BY <1>1, <1>2, <1>3 DEF AppendRow

\* The entry being opened is the newest of its type.
LEMMA OpenedIsNewest ==
  ASSUME IInv, LogInv, stage \in {"daystart", "save"}
  PROVE  SlotIn(files, Head(todo).t) # 0 => files[SlotIn(files, Head(todo).t)].day = day
<1> SUFFICES ASSUME SlotIn(files, Head(todo).t) # 0
             PROVE  files[SlotIn(files, Head(todo).t)].day = day
  OBVIOUS
<1>1. files[Len(files)].t = Head(todo).t /\ files[Len(files)].day = day
  BY DEF LogInv, Saved
<1>2. DOMAIN files = 1..Len(files) /\ Len(files) \in Nat
  BY InsideTables, TableDomain DEF Inside
<1>3. Len(files) \in DOMAIN files
  BY <1>2, SlotInIndex
<1>4. Len(files) \in NewestIn(files, Head(todo).t)
  BY <1>1, <1>2, <1>3 DEF NewestIn
<1>5. SlotIn(files, Head(todo).t) = Len(files)
  BY <1>2, <1>4, SlotInUnique
<1> QED BY <1>1, <1>5

LEMMA SaveCacheLog == IInv /\ LogInv /\ SaveCache => LogInv'
<1> SUFFICES ASSUME IInv, LogInv, SaveCache PROVE LogInv'
  OBVIOUS
<1>0. todo \in Seq(Tasks) /\ todo # <<>> /\ Head(todo).do = "ensure" /\ stage = "save" /\ mode # "off"
  BY Parts DEF OpOK, SaveCache, Writing, Doing, Idle, Committed
<1>1. ~Formatting /\ ~Wipes(Tail(todo))
  BY <1>0, NotWiping DEF LogInv
<1>2. /\ nor' = nor /\ files' = files /\ mode' = mode /\ clock' = clock /\ latest' = latest
      /\ full' = full /\ ymd' = ymd /\ todo' = Tail(todo) /\ stage' = "decide" /\ day' = day
      /\ cached' /\ cache' = files
  BY DEF SaveCache, TaskDone, ramVars, envVars
<1>3. day = clock /\ (day # 0 => day = latest)
  BY <1>0, DayIsLatest
<1>4. ~Formatting' /\ Erasing'
  BY <1>1, <1>2, WipesIs DEF Erasing
<1>5. Calendar' /\ Regions(nor')
  BY <1>2, <1>3 DEF LogInv, Calendar
<1>6. Behind' /\ Untouched' /\ Rotating'
  BY <1>1, <1>2 DEF LogInv, Behind, Untouched, Rotating
<1>7. Saved'
  <2>1. Opened' = 0 /\ Len(files) \in Nat
    BY <1>2, InsideTables, TableDomain DEF Opened, Inside
  <2>2. Len(files') = Len(cache') + Opened' /\ \A i \in DOMAIN cache' : Alike(cache'[i], files'[i])
    BY <1>2, <2>1 DEF Alike
  <2> QED BY <1>0, <1>2, <2>2 DEF Saved
<1>8. \A t \in Types : SlotIn(files, t) # 0 =>
        /\ files[SlotIn(files, t)].active
        /\ files[SlotIn(files, t)].day = latest =>
             EndOf(files[SlotIn(files, t)]) = Edge(nor, t) /\ NoEof(nor, t, files[SlotIn(files, t)].off)
  BY <1>0, <1>1 DEF LogInv, NewestOpen
<1>9. NewestOpen' /\ NewestSaved'
  BY <1>2, <1>8 DEF NewestOpen, NewestSaved
<1>10. ASSUME NEW t \in Types, Head(todo) = Ensure(t), day # 0
       PROVE  Good(files, full, nor, t)
  <2>1. Head(todo).t = t
    BY <1>10, TaskKinds
  <2> QED BY <1>0, <1>3, <1>8, <1>10, <2>1, OpenedIsNewest DEF Good
<1>11. DayDone'
  <2>1. TaskDone /\ DayDone
    BY DEF SaveCache, LogInv
  <2> QED BY <1>0, <1>1, <1>2, <1>10, <2>1, TaskDoneDays
<1> QED BY <1>4, <1>5, <1>6, <1>7, <1>9, <1>11 DEF LogInv

-----------------------------------------------------------------------------
(* Steps that erase, and the clock. *)

\* Erasing every cell of one region.
LEMMA RegionErased ==
  ASSUME NorOK, Regions(nor), NEW h \in Types,
         nor' = [nor EXCEPT ![h] = EraseCells(nor[h], Size[h])]
  PROVE  /\ Regions(nor') /\ Edge(nor', h) = 0
         /\ \A u \in Types : u # h => nor'[u] = nor[u] /\ Edge(nor', u) = Edge(nor, u)
         /\ \A i \in 0..(Size[h] - 1) : nor'[h][i] = Blank
<1>1. Size[h] \in Nat
  BY SizeAssumption
<1>2. DOMAIN nor[h] = 0..(Size[h] - 1) /\ DOMAIN nor = Types
  BY DEF NorOK
<1>3. nor'[h] = EraseCells(nor[h], Size[h]) /\ \A u \in Types : u # h => nor'[u] = nor[u]
  BY <1>2
<1>4. \A i \in 0..(Size[h] - 1) : nor'[h][i] = Blank
  BY <1>1, <1>2, <1>3 DEF EraseCells
<1>5. Filled(nor'[h], Size[h], 0)
  BY <1>1, <1>4 DEF Filled
<1>6. Edge(nor', h) = 0
  BY <1>5, FilledEdge
<1>7. \A u \in Types : u # h => Edge(nor', u) = Edge(nor, u)
  BY <1>3 DEF Edge
<1>8. ASSUME NEW u \in Types PROVE Filled(nor'[u], Size[u], Edge(nor', u))
  <2>1. CASE u = h
    BY <1>5, <1>6, <2>1
  <2>2. CASE u # h
    BY <1>3, <1>7, <2>2 DEF Regions
  <2> QED BY <2>1, <2>2
<1> QED BY <1>3, <1>4, <1>6, <1>7, <1>8 DEF Regions

\* An erasing goes on until the tables are cleared.
LEMMA ErasingGoesOn ==
  ASSUME IInv, LogInv, todo # <<>>, Head(todo).do = "erase", TaskDone
  PROVE  Formatting' /\ Len(todo) > 1 /\ Formatting
<1>0. todo \in Seq(Tasks)
  BY Parts DEF OpOK
<1>1. /\ Len(todo) \in Nat \ {0} /\ DOMAIN todo = 1..Len(todo) /\ Head(todo) = todo[1]
      /\ Len(Tail(todo)) = Len(todo) - 1 /\ DOMAIN Tail(todo) = 1..(Len(todo) - 1)
      /\ \A i \in 1..(Len(todo) - 1) : Tail(todo)[i] = todo[i + 1]
  BY <1>0, TailTasks
<1>2. todo' = Tail(todo)
  BY DEF TaskDone
<1>4. Formatting
  BY <1>1 DEF Formatting
<1>5. \A i \in DOMAIN todo : IF i = Len(todo) THEN todo[i] = Clear ELSE todo[i].do = "erase"
  BY <1>4 DEF LogInv, Erasing
<1>6. Len(todo) > 1 /\ Len(todo) - 1 \in 1..(Len(todo) - 1)
  <2>1. Len(todo) # 1
    <3> SUFFICES ASSUME Len(todo) = 1 PROVE FALSE
      OBVIOUS
    <3>1. todo[1] = Clear
      BY <1>1, <1>5
    <3> QED BY <1>1, <3>1, TaskKinds
  <2> QED BY <1>1, <2>1
<1>7. Formatting'
  <2>1. Tail(todo)[Len(todo) - 1] = Clear
    BY <1>1, <1>5, <1>6
  <2>2. Wipes(Tail(todo))
    BY <1>1, <1>6, <2>1, TaskKinds DEF Wipes
  <2> QED BY <1>2, <2>2, WipesIs
<1> QED BY <1>4, <1>6, <1>7

LEMMA EraseRegionLog == IInv /\ LogInv /\ EraseRegion => LogInv'
<1> SUFFICES ASSUME IInv, LogInv, EraseRegion PROVE LogInv'
  OBVIOUS
<1> DEFINE h == Head(todo).t
<1>0. todo \in Seq(Tasks) /\ todo # <<>> /\ Head(todo).do = "erase" /\ stage = "decide" /\ mode # "off"
      /\ h \in Types
  BY HeadTask, Parts DEF OpOK, EraseRegion, Doing, Idle, Committed
<1>1. /\ Len(todo) \in Nat \ {0} /\ DOMAIN todo = 1..Len(todo) /\ Head(todo) = todo[1]
      /\ Len(Tail(todo)) = Len(todo) - 1 /\ DOMAIN Tail(todo) = 1..(Len(todo) - 1)
      /\ \A i \in 1..(Len(todo) - 1) : Tail(todo)[i] = todo[i + 1]
  BY <1>0, TailTasks
<1>2. /\ cached' = cached /\ cache' = cache /\ files' = files /\ mode' = mode
      /\ clock' = clock /\ latest' = latest /\ todo' = Tail(todo) /\ stage' = "decide" /\ day' = day
  BY DEF EraseRegion, TaskDone, ramVars, envVars
<1>3. /\ Regions(nor') /\ Edge(nor', h) = 0
      /\ \A u \in Types : u # h => nor'[u] = nor[u] /\ Edge(nor', u) = Edge(nor, u)
      /\ \A i \in 0..(Size[h] - 1) : nor'[h][i] = Blank
  <2>1. nor' = [nor EXCEPT ![h] = EraseCells(nor[h], Size[h])]
    BY DEF EraseRegion
  <2>2. NorOK /\ Regions(nor)
    BY Parts DEF LogInv
  <2> QED BY <1>0, <2>1, <2>2, RegionErased
<1>4. Formatting
  BY <1>0, <1>1 DEF Formatting
<1>5. /\ \A i \in DOMAIN todo : IF i = Len(todo) THEN todo[i] = Clear ELSE todo[i].do = "erase"
      /\ \A t \in Types : Edge(nor, t) = 0 \/ \E i \in DOMAIN todo : todo[i] = Erase(t)
  BY <1>4 DEF LogInv, Erasing
<1>6. Formatting' /\ Len(todo) > 1
  BY <1>0, ErasingGoesOn DEF EraseRegion
<1> HIDE DEF h
<1>8. Erasing'
  <2>1. ASSUME NEW i \in DOMAIN todo'
        PROVE  IF i = Len(todo') THEN todo'[i] = Clear ELSE todo'[i].do = "erase"
    <3>1. i \in 1..(Len(todo) - 1) /\ i + 1 \in DOMAIN todo
      BY <1>1, <1>2, <2>1
    <3>2. todo'[i] = todo[i + 1] /\ Len(todo') = Len(todo) - 1
      BY <1>1, <1>2, <3>1
    <3>3. IF i + 1 = Len(todo) THEN todo[i + 1] = Clear ELSE todo[i + 1].do = "erase"
      BY <1>5, <3>1
    <3> QED BY <1>1, <3>1, <3>2, <3>3
  <2>2. ASSUME NEW t \in Types, Edge(nor', t) # 0
        PROVE  \E i \in DOMAIN todo' : todo'[i] = Erase(t)
    <3>1. t # h
      BY <1>3, <2>2
    <3>2. PICK i \in DOMAIN todo : todo[i] = Erase(t)
      BY <1>3, <1>5, <2>2, <3>1
    <3>3. i # 1
      BY <1>1, <3>1, <3>2, TaskKinds DEF h
    <3>4. i - 1 \in 1..(Len(todo) - 1) /\ (i - 1) + 1 = i
      BY <1>1, <3>3
    <3>5. todo'[i - 1] = Erase(t)
      BY <1>1, <1>2, <3>2, <3>4
    <3> QED BY <1>1, <1>2, <3>4, <3>5
  <2> QED BY <1>0, <1>2, <2>1, <2>2 DEF Erasing
<1>9. Calendar'
  <2>1. NamesUpTo(nor', latest)
    <3> SUFFICES ASSUME NEW t \in Types, NEW i \in 0..(Size[t] - 1), nor'[t][i].k = "name"
                 PROVE  nor'[t][i].d <= latest
      BY DEF NamesUpTo
    <3>1. t # h
      BY <1>3 DEF Blank
    <3> QED BY <1>3, <3>1 DEF LogInv, Calendar, NamesUpTo
  <2>2. ~Idle' => day' = clock'
    BY <1>0, <1>2, DayIsLatest
  <2> QED BY <1>2, <2>1, <2>2 DEF LogInv, Calendar
<1>10. Behind' /\ Untouched' /\ NewestOpen' /\ NewestSaved' /\ DayDone'
  BY <1>6 DEF Behind, Untouched, NewestOpen, NewestSaved, DayDone
<1>11. Saved'
  <2>1. (~cached' => cache' = <<>>) /\ mode' # "off"
    BY <1>0, <1>2 DEF LogInv, Saved
  <2> QED BY <1>2, <1>6, <2>1 DEF Saved
<1>12. Rotating'
  BY <1>2 DEF Rotating
<1> QED BY <1>3, <1>8, <1>9, <1>10, <1>11, <1>12 DEF LogInv

\* When the tables are cleared every region has been erased.
LEMMA ClearTablesLog == IInv /\ LogInv /\ ClearTables => LogInv'
<1> SUFFICES ASSUME IInv, LogInv, ClearTables PROVE LogInv'
  OBVIOUS
<1>0. todo \in Seq(Tasks) /\ todo # <<>> /\ Head(todo).do = "clear" /\ stage = "decide" /\ mode # "off"
  BY Parts DEF OpOK, ClearTables, Doing, Idle, Committed
<1>1. /\ Len(todo) \in Nat \ {0} /\ DOMAIN todo = 1..Len(todo) /\ Head(todo) = todo[1]
      /\ Len(Tail(todo)) = Len(todo) - 1
  BY <1>0, TailTasks
<1>2. /\ nor' = nor /\ ~cached' /\ cache' = <<>> /\ files' = <<>> /\ ymd' = 0 /\ mode' = mode
      /\ clock' = clock /\ latest' = latest /\ todo' = Tail(todo) /\ stage' = "decide" /\ day' = day
  BY DEF ClearTables, TaskDone, envVars
<1>3. Formatting
  BY <1>0, <1>1 DEF Formatting
<1>4. Len(todo) = 1
  <2>1. IF 1 = Len(todo) THEN todo[1] = Clear ELSE todo[1].do = "erase"
    BY <1>1, <1>3 DEF LogInv, Erasing
  <2> QED BY <1>0, <1>1, <2>1
<1>5. todo' = <<>>
  BY <1>0, <1>1, <1>2, <1>4, HeadTailProperties, EmptySeq
<1>6. \A t \in Types : Edge(nor, t) = 0
  <2> SUFFICES ASSUME NEW t \in Types, NEW i \in DOMAIN todo, todo[i] = Erase(t) PROVE FALSE
    BY <1>3 DEF LogInv, Erasing
  <2>1. i = 1
    BY <1>0, <1>4, TailTasks
  <2> QED BY <1>0, <1>1, <2>1, TaskKinds
<1>7. ~Formatting' /\ Erasing'
  BY <1>5, NoAgenda, WipesIs DEF Erasing
<1>8. Calendar' /\ Regions(nor')
  BY <1>2, <1>5, EmptySeq DEF LogInv, Calendar, Idle, DaysUpTo
<1>9. Behind' /\ Rotating' /\ Saved'
  <2>1. Within(<<>>, nor)
    BY EmptySeq DEF Within
  <2>2. Opened' = 0
    BY <1>2 DEF Opened
  <2>3. Len(<<>>) = 0 /\ DOMAIN <<>> = {}
    BY EmptySeq
  <2> QED BY <1>0, <1>2, <2>1, <2>2, <2>3 DEF Behind, Rotating, Saved
<1>10. Untouched'
  <2> SUFFICES ASSUME NEW t \in Types, NEW i \in 0..(Size[t] - 1)
               PROVE  nor[t][i].k \notin {"eof", "row"}
    BY <1>2 DEF Untouched
  <2>1. Filled(nor[t], Size[t], 0)
    BY <1>6 DEF LogInv, Regions
  <2> QED BY <2>1, SizeAssumption DEF Filled, Blank
<1>11. NewestOpen' /\ NewestSaved'
  BY <1>2, NoSlot DEF NewestOpen, NewestSaved
<1>12. DayDone'
  BY <1>2, <1>5, EmptySeq DEF DayDone
<1> QED BY <1>7, <1>8, <1>9, <1>10, <1>11, <1>12 DEF LogInv

-----------------------------------------------------------------------------
(* Boots, the clock and power cuts. *)

\* In a calm environment the clock, once set, never shows an earlier day.
LEMMA BootDay ==
  ASSUME Calm, IInv, LogInv, NEW d \in 0..MaxDay, Booting(d)
  PROVE  /\ todo = <<>> /\ stage = "decide" /\ ~Formatting /\ mode' = "init"
         /\ nor' = nor /\ ymd' = 0 /\ clock' = d /\ full' = full
         /\ latest \in Nat /\ latest' \in Nat /\ latest' >= latest /\ clock' \in {0, latest'}
<1>1. todo = <<>> /\ stage = "decide" /\ ymd = 0
  BY Parts DEF Booting, Committed, Doing, Idle, LogInv, Saved
<1>2. ~Formatting
  BY <1>1, NoAgenda, WipesIs
<1>3. latest \in Nat /\ d \in Nat
  BY Parts, DayRange DEF CountsOK
<1>4. d = 0 \/ d >= latest
  BY DEF Booting, BootClock, Calm
<1>5. latest' = IF d > latest THEN d ELSE latest
  BY DEF Booting
<1> QED BY <1>1, <1>2, <1>3, <1>4, <1>5 DEF Booting

\* What every boot that leaves a table behind has to show.
LEMMA BootedLog ==
  ASSUME Calm, IInv, LogInv, NEW d \in 0..MaxDay, Booting(d), Call(InitAgenda(d), d),
         ~cached' => cache' = <<>>, cached \/ cached', DaysUpTo(files', latest),
         DaysUpTo(cache', latest), Within(files', nor), Within(cache', nor),
         Len(files') = Len(cache'), Len(cache') \in Nat,
         \A i \in DOMAIN cache' : Alike(cache'[i], files'[i]),
         \A t \in Types : SlotIn(files', t) # 0 =>
           /\ files'[SlotIn(files', t)].active
           /\ files'[SlotIn(files', t)].day = latest =>
                /\ EndOf(files'[SlotIn(files', t)]) = Edge(nor, t)
                /\ NoEof(nor, t, files'[SlotIn(files', t)].off),
         \A t \in Types : SlotIn(cache', t) # 0 =>
           /\ cache'[SlotIn(cache', t)].active
           /\ cache'[SlotIn(cache', t)].day = latest => NoEof(nor, t, cache'[SlotIn(cache', t)].off),
         files' \in Tables, cache' \in Tables, cached => cached'
  PROVE  LogInv'
<1> DEFINE ag == InitAgenda(d)
<1>1. /\ todo = <<>> /\ stage = "decide" /\ ~Formatting /\ mode' = "init"
      /\ nor' = nor /\ ymd' = 0 /\ clock' = d /\ full' = full
      /\ latest \in Nat /\ latest' \in Nat /\ latest' >= latest /\ clock' \in {0, latest'}
  BY BootDay
<1>2. ~Wipes(ag) /\ EnsuredFirst(ag, d)
  BY InitAgendaShape
<1> HIDE DEF ag
<1>3. todo' = ag /\ day' = d /\ stage' = "decide"
  BY <1>1 DEF Call, ag
<1>4. ~Formatting' /\ Erasing'
  BY <1>2, <1>3, WipesIs DEF Erasing
<1>5. \A i \in DOMAIN files' : files'[i].day \in Nat
  <2>1. \A i \in DOMAIN files' : files'[i] \in Entry
    BY TableDomain
  <2> QED BY <2>1, DayRange DEF Entry
<1>6. \A i \in DOMAIN cache' : cache'[i].day \in Nat
  <2>1. \A i \in DOMAIN cache' : cache'[i] \in Entry
    BY TableDomain
  <2> QED BY <2>1, DayRange DEF Entry
<1>7. DaysUpTo(files', latest') /\ DaysUpTo(cache', latest')
  BY <1>1, <1>5, <1>6 DEF DaysUpTo
<1>8. NamesUpTo(nor', latest')
  <2> SUFFICES ASSUME NEW t \in Types, NEW i \in 0..(Size[t] - 1), nor[t][i].k = "name"
               PROVE  nor[t][i].d <= latest'
    BY <1>1 DEF NamesUpTo
  <2>1. nor[t][i] \in Cell
    BY Parts DEF NorOK
  <2>2. nor[t][i].d \in Nat
    BY <2>1, DayRange DEF Cell
  <2>3. nor[t][i].d <= latest
    BY DEF LogInv, Calendar, NamesUpTo
  <2> QED BY <1>1, <2>2, <2>3
<1>9. Calendar' /\ Regions(nor')
  BY <1>1, <1>3, <1>7, <1>8 DEF LogInv, Calendar
<1>10. Behind' /\ Rotating'
  BY <1>1, <1>3 DEF Behind, Rotating
<1>11. Saved'
  <2>1. Opened' = 0
    BY <1>3 DEF Opened
  <2>2. Len(files') = Len(cache') + Opened'
    BY <2>1
  <2> QED BY <1>1, <1>3, <2>2 DEF Saved
<1>12. Untouched'
  BY <1>1 DEF LogInv, Untouched
<1>13. NewestOpen'
  <2> SUFFICES ASSUME NEW t \in Types, SlotIn(files', t) # 0
               PROVE  LET i == SlotIn(files', t)
                      IN /\ files'[i].active
                         /\ files'[i].day = latest' => EndOf(files'[i]) = Edge(nor, t) /\ NoEof(nor, t, files'[i].off)
    BY <1>1 DEF NewestOpen
  <2>1. SlotIn(files', t) \in DOMAIN files'
    BY SlotInIndex
  <2>2. files'[SlotIn(files', t)].day = latest' => files'[SlotIn(files', t)].day = latest
    BY <1>1, <1>5, <2>1 DEF DaysUpTo
  <2> QED BY <2>2
<1>14. NewestSaved'
  <2> SUFFICES ASSUME NEW t \in Types, SlotIn(cache', t) # 0
               PROVE  LET i == SlotIn(cache', t)
                      IN cache'[i].active /\ (cache'[i].day = latest' => NoEof(nor, t, cache'[i].off))
    BY <1>1 DEF NewestSaved
  <2>1. SlotIn(cache', t) \in DOMAIN cache'
    BY SlotInIndex
  <2>2. cache'[SlotIn(cache', t)].day = latest' => cache'[SlotIn(cache', t)].day = latest
    BY <1>1, <1>6, <2>1 DEF DaysUpTo
  <2> QED BY <2>2
<1>15. DayDone'
  BY <1>1, <1>2, <1>3 DEF DayDone, EnsuredFirst
<1> QED BY <1>4, <1>9, <1>10, <1>11, <1>12, <1>13, <1>14, <1>15 DEF LogInv

\* Reconcile takes the newest file of a type to where its region is erased,
\* when that file is of the latest day.
LEMMA BootFromCacheLog ==
  ASSUME Calm, IInv, LogInv, NEW d \in 0..MaxDay, BootFromCache(d)
  PROVE  LogInv'
<1>1. Booting(d) /\ cached /\ files' = Reconcile(cache) /\ Call(InitAgenda(d), d)
      /\ cached' = cached /\ cache' = cache /\ ~Formatting
  BY BootDay DEF BootFromCache
<1>2. cache \in Tables /\ files' \in Tables
  BY <1>1, InsideTables, ReconcileInside DEF Inside
<1>3. DOMAIN files' = DOMAIN cache /\ DOMAIN cache = 1..Len(cache) /\ Len(cache) \in Nat
      /\ Len(files') = Len(cache)
  <2>1. DOMAIN files' = DOMAIN cache
    BY <1>1 DEF Reconcile
  <2> QED BY <1>2, <2>1, TableDomain
<1>4. ASSUME NEW i \in DOMAIN cache
      PROVE  /\ cache[i] \in Entry /\ cache[i].t \in Types
             /\ cache[i].off \in 0..Edge(nor, cache[i].t) /\ EndOf(cache[i]) <= Edge(nor, cache[i].t)
             /\ Edge(nor, cache[i].t) \in Nat
             /\ Filled(nor[cache[i].t], Size[cache[i].t], Edge(nor, cache[i].t))
             /\ Size[cache[i].t] \in Nat
  <2>1. cache[i] \in Entry
    BY <1>2, TableDomain
  <2>2. cache[i].t \in Types /\ cache[i].off \in Nat /\ cache[i].len \in Nat
    BY <2>1 DEF Entry
  <2>3. EndOf(cache[i]) <= Edge(nor, cache[i].t)
    BY <1>1 DEF LogInv, Behind, Within
  <2>4. Edge(nor, cache[i].t) \in Nat
    BY <2>2, EdgeNat DEF LogInv
  <2> QED BY <2>1, <2>2, <2>3, <2>4, SizeAssumption DEF LogInv, Regions, EndOf
<1>5. ASSUME NEW i \in DOMAIN cache
      PROVE  /\ Alike(cache[i], files'[i]) /\ (cache[i].active => files'[i].active)
             /\ EndOf(files'[i]) <= Edge(nor, cache[i].t)
             /\ cache[i].active /\ NoEof(nor, cache[i].t, cache[i].off)
                  => EndOf(files'[i]) = Edge(nor, cache[i].t)
  <2> DEFINE e == cache[i]
             f == EndIn(nor[e.t], Size[e.t], e.off)
  <2>1. CASE e.active
    <3>1. files'[i] = Resized(e, f - e.off, TRUE)
      BY <1>1, <2>1, FileEndScans DEF Reconcile
    <3>2. /\ f \in e.off..Edge(nor, e.t)
          /\ NoEof(nor, e.t, e.off) => f = Edge(nor, e.t)
      <4> DEFINE n == Edge(nor, e.t)
                 r == nor[e.t]
                 z == Size[e.t]
                 o == e.off
      <4>1. Filled(r, z, n) /\ o \in 0..n /\ z \in Nat
        BY <1>4
      <4>2. f = EndIn(r, z, o) /\ (NoEof(nor, e.t, e.off) <=> ~EofIn(r, z, o))
        BY DEF NoEof
      <4> HIDE DEF n, r, z, o, f, e
      <4>3. f \in o..n /\ (~EofIn(r, z, o) => f = n)
        BY <4>1, <4>2, EndFilled
      <4> QED BY <4>2, <4>3 DEF n, o
    <3> HIDE DEF f
    <3>3. EndOf(files'[i]) = f /\ Alike(e, files'[i]) /\ files'[i].active
      <4>1. e.off \in Nat /\ f \in Nat
        BY <1>4, <3>2
      <4> QED BY <3>1, <4>1 DEF Resized, EndOf, Alike
    <3> QED BY <1>4, <3>2, <3>3
  <2>2. CASE ~e.active
    <3>1. files'[i] = e
      BY <1>1, <2>2 DEF Reconcile
    <3> QED BY <1>4, <2>2, <3>1 DEF Alike
  <2> QED BY <2>1, <2>2
<1>6. Within(files', nor) /\ Within(cache, nor)
  BY <1>1, <1>3, <1>5 DEF Within, Alike, LogInv, Behind
<1>7. DaysUpTo(files', latest) /\ DaysUpTo(cache, latest)
  BY <1>3, <1>5 DEF DaysUpTo, Alike, LogInv, Calendar
<1>8. \A t : SlotIn(files', t) = SlotIn(cache, t)
  BY <1>3, <1>5, SlotSame DEF Alike
<1>9. ASSUME NEW t \in Types, SlotIn(cache, t) # 0
      PROVE  /\ cache[SlotIn(cache, t)].active
             /\ cache[SlotIn(cache, t)].day = latest => NoEof(nor, t, cache[SlotIn(cache, t)].off)
  BY <1>1, <1>9 DEF LogInv, NewestSaved
<1>10. ASSUME NEW t \in Types, SlotIn(files', t) # 0
       PROVE  /\ files'[SlotIn(files', t)].active
              /\ files'[SlotIn(files', t)].day = latest =>
                   /\ EndOf(files'[SlotIn(files', t)]) = Edge(nor, t)
                   /\ NoEof(nor, t, files'[SlotIn(files', t)].off)
  <2> DEFINE s == SlotIn(cache, t)
  <2>1. SlotIn(files', t) = s /\ s # 0 /\ s \in DOMAIN cache /\ cache[s].t = t
    BY <1>8, <1>10, SlotInIndex
  <2>2. cache[s].active /\ (cache[s].day = latest => NoEof(nor, t, cache[s].off))
    BY <1>9, <2>1
  <2> HIDE DEF s
  <2>3. files'[s].day = cache[s].day /\ files'[s].off = cache[s].off
    BY <1>5, <2>1 DEF Alike
  <2> QED BY <1>5, <2>1, <2>2, <2>3
<1>11. \A i \in DOMAIN cache : Alike(cache[i], files'[i])
  BY <1>5
<1>12. /\ (~cached' => cache' = <<>>) /\ (cached \/ cached') /\ (cached => cached')
       /\ DaysUpTo(cache', latest) /\ Within(cache', nor) /\ Len(files') = Len(cache')
       /\ Len(cache') \in Nat /\ (\A i \in DOMAIN cache' : Alike(cache'[i], files'[i]))
       /\ cache' \in Tables
  BY <1>1, <1>2, <1>3, <1>6, <1>7, <1>11
<1>13. \A t \in Types : SlotIn(cache', t) # 0 =>
           /\ cache'[SlotIn(cache', t)].active
           /\ cache'[SlotIn(cache', t)].day = latest => NoEof(nor, t, cache'[SlotIn(cache', t)].off)
  BY <1>1, <1>9
<1> QED BY <1>1, <1>2, <1>6, <1>7, <1>10, <1>12, <1>13, BootedLog

\* With no cache there is no #EOF yet: a scan finds one file in each region that
\* is not erased, from its start to where it is erased.
LEMMA ScanFindsWhole ==
  ASSUME IInv, LogInv, ~cached, ~Formatting, Recoverable, NEW p \in Starts
  PROVE  LET e == RecoveredEntry(p)
         IN /\ e.t \in Types /\ e.off = 0 /\ e.active /\ e.day <= latest
            /\ EndOf(e) = Edge(nor, e.t) /\ NoEof(nor, e.t, 0)
<1> DEFINE t == p[1]
           n == Edge(nor, t)
<1>1. t \in Types /\ p[2] \in 0..(Size[t] - 1) /\ p[2] < n
      /\ (p[2] = 0 \/ nor[t][p[2] - 1].k = "eof") /\ Size[t] \in Nat
  BY EdgeIs, SizeAssumption DEF Starts
<1>2. \A i \in 0..(Size[t] - 1) : nor[t][i].k \notin {"eof", "row"}
  BY <1>1 DEF LogInv, Untouched
<1>3. p[2] = 0
  <2>1. p[2] # 0 => p[2] - 1 \in 0..(Size[t] - 1)
    BY <1>1
  <2> QED BY <1>1, <1>2, <2>1
<1>4. NoEof(nor, t, 0)
  BY <1>2 DEF NoEof, EofIn
<1>5. Filled(nor[t], Size[t], n) /\ n \in Nat
  BY <1>1, EdgeNat DEF LogInv, Regions
<1>6. FileEnd(t, 0) = n
  <2> DEFINE r == nor[t]
             z == Size[t]
  <2>1. Filled(r, z, n) /\ 0 \in 0..n /\ z \in Nat /\ ~EofIn(r, z, 0)
    BY <1>1, <1>4, <1>5 DEF NoEof
  <2>2. FileEnd(t, 0) = EndIn(r, z, 0)
    BY FileEndScans
  <2> HIDE DEF r, z, n
  <2>3. EndIn(r, z, 0) = n
    BY <2>1, EndFilled
  <2> QED BY <2>2, <2>3
<1>7. nor[t][0].k = "name" /\ nor[t][0].d <= latest
  <2>1. nor[t][0].k = "name"
    BY <1>3 DEF Recoverable
  <2>2. 0 \in 0..(Size[t] - 1)
    BY <1>1, <1>3
  <2> QED BY <1>1, <2>1, <2>2 DEF LogInv, Calendar, NamesUpTo
<1>8. nor[t][n - 1].k # "eof"
  <2>1. n \in 0..Size[t]
    BY <1>5 DEF Filled
  <2>2. n - 1 \in 0..(Size[t] - 1)
    BY <1>1, <1>3, <1>5, <2>1
  <2> QED BY <1>2, <2>2
<1>9. RecoveredEntry(p) = [t |-> t, day |-> nor[t][0].d, off |-> 0, len |-> n - 0, active |-> nor[t][n - 1].k # "eof"]
  BY <1>3, <1>6 DEF RecoveredEntry
<1> HIDE DEF n, t
<1>10. RecoveredEntry(p).t = t /\ RecoveredEntry(p).off = 0 /\ EndOf(RecoveredEntry(p)) = n
       /\ RecoveredEntry(p).day = nor[t][0].d
  BY <1>5, <1>9 DEF EndOf
<1>11. RecoveredEntry(p).active
  <2>1. RecoveredEntry(p).active = (nor[t][n - 1].k # "eof")
    BY <1>9
  <2> QED BY <1>8, <2>1
<1>12. n = Edge(nor, t)
  BY DEF n
<1> QED BY <1>1, <1>4, <1>7, <1>10, <1>11, <1>12

LEMMA BootByScanLog ==
  ASSUME Calm, IInv, LogInv, NEW d \in 0..MaxDay, BootByScan(d)
  PROVE  LogInv'
<1>1. Booting(d) /\ ~cached /\ Call(InitAgenda(d), d) /\ Recoverable /\ ~Formatting
      /\ cached' /\ cache' = files'
  BY BootDay DEF BootByScan, SaveGoesWrong, Calm
<1>2. PICK s \in [1..Cardinality(Starts) -> Starts] : files' = [i \in DOMAIN s |-> RecoveredEntry(s[i])]
  BY DEF BootByScan
<1>3. files' \in Tables
  BY <1>1, <1>2, ScanInside, Parts DEF Inside
<1>4. ASSUME NEW i \in DOMAIN files'
      PROVE  /\ files'[i].t \in Types /\ files'[i].off = 0 /\ files'[i].active
             /\ files'[i].day <= latest /\ EndOf(files'[i]) = Edge(nor, files'[i].t)
             /\ NoEof(nor, files'[i].t, 0) /\ EndOf(files'[i]) <= Edge(nor, files'[i].t)
  <2>1. s[i] \in Starts /\ files'[i] = RecoveredEntry(s[i])
    BY <1>2
  <2>2. /\ files'[i].t \in Types /\ files'[i].off = 0 /\ files'[i].active
        /\ files'[i].day <= latest /\ EndOf(files'[i]) = Edge(nor, files'[i].t)
        /\ NoEof(nor, files'[i].t, 0)
    BY <1>1, <2>1, ScanFindsWhole
  <2>3. Edge(nor, files'[i].t) \in Nat
    BY <2>2, EdgeNat DEF LogInv
  <2> QED BY <2>2, <2>3
<1>5. ASSUME NEW t \in Types, SlotIn(files', t) # 0
      PROVE  /\ files'[SlotIn(files', t)].active
             /\ EndOf(files'[SlotIn(files', t)]) = Edge(nor, t)
             /\ NoEof(nor, t, files'[SlotIn(files', t)].off)
  <2>1. SlotIn(files', t) \in DOMAIN files' /\ files'[SlotIn(files', t)].t = t
    BY <1>5, SlotInIndex
  <2> QED BY <1>4, <2>1
<1>6. DaysUpTo(files', latest) /\ Within(files', nor)
  BY <1>4 DEF DaysUpTo, Within
<1>7. Len(files') \in Nat /\ \A i \in DOMAIN files' : Alike(files'[i], files'[i])
  BY <1>3, TableDomain DEF Alike
<1>8. /\ (~cached' => cache' = <<>>) /\ (cached \/ cached') /\ (cached => cached')
      /\ DaysUpTo(cache', latest) /\ Within(cache', nor) /\ Len(files') = Len(cache')
      /\ Len(cache') \in Nat /\ (\A i \in DOMAIN cache' : Alike(cache'[i], files'[i]))
      /\ cache' \in Tables
  BY <1>1, <1>3, <1>6, <1>7
<1>9. /\ \A t \in Types : SlotIn(files', t) # 0 =>
           /\ files'[SlotIn(files', t)].active
           /\ files'[SlotIn(files', t)].day = latest =>
                /\ EndOf(files'[SlotIn(files', t)]) = Edge(nor, t)
                /\ NoEof(nor, t, files'[SlotIn(files', t)].off)
      /\ \A t \in Types : SlotIn(cache', t) # 0 =>
           /\ cache'[SlotIn(cache', t)].active
           /\ cache'[SlotIn(cache', t)].day = latest => NoEof(nor, t, cache'[SlotIn(cache', t)].off)
  BY <1>1, <1>5
<1> QED BY <1>1, <1>3, <1>6, <1>8, <1>9, BootedLog

\* Unrecognised data: an erasing begins, and the table is empty.
LEMMA BootFormatsLog ==
  ASSUME Calm, IInv, LogInv, NEW d \in 0..MaxDay, BootFormats(d)
  PROVE  LogInv'
<1>1. /\ Booting(d) /\ ~cached /\ files' = <<>> /\ Call(FormatAll, d) /\ cached' = cached /\ cache' = cache
  BY DEF BootFormats
<1>2. /\ todo = <<>> /\ stage = "decide" /\ mode' = "init"
      /\ nor' = nor /\ ymd' = 0 /\ clock' = d
      /\ latest \in Nat /\ latest' \in Nat /\ latest' >= latest /\ clock' \in {0, latest'}
  BY <1>1, BootDay
<1>3. todo' = FormatAll /\ day' = d /\ stage' = "decide" /\ cache = <<>>
  BY <1>1, <1>2 DEF Call, LogInv, Saved
<1>4. Formatting'
  <2>1. \E i \in DOMAIN FormatAll : FormatAll[i] = Erase(Provenance)
    BY FormatAgenda, OrderAssumption
  <2>2. Wipes(FormatAll)
    BY <2>1, TaskKinds DEF Wipes
  <2> QED BY <1>3, <2>2, WipesIs
<1>5. Calendar'
  <2>1. DaysUpTo(files', latest') /\ DaysUpTo(cache', latest')
    BY <1>1, <1>3, EmptySeq DEF DaysUpTo
  <2>2. NamesUpTo(nor, latest')
    <3> SUFFICES ASSUME NEW t \in Types, NEW i \in 0..(Size[t] - 1), nor[t][i].k = "name"
                 PROVE  nor[t][i].d <= latest'
      BY DEF NamesUpTo
    <3>1. nor[t][i] \in Cell
      BY Parts DEF NorOK
    <3>2. nor[t][i].d \in Nat
      BY <3>1, DayRange DEF Cell
    <3>3. nor[t][i].d <= latest
      BY DEF LogInv, Calendar, NamesUpTo
    <3> QED BY <1>2, <3>2, <3>3
  <2> QED BY <1>2, <1>3, <2>1, <2>2 DEF Calendar
<1>6. Regions(nor') /\ Rotating'
  BY <1>2, <1>3 DEF LogInv, Rotating
<1>7. Behind' /\ Untouched' /\ NewestOpen' /\ NewestSaved' /\ DayDone'
  BY <1>4 DEF Behind, Untouched, NewestOpen, NewestSaved, DayDone
<1>8. Saved'
  BY <1>1, <1>2, <1>3, <1>4 DEF Saved
<1>9. Erasing'
  BY <1>2, <1>3, FormatAgenda DEF Erasing
<1> QED BY <1>5, <1>6, <1>7, <1>8, <1>9 DEF LogInv

\* A later day leaves no file that is today's.
LEMMA SetClockLog ==
  ASSUME Calm, IInv, LogInv, NEW d \in Days, SetClock(d)
  PROVE  LogInv'
<1>1. /\ todo = <<>> /\ todo' = todo /\ stage' = stage /\ day' = day /\ off' = off
      /\ nor' = nor /\ files' = files /\ cache' = cache /\ cached' = cached
      /\ mode' = mode /\ full' = full /\ ymd' = ymd /\ mode # "off"
  BY DEF SetClock, Idle, Up, flashVars, ramVars, opVars
<1>2. ~Formatting /\ ~Formatting'
  BY <1>1, NoAgenda, WipesIs
<1>3. /\ latest \in Nat /\ latest' \in Nat /\ latest' >= latest /\ clock' = latest'
  BY Parts, DayRange DEF CountsOK, SetClock, Calm
<1>f. files \in Tables /\ cache \in Tables
  BY InsideTables DEF Inside
<1>4. /\ \A i \in DOMAIN files : files[i].day \in Nat /\ files[i].day <= latest
      /\ \A i \in DOMAIN cache : cache[i].day \in Nat /\ cache[i].day <= latest
  <2>1. \A i \in DOMAIN files : files[i] \in Entry
    BY <1>f, TableDomain
  <2>2. \A i \in DOMAIN cache : cache[i] \in Entry
    BY <1>f, TableDomain
  <2> QED BY <2>1, <2>2, DayRange DEF LogInv, Calendar, DaysUpTo, Entry
<1>5. Calendar'
  <2>1. DaysUpTo(files', latest') /\ DaysUpTo(cache', latest')
    BY <1>1, <1>3, <1>4 DEF DaysUpTo
  <2>2. NamesUpTo(nor, latest')
    <3> SUFFICES ASSUME NEW t \in Types, NEW i \in 0..(Size[t] - 1), nor[t][i].k = "name"
                 PROVE  nor[t][i].d <= latest'
      BY DEF NamesUpTo
    <3>1. nor[t][i] \in Cell
      BY Parts DEF NorOK
    <3>2. nor[t][i].d \in Nat
      BY <3>1, DayRange DEF Cell
    <3>3. nor[t][i].d <= latest
      BY DEF LogInv, Calendar, NamesUpTo
    <3> QED BY <1>3, <3>2, <3>3
  <2>3. Idle'
    BY <1>1 DEF Idle
  <2> QED BY <1>1, <1>3, <2>1, <2>2, <2>3 DEF Calendar
<1>6. Regions(nor') /\ Behind' /\ Erasing' /\ Untouched' /\ Rotating' /\ Saved'
  <2>1. Regions(nor') /\ Behind' /\ Untouched'
    BY <1>1, <1>2 DEF LogInv, Behind, Untouched
  <2>2. Erasing' /\ Rotating'
    BY <1>1, <1>2 DEF LogInv, Erasing, Rotating
  <2>3. Saved'
    BY <1>1, <1>2 DEF LogInv, Saved, Opened
  <2> QED BY <2>1, <2>2, <2>3
<1>7. NewestOpen'
  <2> SUFFICES ASSUME NEW t \in Types, SlotIn(files, t) # 0
               PROVE  LET i == SlotIn(files, t)
                      IN /\ files[i].active \/ (stage' = "header" /\ Head(todo').t = t)
                         /\ files[i].day = latest' => EndOf(files[i]) = Edge(nor, t) /\ NoEof(nor, t, files[i].off)
    BY <1>1 DEF NewestOpen
  <2>1. SlotIn(files, t) \in DOMAIN files
    BY SlotInIndex
  <2>2. files[SlotIn(files, t)].day = latest' => files[SlotIn(files, t)].day = latest
    BY <1>3, <1>4, <2>1
  <2> QED BY <1>1, <1>2, <2>2 DEF LogInv, NewestOpen
<1>8. NewestSaved'
  <2> SUFFICES ASSUME NEW t \in Types, SlotIn(cache, t) # 0
               PROVE  LET i == SlotIn(cache, t)
                      IN cache[i].active /\ (cache[i].day = latest' => NoEof(nor, t, cache[i].off))
    BY <1>1 DEF NewestSaved
  <2>1. SlotIn(cache, t) \in DOMAIN cache
    BY SlotInIndex
  <2>2. cache[SlotIn(cache, t)].day = latest' => cache[SlotIn(cache, t)].day = latest
    BY <1>3, <1>4, <2>1
  <2> QED BY <1>2, <2>2 DEF LogInv, NewestSaved
<1>9. DayDone'
  BY <1>1, <1>2 DEF LogInv, DayDone
<1> QED BY <1>5, <1>6, <1>7, <1>8, <1>9 DEF LogInv

\* What a cut write leaves is Part, or a beginning that has no #EOF in it.
LEMMA CutWrites ==
  ASSUME Calm, IInv, LogInv, PowerCut
  PROVE  /\ Regions(nor') /\ NamesUpTo(nor', latest) /\ ~Formatting
         /\ \A t \in Types : Edge(nor', t) = Edge(nor, t) \/ Edge(nor', t) > Edge(nor, t)
         /\ \A t \in Types, p \in Nat : NoEof(nor, t, p) => NoEof(nor', t, p)
         /\ \A t \in Types : \A i \in 0..(Size[t] - 1) :
              nor'[t][i] = nor[t][i] \/ nor'[t][i].k \notin {"eof", "row"}
<1>1. ~Formatting /\ nor' \in CutFlashes
  BY DEF PowerCut, Calm
<1>2. ~Doing("erase")
  <2> SUFFICES ASSUME Doing("erase") PROVE FALSE
    OBVIOUS
  <2>1. todo # <<>> /\ todo \in Seq(Tasks)
    BY Parts DEF OpOK, Doing, Idle
  <2>2. 1 \in DOMAIN todo /\ todo[1].do = "erase"
    BY <2>1, TailTasks DEF Doing
  <2> QED BY <1>1, <2>2 DEF Formatting
<1>3. CASE nor' = nor
  <2>1. \A t \in Types : Edge(nor', t) = Edge(nor, t)
    BY <1>3
  <2>2. Regions(nor') /\ NamesUpTo(nor', latest)
    BY <1>3 DEF LogInv, Calendar
  <2> QED BY <1>1, <1>3, <2>1, <2>2
<1>4. CASE nor' # nor
  <2>1. HasPending /\ ~full[Pending.t] /\ Fits(Pending.t, Pending.at, Pending.cells)
    BY <1>1, <1>2, <1>4 DEF CutFlashes, Programming
  <2>2. PICK c \in Torn(Pending.cells) :
          nor' = [nor EXCEPT ![Pending.t] = Program(nor[Pending.t], Pending.at, c)]
    BY <1>1, <1>2, <1>4 DEF CutFlashes, Programming
  <2> DEFINE h == Head(todo).t
             at == Pending.at
             cells == Pending.cells
  <2>3. /\ h \in Types /\ at \in 0..Edge(nor, h) /\ Pending.t = h /\ cells \in Seq(Cell)
        /\ Size[h] \in Nat /\ at \in Nat /\ at + Len(cells) <= Size[h] /\ todo # <<>>
    BY <2>1, WriteBehindEdge, PendingType DEF Fits
  <2>4. /\ Len(c) \in Nat /\ Len(c) <= Len(cells) /\ Len(cells) \in Nat
        /\ \A i \in 1..Len(c) : c[i] = Part \/ (i < Len(cells) /\ c[i] = cells[i])
    BY <2>3, TornCells, LenProperties
  <2>5. ASSUME NEW i \in 1..Len(c)
        PROVE  /\ c[i].k \notin {"blank", "eof", "row"}
               /\ c[i].k = "name" => c[i].d = day
    <3>1. CASE c[i] = Part
      BY <3>1 DEF Part
    <3>2. CASE i < Len(cells) /\ c[i] = cells[i]
      <4>1. i \in 1..Len(cells)
        BY <2>4, <3>2
      <4>2. /\ cells[i].k # "blank" /\ (cells[i].k = "eof" => stage = "close")
            /\ cells[i].k = "name" => cells[i].d = day
            /\ cells[i].k = "row" => i = Len(cells)
        BY <2>1, <4>1, PendingCells
      <4>3. stage # "close"
        <5>1. stage = "close" => Len(cells) = 1
          BY <2>1, PendingType
        <5> QED BY <2>4, <3>2, <5>1
      <4> QED BY <2>4, <3>2, <4>2, <4>3
    <3> QED BY <2>4, <3>1, <3>2
  <2>6. NorOK /\ Regions(nor) /\ at + Len(c) <= Size[h] /\ Edge(nor, h) \in Nat
        /\ nor' = [nor EXCEPT ![h] = Program(nor[h], at, c)]
    BY <2>2, <2>3, <2>4, Parts, EdgeNat DEF LogInv
  <2>7. day <= latest
    <3>1. latest \in Nat /\ day = clock /\ clock \in {0, latest}
      BY <2>3, DayIsLatest, Parts, DayRange DEF CountsOK, LogInv, Calendar
    <3> QED BY <3>1
  <2> HIDE DEF h, at, cells
  <2>8. Wrote(nor, nor', h, at, c)
    <3>1. \A i \in 1..Len(c) : c[i].k # "blank"
      BY <2>5
    <3> QED BY <2>3, <2>4, <2>6, <3>1, RegionWritten
  <2>9. h \in Types /\ at \in Nat /\ Len(c) \in Nat /\ Wrote(nor, nor', h, at, c)
    BY <2>3, <2>4, <2>8
  <2>10. \A t \in Types : Edge(nor', t) = Edge(nor, t) \/ Edge(nor', t) > Edge(nor, t)
    BY <2>6, <2>9, WroteEdges
  <2>11. NamesUpTo(nor', latest)
    <3>1. NamesUpTo(nor, latest) /\ \A i \in 1..Len(c) : c[i].k = "name" => c[i].d <= latest
      BY <2>5, <2>7 DEF LogInv, Calendar
    <3> QED BY <2>9, <3>1, WroteNames
  <2>12. ASSUME NEW t \in Types, NEW p \in Nat, NoEof(nor, t, p) PROVE NoEof(nor', t, p)
    <3>1. \A i \in 1..Len(c) : c[i].k # "eof"
      BY <2>5
    <3> QED BY <2>9, <2>12, <3>1, WroteNoEof
  <2>13. ASSUME NEW t \in Types, NEW i \in 0..(Size[t] - 1)
         PROVE  nor'[t][i] = nor[t][i] \/ nor'[t][i].k \notin {"eof", "row"}
    <3> DEFINE Came == \E j \in 1..Len(c) : t = h /\ i = at + j - 1 /\ nor'[t][i] = c[j]
    <3>1. nor'[t][i] = nor[t][i] \/ nor'[t][i].k = "smear" \/ Came
      BY <2>9, CellFrom
    <3>2. Came => nor'[t][i].k \notin {"eof", "row"}
      BY <2>5
    <3> HIDE DEF Came
    <3> QED BY <3>1, <3>2
  <2>14. Regions(nor')
    BY <2>8 DEF Wrote
  <2> QED BY <1>1, <2>10, <2>11, <2>12, <2>13, <2>14
<1> QED BY <1>3, <1>4

LEMMA PowerCutLog ==
  ASSUME Calm, IInv, LogInv, PowerCut
  PROVE  LogInv'
<1>1. /\ Regions(nor') /\ NamesUpTo(nor', latest) /\ ~Formatting
      /\ \A t \in Types : Edge(nor', t) = Edge(nor, t) \/ Edge(nor', t) > Edge(nor, t)
      /\ \A t \in Types, p \in Nat : NoEof(nor, t, p) => NoEof(nor', t, p)
      /\ \A t \in Types : \A i \in 0..(Size[t] - 1) :
           nor'[t][i] = nor[t][i] \/ nor'[t][i].k \notin {"eof", "row"}
  BY CutWrites
<1>2. /\ mode # "off" /\ mode' = "off" /\ files' = <<>> /\ ymd' = 0 /\ clock' = 0 /\ todo' = <<>>
      /\ stage' = "decide" /\ cached' = cached /\ cache' = cache /\ latest' = latest
  BY DEF PowerCut
<1>3. ~Formatting' /\ Erasing'
  BY <1>2, NoAgenda, WipesIs DEF Erasing
<1>4. Calendar'
  BY <1>1, <1>2, EmptySeq DEF LogInv, Calendar, DaysUpTo, Idle
<1>c. cache \in Tables
  BY InsideTables DEF Inside
<1>5. Behind'
  <2>1. \A t \in Types : Edge(nor, t) \in Nat /\ Edge(nor', t) \in Nat
    BY <1>1, EdgeNat DEF LogInv
  <2>2. Within(cache, nor)
    BY <1>1 DEF LogInv, Behind
  <2>3. Within(cache, nor')
    BY <1>1, <1>c, <2>1, <2>2, WithinStays
  <2>4. Within(<<>>, nor')
    BY EmptySeq DEF Within
  <2> QED BY <1>2, <2>3, <2>4 DEF Behind
<1>6. Saved' /\ Rotating'
  BY <1>2 DEF LogInv, Saved, Rotating
<1>7. Untouched'
  <2> SUFFICES ASSUME ~cached, NEW t \in Types, NEW i \in 0..(Size[t] - 1)
               PROVE  nor'[t][i].k \notin {"eof", "row"}
    BY <1>2 DEF Untouched
  <2>1. nor[t][i].k \notin {"eof", "row"}
    BY <1>1 DEF LogInv, Untouched
  <2> QED BY <1>1, <2>1
<1>8. NewestOpen'
  BY <1>2, NoSlot DEF NewestOpen
<1>9. ASSUME NEW t \in Types, SlotIn(cache, t) # 0
      PROVE  cache[SlotIn(cache, t)].active
             /\ (cache[SlotIn(cache, t)].day = latest => NoEof(nor', t, cache[SlotIn(cache, t)].off))
  <2>1. cache[SlotIn(cache, t)] \in Entry
    BY <1>9, <1>c, SlotInIndex, TableDomain
  <2>2. cache[SlotIn(cache, t)].off \in Nat
    BY <2>1 DEF Entry
  <2> QED BY <1>1, <1>9, <2>2 DEF LogInv, NewestSaved
<1>10. NewestSaved'
  BY <1>2, <1>9 DEF NewestSaved
<1>11. DayDone'
  BY <1>2, EmptySeq DEF DayDone
<1> QED BY <1>1, <1>3, <1>4, <1>5, <1>6, <1>7, <1>8, <1>10, <1>11 DEF LogInv

LEMMA StutterLog == IInv /\ LogInv /\ UNCHANGED vars => LogInv'
<1> SUFFICES ASSUME LogInv, UNCHANGED vars PROVE LogInv'
  OBVIOUS
<1>1. /\ nor' = nor /\ files' = files /\ cache' = cache /\ cached' = cached /\ mode' = mode
      /\ full' = full /\ ymd' = ymd /\ clock' = clock /\ latest' = latest /\ todo' = todo
      /\ stage' = stage /\ off' = off /\ day' = day
  BY DEF vars, flashVars, ramVars, opVars, envVars
<1>2. Formatting' = Formatting
  BY <1>1 DEF Formatting
<1>3. Calendar' /\ Regions(nor') /\ Behind' /\ Erasing' /\ Untouched'
  BY <1>1, <1>2 DEF LogInv, Calendar, Idle, Behind, Erasing, Untouched
<1>4. Saved'
  BY <1>1, <1>2 DEF LogInv, Saved, Opened
<1>5. Rotating'
  BY <1>1 DEF LogInv, Rotating
<1>6. NewestOpen' /\ NewestSaved'
  BY <1>1, <1>2 DEF LogInv, NewestOpen, NewestSaved
<1>7. DayDone'
  BY <1>1, <1>2 DEF LogInv, DayDone
<1> QED BY <1>3, <1>4, <1>5, <1>6, <1>7 DEF LogInv

LEMMA InitLog == Init => LogInv
<1> SUFFICES ASSUME Init PROVE LogInv
  OBVIOUS
<1>1. ASSUME NEW t \in Types
      PROVE  /\ Filled(nor[t], Size[t], 0) /\ Edge(nor, t) = 0
             /\ \A i \in 0..(Size[t] - 1) : nor[t][i] = Blank
  <2>1. nor[t] = [i \in 0..(Size[t] - 1) |-> Blank]
    BY DEF Init
  <2>2. Filled(nor[t], Size[t], 0)
    BY <2>1, SizeAssumption DEF Filled
  <2> QED BY <2>1, <2>2, FilledEdge
<1>2. /\ ~cached /\ cache = <<>> /\ mode = "off" /\ files = <<>> /\ ymd = 0 /\ clock = 0
      /\ todo = <<>> /\ stage = "decide"
  BY DEF Init
<1>3. ~Formatting
  BY <1>2, NoAgenda, WipesIs
<1>4. Regions(nor)
  BY <1>1 DEF Regions
<1>5. Calendar /\ Untouched
  BY <1>1, <1>2, EmptySeq DEF Calendar, Untouched, Idle, DaysUpTo, NamesUpTo, Blank
<1>6. Behind /\ Saved /\ Erasing /\ Rotating
  BY <1>2, <1>3, EmptySeq DEF Behind, Within, Saved, Erasing, Rotating
<1>7. NewestOpen /\ NewestSaved
  BY <1>2, NoSlot DEF NewestOpen, NewestSaved
<1>8. DayDone
  BY <1>2, EmptySeq DEF DayDone
<1> QED BY <1>4, <1>5, <1>6, <1>7, <1>8 DEF LogInv

LEMMA NextLog == Calm /\ IInv /\ LogInv /\ [Next]_vars => LogInv'
<1> SUFFICES ASSUME Calm, IInv, LogInv, [Next]_vars PROVE LogInv'
  OBVIOUS
<1>1. CASE EnsureStep
  BY <1>1, EnsureReturnsLog, EnsureLatchesLog, EnsureBeginsLog, CloseOldLog,
     WriteHeaderLog, WriteDayStartLog, SaveCacheLog DEF EnsureStep
<1>2. CASE AppendRow \/ RecordCalendarDay \/ EraseRegion \/ ClearTables
  BY <1>2, AppendRowLog, RecordCalendarDayLog, EraseRegionLog, ClearTablesLog
<1>3. CASE Boot
  BY <1>3, BootFromCacheLog, BootByScanLog, BootFormatsLog DEF Boot
<1>4. CASE \E t \in Types, n \in RowSizes : StartAppend(t, n)
  BY <1>4, StartAppendLog
<1>5. CASE StartFormat
  BY <1>5, StartFormatLog
<1>6. CASE \E d \in Days : SetClock(d)
  BY <1>6, SetClockLog
<1>7. CASE PowerCut
  BY <1>7, PowerCutLog
<1>8. CASE FaultIndication \/ UNCHANGED vars
  BY <1>8, StutterLog DEF FaultIndication
<1>9. ~WriteFails /\ ~SaveFails /\ ~LoseCache /\ ~(\E t \in Types, d \in Days : FlushDraft(t, d))
  BY DEF Calm, WriteFails, SaveFails, SaveGoesWrong, LoseCache, FlushDraft
<1> QED BY <1>1, <1>2, <1>3, <1>4, <1>5, <1>6, <1>7, <1>8, <1>9 DEF Next, Step

THEOREM LogInvariant == ASSUME Calm PROVE Spec => []LogInv
<1>1. Init => LogInv
  BY InitLog
<1>2. IInv /\ LogInv /\ [Next]_vars => LogInv'
  BY NextLog
<1> QED BY <1>1, <1>2, Inductive, PTL DEF Spec

\* The next row of every type that has a file goes to the first erased cell of
\* its region, once the day's files are open, however often power was cut, a
\* write torn or a rotation resumed on the way: reconciling the saved table with
\* the flash at boot (juxta_log.c) never leaves a gap or writes over a row.
THEOREM AppendsGoToFrontier == ASSUME Calm PROVE Spec => []AppendsAtFrontier
<1>1. IInv /\ LogInv => AppendsAtFrontier
  <2> SUFFICES ASSUME IInv, LogInv, Up, Idle, ymd # 0, Len(files) < MaxFiles,
                      NEW t \in Types, Slot(t) # 0, ~full[t]
               PROVE  EndOf(files[Slot(t)]) = FirstErased(t)
    BY DEF AppendsAtFrontier
  <2>1. ~Formatting
    BY NoAgenda, WipesIs DEF Idle
  <2>2. Good(files, full, nor, t)
    BY <2>1 DEF LogInv, DayDone
  <2> QED BY <2>2, SlotIs, EdgeIs DEF Good
<1> QED BY <1>1, Inductive, LogInvariant, PTL

\* When ensure_file has looked at the region and decided to open the day's file
\* it opens it: neither the #EOF of the old file nor the header of the new one
\* is refused by guarded_flash_append, so the old file is never left closed with
\* no file after it but by a power cut.
THEOREM RotationsComplete == ASSUME Calm PROVE Spec => RotationCompletes
<1> DEFINE Completes == (stage = "close" \/ stage = "header") /\ stage' = "decide"
                          => mode' = "off" \/ faults' # faults
<1>1. IInv /\ LogInv /\ [Next]_vars => [Completes]_vars
  <2> SUFFICES ASSUME IInv, LogInv, Next, stage = "close" \/ stage = "header", stage' = "decide"
               PROVE  mode' = "off" \/ faults' # faults
    OBVIOUS
  <2>1. Doing("ensure")
    BY DEF IInv, Committed
  <2>2. CASE CloseOld
    BY <2>2, CloseAllowed
  <2>3. CASE WriteHeader
    BY <2>3, HeaderAllowed
  <2>4. CASE PowerCut
    BY <2>4 DEF PowerCut
  <2>5. CASE WriteFails
    BY <2>5, Parts DEF WriteFails, CountsOK
  <2>6. ASSUME ~CloseOld, ~WriteHeader, ~PowerCut, ~WriteFails PROVE FALSE
    <3>1. todo # <<>> /\ mode # "off" /\ Head(todo).do = "ensure" /\ stage' # stage
      BY <2>1 DEF IInv, Committed, Doing, Idle
    <3>2. ~EnsureStep
      BY <2>6 DEF EnsureStep, EnsureReturns, EnsureLatches, EnsureBegins, Deciding,
         WriteDayStart, SaveCache, Writing
    <3>3. ~(AppendRow \/ RecordCalendarDay \/ EraseRegion \/ ClearTables \/ SaveFails)
      BY <3>1 DEF AppendRow, RecordCalendarDay, EraseRegion, ClearTables, SaveFails, Writing, Doing
    <3>4. ~Boot
      BY <3>1 DEF Boot, BootFromCache, BootByScan, BootFormats, Booting
    <3>5. ~(\E t \in Types, n \in RowSizes : StartAppend(t, n)) /\ ~StartFormat
          /\ ~(\E t \in Types, d \in Days : FlushDraft(t, d))
      BY <3>1 DEF StartAppend, StartFormat, FlushDraft, Calls, Idle
    <3>6. ~(\E d \in Days : SetClock(d)) /\ ~LoseCache /\ ~FaultIndication
      BY <3>1 DEF SetClock, LoseCache, FaultIndication, Idle, vars, opVars
    <3> QED BY <2>6, <3>2, <3>3, <3>4, <3>5, <3>6 DEF Next, Step
  <2> QED BY <2>2, <2>3, <2>4, <2>5, <2>6
<1> QED BY <1>1, Inductive, LogInvariant, PTL DEF Spec, RotationCompletes

-----------------------------------------------------------------------------
(* Which rows a file holds. *)

\* A closed file ends before the next file of its type begins; the marker it
\* ends with may be where the header of the next one goes.
Order(fs) ==
  \A i, j \in DOMAIN fs : i < j /\ fs[i].t = fs[j].t =>
    ~fs[i].active /\ EndOf(fs[i]) <= fs[j].off + 1

\* Cell c lies between the start of file i and that of the next of its type.
Owns(fs, i, c) ==
  /\ fs[i].off <= c
  /\ \A j \in DOMAIN fs : j > i /\ fs[j].t = fs[i].t => c < fs[j].off

\* From the start of a file to that of the next, dated rows are of its day.
Dated(fs, nr) ==
  \A i \in DOMAIN fs : \A c \in 0..(Size[fs[i].t] - 1) :
    Owns(fs, i, c) /\ nr[fs[i].t][c].k = "row" => nr[fs[i].t][c].d \in {0, fs[i].day}

\* A row that ensure_file has seen to goes to a file of its day, or to none.
Ready(fs, fl, d, t) ==
  \/ d = 0 \/ fl[t] \/ Len(fs) >= MaxFiles
  \/ SlotIn(fs, t) # 0 => fs[SlotIn(fs, t)].day = d

Ordered == ~Formatting => Order(files) /\ Order(cache)
Sorted == ~Formatting /\ Len(cache) < MaxFiles => Dated(files, nor) /\ Dated(cache, nor)
OldClosed ==
  stage = "header" /\ SlotIn(files, Head(todo).t) # 0 => ~files[SlotIn(files, Head(todo).t)].active
RowsSeenTo ==
  \A i \in DOMAIN todo : todo[i].do = "row" =>
    IF i = 1 THEN Ready(files, full, day, todo[i].t) ELSE todo[i - 1] = Ensure(todo[i].t)

DayInv == Ordered /\ Sorted /\ OldClosed /\ RowsSeenTo

\* The same files, however long or open, in the same places own the same rows.
LEMMA OwnsAlike ==
  ASSUME NEW fs, NEW gs, DOMAIN fs = DOMAIN gs, \A i \in DOMAIN fs : Alike(fs[i], gs[i]),
         NEW nr, Dated(fs, nr)
  PROVE  Dated(gs, nr)
<1> SUFFICES ASSUME NEW i \in DOMAIN gs, NEW c \in 0..(Size[gs[i].t] - 1),
                    Owns(gs, i, c), nr[gs[i].t][c].k = "row"
             PROVE  nr[gs[i].t][c].d \in {0, gs[i].day}
  BY DEF Dated
<1>1. Owns(fs, i, c)
  BY DEF Owns, Alike
<1>2. fs[i].t = gs[i].t /\ fs[i].day = gs[i].day
  BY DEF Alike
<1> QED BY <1>1, <1>2 DEF Dated

\* Flash that has no row but those it had.
NoNewRow(nr, nr2) ==
  \A t \in Types : \A i \in 0..(Size[t] - 1) : nr2[t][i] = nr[t][i] \/ nr2[t][i].k # "row"

LEMMA DatedStays ==
  ASSUME NEW fs \in Tables, NEW nr, NEW nr2, NoNewRow(nr, nr2), Dated(fs, nr)
  PROVE  Dated(fs, nr2)
<1> SUFFICES ASSUME NEW i \in DOMAIN fs, NEW c \in 0..(Size[fs[i].t] - 1),
                    Owns(fs, i, c), nr2[fs[i].t][c].k = "row"
             PROVE  nr2[fs[i].t][c].d \in {0, fs[i].day}
  BY DEF Dated
<1>1. fs[i].t \in Types
  BY TableDomain DEF Entry
<1>2. nr2[fs[i].t][c] = nr[fs[i].t][c]
  BY <1>1 DEF NoNewRow
<1> QED BY <1>2 DEF Dated

\* A new entry takes no row from the files before it, and has none yet.
LEMMA DatedAppended ==
  ASSUME NEW fs, NEW gs, NEW n \in Nat, DOMAIN fs = 1..n, DOMAIN gs = 1..(n + 1),
         \A i \in 1..n : gs[i] = fs[i], NEW nr, Dated(fs, nr),
         gs[n + 1].off \in Nat,
         \A c \in gs[n + 1].off..(Size[gs[n + 1].t] - 1) : nr[gs[n + 1].t][c].k # "row"
  PROVE  Dated(gs, nr)
<1> SUFFICES ASSUME NEW i \in 1..(n + 1), NEW c \in 0..(Size[gs[i].t] - 1),
                    Owns(gs, i, c), nr[gs[i].t][c].k = "row"
             PROVE  nr[gs[i].t][c].d \in {0, gs[i].day}
  BY DEF Dated
<1>1. CASE i = n + 1
  <2>1. gs[n + 1].off <= c
    BY <1>1 DEF Owns
  <2>2. c \in gs[n + 1].off..(Size[gs[n + 1].t] - 1)
    BY <1>1, <2>1
  <2> QED BY <1>1, <2>2
<1>2. CASE i # n + 1
  <2>1. i \in 1..n /\ \A j \in 1..n : j \in 1..(n + 1)
    BY <1>2
  <2>2. Owns(fs, i, c)
    BY <2>1 DEF Owns
  <2> QED BY <2>1, <2>2 DEF Dated
<1> QED BY <1>1, <1>2

LEMMA NoTable == Order(<<>>) /\ \A nr : Dated(<<>>, nr)
BY EmptySeq DEF Order, Dated

\* Steps that leave the tables and the flash alone.
LEMMA SameFilesDays ==
  ASSUME Ordered, Sorted, nor' = nor, cache' = cache, files' = files,
         ~Formatting' => ~Formatting
  PROVE  Ordered' /\ Sorted'
BY DEF Ordered, Sorted


\* The head of the agenda has seen to the row behind it.
LEMMA TaskDoneRows ==
  ASSUME todo \in Seq(Tasks), todo # <<>>, RowsSeenTo, TaskDone,
         \A t : Head(todo) = Ensure(t) => Ready(files', full', day', t)
  PROVE  RowsSeenTo' /\ OldClosed'
<1>1. /\ Len(todo) \in Nat \ {0} /\ DOMAIN todo = 1..Len(todo) /\ Head(todo) = todo[1]
      /\ DOMAIN Tail(todo) = 1..(Len(todo) - 1)
      /\ \A i \in 1..(Len(todo) - 1) : Tail(todo)[i] = todo[i + 1]
  BY TailTasks
<1>2. todo' = Tail(todo) /\ stage' = "decide"
  BY DEF TaskDone
<1>3. ASSUME NEW i \in DOMAIN todo', todo'[i].do = "row"
      PROVE  IF i = 1 THEN Ready(files', full', day', todo'[i].t) ELSE todo'[i - 1] = Ensure(todo'[i].t)
  <2>1. i \in 1..(Len(todo) - 1) /\ i + 1 \in DOMAIN todo /\ i + 1 # 1 /\ (i + 1) - 1 = i
    BY <1>1, <1>2
  <2>2. todo'[i] = todo[i + 1]
    BY <1>1, <1>2, <2>1
  <2>3. todo[i] = Ensure(todo[i + 1].t)
    BY <1>3, <2>1, <2>2 DEF RowsSeenTo
  <2>4. CASE i = 1
    <3>1. Head(todo) = Ensure(todo'[i].t)
      BY <1>1, <2>2, <2>3, <2>4
    <3> QED BY <2>4, <3>1
  <2>5. CASE i # 1
    <3>1. i - 1 \in 1..(Len(todo) - 1) /\ (i - 1) + 1 = i
      BY <2>1, <2>5
    <3>2. todo'[i - 1] = todo[i]
      BY <1>1, <1>2, <3>1
    <3> QED BY <2>2, <2>3, <2>5, <3>2
  <2> QED BY <2>4, <2>5
<1>4. RowsSeenTo'
  BY <1>3 DEF RowsSeenTo
<1> QED BY <1>2, <1>4 DEF OldClosed

\* A step inside ensure_file leaves the rows behind it seen to.
LEMMA SameAgendaRows ==
  ASSUME todo \in Seq(Tasks), todo # <<>>, RowsSeenTo, todo' = todo, Head(todo).do # "row"
  PROVE  RowsSeenTo'
<1>1. Head(todo) = todo[1]
  BY TailTasks
<1>2. ASSUME NEW i \in DOMAIN todo', todo'[i].do = "row"
      PROVE  IF i = 1 THEN Ready(files', full', day', todo'[i].t) ELSE todo'[i - 1] = Ensure(todo'[i].t)
  <2>1. i # 1
    BY <1>1, <1>2
  <2> QED BY <1>2, <2>1 DEF RowsSeenTo
<1> QED BY <1>2 DEF RowsSeenTo

\* A call that begins has no row yet to be added, or ensures its file first.
LEMMA NewAgendaRows ==
  ASSUME RowAfterEnsure(todo'), stage' = "decide"
  PROVE  RowsSeenTo' /\ OldClosed'
<1>1. ASSUME NEW i \in DOMAIN todo', todo'[i].do = "row"
      PROVE  i # 1 /\ todo'[i - 1] = Ensure(todo'[i].t)
  BY <1>1 DEF RowAfterEnsure
<1>2. RowsSeenTo'
  BY <1>1 DEF RowsSeenTo
<1> QED BY <1>2 DEF OldClosed

\* A task that is not ensure_file leaves no row to be added next.
LEMMA OtherTaskRows ==
  ASSUME todo \in Seq(Tasks), todo # <<>>, RowsSeenTo, TaskDone, Head(todo).do # "ensure"
  PROVE  RowsSeenTo' /\ OldClosed'
<1>1. \A t : Head(todo) # Ensure(t)
  BY TaskKinds
<1> QED BY <1>1, TaskDoneRows

-----------------------------------------------------------------------------
(* No step puts a row where it does not belong. *)

LEMMA EnsureReturnsDay == IInv /\ LogInv /\ DayInv /\ EnsureReturns => DayInv'
<1> SUFFICES ASSUME IInv, LogInv, DayInv, EnsureReturns PROVE DayInv'
  OBVIOUS
<1>0. todo \in Seq(Tasks) /\ todo # <<>> /\ Head(todo).do = "ensure"
  BY Parts DEF OpOK, EnsureReturns, Deciding, Doing, Idle
<1>1. ~Formatting
  BY <1>0, NotWiping DEF LogInv
<1>2. nor' = nor /\ cache' = cache /\ files' = files /\ full' = full /\ day' = day /\ TaskDone
  BY DEF EnsureReturns, TaskDone, flashVars, ramVars
<1>3. ASSUME NEW t, Head(todo) = Ensure(t) PROVE Ready(files', full', day', t)
  <2>1. EnsureType = t
    BY <1>3, TaskKinds DEF EnsureType
  <2>2. NothingToEnsure(t)
    BY <2>1 DEF EnsureReturns
  <2> QED BY <1>2, <2>2, SlotIs DEF NothingToEnsure, Ready
<1>4. RowsSeenTo' /\ OldClosed'
  BY <1>0, <1>2, <1>3, TaskDoneRows DEF DayInv
<1> QED BY <1>1, <1>2, <1>4, SameFilesDays DEF DayInv

LEMMA EnsureLatchesDay == IInv /\ LogInv /\ DayInv /\ EnsureLatches => DayInv'
<1> SUFFICES ASSUME IInv, LogInv, DayInv, EnsureLatches PROVE DayInv'
  OBVIOUS
<1>0. todo \in Seq(Tasks) /\ todo # <<>> /\ Head(todo).do = "ensure" /\ Head(todo).t \in Types
  BY HeadTask, Parts DEF OpOK, EnsureLatches, Deciding, Doing, Idle
<1>1. ~Formatting
  BY <1>0, NotWiping DEF LogInv
<1>2. nor' = nor /\ cache' = cache /\ files' = files /\ TaskDone
      /\ full' = [full EXCEPT ![Head(todo).t] = TRUE]
  BY DEF EnsureLatches, TaskDone, flashVars, EnsureType
<1>3. ASSUME NEW t, Head(todo) = Ensure(t) PROVE Ready(files', full', day', t)
  <2>1. Head(todo).t = t
    BY <1>3, TaskKinds
  <2>2. full'[t]
    BY <1>0, <1>2, <2>1, Parts DEF FlagsOK
  <2> QED BY <2>2 DEF Ready
<1>4. RowsSeenTo' /\ OldClosed'
  BY <1>0, <1>2, <1>3, TaskDoneRows DEF DayInv
<1> QED BY <1>1, <1>2, <1>4, SameFilesDays DEF DayInv

LEMMA EnsureBeginsDay == IInv /\ LogInv /\ DayInv /\ EnsureBegins => DayInv'
<1> SUFFICES ASSUME IInv, LogInv, DayInv, EnsureBegins PROVE DayInv'
  OBVIOUS
<1>0. todo \in Seq(Tasks) /\ todo # <<>> /\ Head(todo).do = "ensure"
  BY Parts DEF OpOK, EnsureBegins, Deciding, Doing, Idle
<1>1. ~Formatting
  BY <1>0, NotWiping DEF LogInv
<1>2. nor' = nor /\ cache' = cache /\ files' = files /\ todo' = todo
      /\ stage' = LET s == Slot(Head(todo).t)
                  IN IF s # 0 /\ files[s].active THEN "close" ELSE "header"
  BY DEF EnsureBegins, flashVars, ramVars, EnsureType
<1>3. OldClosed'
  BY <1>2, SlotIs DEF OldClosed
<1>4. RowsSeenTo'
  BY <1>0, <1>2, SameAgendaRows DEF DayInv
<1> QED BY <1>1, <1>2, <1>3, <1>4, SameFilesDays DEF DayInv

\* A write that is refused.
LEMMA RefusedDay ==
  ASSUME IInv, LogInv, DayInv, HasPending, Refused, stage \in {"decide", "daystart"},
         \/ Doing("row") /\ TaskDone
         \/ Head(todo).do = "ensure" /\ todo' = todo /\ stage' = "save"
  PROVE  DayInv'
<1>0. todo \in Seq(Tasks) /\ todo # <<>> /\ ~Formatting
  BY WriteBehindEdge
<1>2. nor' = nor /\ cache' = cache /\ files' = files
  BY DEF Refused, GuardRefuses, flashVars
<1>4. RowsSeenTo' /\ OldClosed'
  <2>1. CASE Doing("row") /\ TaskDone
    BY <1>0, <2>1, OtherTaskRows DEF DayInv, Doing
  <2>2. CASE Head(todo).do = "ensure" /\ todo' = todo /\ stage' = "save"
    BY <1>0, <2>2, SameAgendaRows DEF DayInv, OldClosed
  <2> QED BY <2>1, <2>2
<1> QED BY <1>0, <1>2, <1>4, SameFilesDays DEF DayInv

LEMMA RecordCalendarDayDay == IInv /\ LogInv /\ DayInv /\ RecordCalendarDay => DayInv'
<1> SUFFICES ASSUME IInv, LogInv, DayInv, RecordCalendarDay PROVE DayInv'
  OBVIOUS
<1>0. todo \in Seq(Tasks) /\ todo # <<>> /\ Head(todo).do = "ymd"
  BY Parts DEF OpOK, RecordCalendarDay, Doing, Idle
<1>1. ~Formatting
  BY <1>0, NotWiping DEF LogInv
<1>2. nor' = nor /\ cache' = cache /\ files' = files /\ TaskDone
  BY DEF RecordCalendarDay, flashVars
<1>4. RowsSeenTo' /\ OldClosed'
  BY <1>0, <1>2, OtherTaskRows DEF DayInv
<1> QED BY <1>1, <1>2, <1>4, SameFilesDays DEF DayInv

LEMMA NoFileDay ==
  IInv /\ LogInv /\ DayInv /\ Doing("row") /\ CallFails /\ UNCHANGED <<flashVars, envVars>> => DayInv'
<1> SUFFICES ASSUME IInv, LogInv, DayInv, Doing("row"), CallFails, UNCHANGED <<flashVars, envVars>>
             PROVE  DayInv'
  OBVIOUS
<1>0. todo \in Seq(Tasks) /\ todo # <<>> /\ Head(todo).do = "row"
  BY Parts DEF OpOK, Doing, Idle
<1>1. ~Formatting
  BY <1>0, NotWiping DEF LogInv
<1>2. nor' = nor /\ cache' = cache /\ files' = files /\ todo' = <<>> /\ stage' = "decide"
  BY DEF CallFails, flashVars
<1>4. RowsSeenTo' /\ OldClosed'
  BY <1>2, NoAgenda, NewAgendaRows
<1> QED BY <1>1, <1>2, <1>4, SameFilesDays DEF DayInv


\* The newest file of a type gets longer.
LEMMA OrderGrown ==
  ASSUME NEW fs \in Tables, NEW gs, Order(fs), NEW t, NEW s, s = SlotIn(fs, t), s # 0,
         DOMAIN gs = DOMAIN fs, \A i \in DOMAIN fs : Alike(gs[i], fs[i]),
         \A i \in DOMAIN fs : i # s => gs[i] = fs[i]
  PROVE  Order(gs)
<1> SUFFICES ASSUME NEW i \in DOMAIN fs, NEW j \in DOMAIN fs, i < j, gs[i].t = gs[j].t
             PROVE  ~gs[i].active /\ EndOf(gs[i]) <= gs[j].off + 1
  BY DEF Order
<1>1. fs[i].t = fs[j].t /\ gs[j].off = fs[j].off
  BY DEF Alike
<1>2. i # s
  <2>1. DOMAIN fs = 1..Len(fs) /\ Len(fs) \in Nat
    BY TableDomain
  <2>2. s \in NewestIn(fs, t) /\ fs[s].t = t
    BY SlotInIndex
  <2> QED BY <1>1, <2>1, <2>2 DEF NewestIn
<1> QED BY <1>1, <1>2 DEF Order

\* A write at the end of a file that is not a row.
LEMMA GrownDay ==
  ASSUME IInv, LogInv, DayInv, ~Formatting, NEW n \in Nat, NEW a \in BOOLEAN,
         Slot(Head(todo).t) # 0, files' = Grow(Slot(Head(todo).t), n, a),
         cache' = cache, NoNewRow(nor, nor')
  PROVE  /\ Ordered' /\ Sorted'
         /\ \A t : SlotIn(files', t) = SlotIn(files, t)
<1> DEFINE h == Head(todo).t
           s == Slot(h)
<1>1. s \in DOMAIN files /\ files \in Tables /\ cache \in Tables /\ s = SlotIn(files, h)
  BY SlotIs, SlotIndex, InsideTables DEF Inside
<1>2. /\ DOMAIN files' = DOMAIN files /\ files' \in Tables
      /\ \A i \in DOMAIN files : i # s => files'[i] = files[i]
      /\ \A i \in DOMAIN files : Alike(files'[i], files[i])
      /\ \A t : SlotIn(files', t) = SlotIn(files, t)
  BY <1>1, GrowEffect
<1> HIDE DEF s, h
<1>3. Order(files') /\ Order(cache')
  <2>1. Order(files) /\ Order(cache) /\ s # 0
    BY DEF DayInv, Ordered, s, h
  <2> QED BY <1>1, <1>2, <2>1, OrderGrown
<1>4. ASSUME Len(cache) < MaxFiles PROVE Dated(files', nor') /\ Dated(cache', nor')
  <2>1. Dated(files, nor) /\ Dated(cache, nor)
    BY <1>4 DEF DayInv, Sorted
  <2>2. Dated(files, nor') /\ Dated(cache, nor')
    BY <1>1, <2>1, DatedStays
  <2>3. \A i \in DOMAIN files : Alike(files[i], files'[i])
    BY <1>2 DEF Alike
  <2> QED BY <1>2, <2>2, <2>3, OwnsAlike
<1> QED BY <1>2, <1>3, <1>4 DEF Ordered, Sorted

LEMMA CloseOldDay == IInv /\ LogInv /\ DayInv /\ CloseOld => DayInv'
<1> SUFFICES ASSUME IInv, LogInv, DayInv, CloseOld PROVE DayInv'
  OBVIOUS
<1> DEFINE h == Head(todo).t
           c == Pending.cells
           at == Pending.at
<1>0. /\ HasPending /\ stage = "close" /\ todo # <<>> /\ ~Formatting /\ h \in Types /\ Allowed
      /\ files' = Grow(Slot(h), 1, FALSE) /\ stage' = "header"
      /\ cache' = cache /\ todo' = todo
  BY CloseAllowed
<1>1. todo \in Seq(Tasks) /\ Head(todo).do = "ensure" /\ Slot(h) # 0
  BY <1>0, Parts DEF OpOK, Committed, Doing
<1>2. h \in Types /\ at \in Nat /\ Len(c) \in Nat /\ Wrote(nor, nor', h, at, c)
  BY <1>0, WriteBehindEdge, AllowedWrote, PendingType
<1>3. \A i \in 1..Len(c) : c[i].k # "row"
  BY <1>0, <1>1, PendingCells DEF Doing
<1> HIDE DEF h, c, at
<1>4. ASSUME NEW t \in Types, NEW i \in 0..(Size[t] - 1)
      PROVE  nor'[t][i] = nor[t][i] \/ nor'[t][i].k # "row"
  <2> DEFINE Came == \E j \in 1..Len(c) : t = h /\ i = at + j - 1 /\ nor'[t][i] = c[j]
  <2>1. nor'[t][i] = nor[t][i] \/ nor'[t][i].k = "smear" \/ Came
    <3>1. h \in Types /\ at \in Nat /\ Len(c) \in Nat /\ Wrote(nor, nor', h, at, c)
      BY <1>2
    <3> QED BY <3>1, CellFrom
  <2>2. Came => nor'[t][i].k # "row"
    BY <1>3
  <2> HIDE DEF Came
  <2> QED BY <2>1, <2>2
<1>5. Ordered' /\ Sorted' /\ \A t : SlotIn(files', t) = SlotIn(files, t)
  <2>1. NoNewRow(nor, nor') /\ 1 \in Nat /\ FALSE \in BOOLEAN
    BY <1>4 DEF NoNewRow
  <2> QED BY <1>0, <1>1, <2>1, GrownDay DEF h
<1>6. OldClosed'
  <2>1. files \in Tables /\ Slot(h) \in DOMAIN files /\ Slot(h) = SlotIn(files, h)
    BY <1>1, SlotIs, SlotIndex, InsideTables DEF Inside
  <2>2. ~files'[Slot(h)].active
    BY <1>0, <2>1 DEF Grow, Resized
  <2> QED BY <1>0, <1>5, <2>1, <2>2 DEF OldClosed, h
<1>7. RowsSeenTo'
  BY <1>0, <1>1, SameAgendaRows DEF DayInv, h
<1> QED BY <1>5, <1>6, <1>7 DEF DayInv

LEMMA WriteHeaderDay == IInv /\ LogInv /\ DayInv /\ WriteHeader => DayInv'
<1> SUFFICES ASSUME IInv, LogInv, DayInv, WriteHeader PROVE DayInv'
  OBVIOUS
<1> DEFINE h == Head(todo).t
           n == Len(files)
<1>0. /\ HasPending /\ stage = "header" /\ todo # <<>> /\ ~Formatting /\ h \in Types
      /\ Edge(nor, h) \in {off, off + 1} /\ off \in Nat /\ Size[h] \in Nat
      /\ cache' = cache /\ todo' = todo /\ stage' \in {"daystart", "save"}
  BY HeaderAllowed
<1>1. /\ files' \in Tables /\ n \in Nat /\ DOMAIN files = 1..n /\ DOMAIN files' = 1..(n + 1)
      /\ \A i \in 1..n : files'[i] = files[i]
      /\ files'[n + 1].t = h /\ files'[n + 1].off = off
  BY EntryAdded
<1>2. /\ \A i \in off..(Size[h] - 1) : nor'[h][i].k # "row"
      /\ NoNewRow(nor, nor')
  BY HeaderInFlash DEF NoNewRow
<1>3. files \in Tables /\ cache \in Tables /\ todo \in Seq(Tasks) /\ Head(todo).do = "ensure"
  BY <1>0, InsideTables, Parts DEF Inside, OpOK, Committed, Doing
<1>4. ASSUME Len(cache) < MaxFiles PROVE Dated(files', nor') /\ Dated(cache', nor')
  <2>1. Dated(files, nor) /\ Dated(cache, nor)
    BY <1>0, <1>4 DEF DayInv, Sorted
  <2>2. Dated(files, nor') /\ Dated(cache, nor')
    BY <1>2, <1>3, <2>1, DatedStays
  <2> HIDE DEF h, n
  <2>3. Dated(files', nor')
    BY <1>0, <1>1, <1>2, <2>2, DatedAppended
  <2> QED BY <1>0, <2>2, <2>3
<1>5. \A i \in 1..n : files[i].t = h => ~files[i].active /\ EndOf(files[i]) <= off + 1
  <2> SUFFICES ASSUME NEW i \in 1..n, files[i].t = h
               PROVE  ~files[i].active /\ EndOf(files[i]) <= off + 1
    OBVIOUS
  <2>0. files[i] \in Entry
    BY <1>1, <1>3, TableDomain
  <2>1. EndOf(files[i]) <= off + 1
    <3>1. EndOf(files[i]) <= Edge(nor, h)
      BY <1>0, <1>1 DEF LogInv, Behind, Within
    <3>2. EndOf(files[i]) \in Nat
      BY <2>0 DEF Entry, EndOf
    <3> QED BY <1>0, <3>1, <3>2
  <2>2. ~files[i].active
    <3>1. CASE i \in NewestIn(files, h)
      <4>1. SlotIn(files, h) = i /\ i # 0
        BY <1>1, <3>1, SlotInUnique
      <4> QED BY <1>0, <4>1 DEF DayInv, OldClosed
    <3>2. CASE i \notin NewestIn(files, h)
      <4>1. PICK j \in DOMAIN files : j > i /\ files[j].t = h
        BY <1>1, <3>2 DEF NewestIn
      <4>2. Order(files) /\ i \in DOMAIN files
        BY <1>0, <1>1 DEF DayInv, Ordered
      <4>3. i < j
        BY <1>1, <4>1
      <4> QED BY <4>1, <4>2, <4>3 DEF Order
    <3> QED BY <3>1, <3>2
  <2> QED BY <2>1, <2>2
<1>6. Order(files') /\ Order(cache')
  <2>1. Order(files) /\ Order(cache)
    BY <1>0 DEF DayInv, Ordered
  <2> HIDE DEF h, n
  <2>2. ASSUME NEW i \in 1..(n + 1), NEW j \in 1..(n + 1), i < j, files'[i].t = files'[j].t
        PROVE  ~files'[i].active /\ EndOf(files'[i]) <= files'[j].off + 1
    <3>1. i \in 1..n /\ files'[i] = files[i]
      BY <1>1, <2>2
    <3>2. CASE j = n + 1
      BY <1>1, <1>5, <2>2, <3>1, <3>2
    <3>3. CASE j # n + 1
      <4>1. j \in 1..n /\ files'[j] = files[j]
        BY <1>1, <3>3
      <4> QED BY <1>1, <2>1, <2>2, <3>1, <4>1 DEF Order
    <3> QED BY <3>2, <3>3
  <2> QED BY <1>0, <1>1, <2>1, <2>2 DEF Order
<1>7. RowsSeenTo'
  BY <1>0, <1>3, SameAgendaRows DEF DayInv
<1>8. OldClosed'
  BY <1>0 DEF OldClosed
<1> QED BY <1>0, <1>4, <1>6, <1>7, <1>8 DEF DayInv, Ordered, Sorted

LEMMA DayStartDay ==
  ASSUME IInv, LogInv, DayInv, Writing("daystart"), stage' = "save", Allowed,
         files' = Grow(Slot(Head(todo).t), DayStartLen, TRUE),
         UNCHANGED <<cached, cache, mode, full, ymd, envVars, todo, off, day>>
  PROVE  DayInv'
<1>0. HasPending /\ todo \in Seq(Tasks) /\ todo # <<>> /\ ~Formatting /\ Head(todo).do = "ensure"
  BY WriteBehindEdge DEF HasPending, Writing, Doing
<1>1. NoNewRow(nor, nor')
  BY <1>0, RowsInFlash DEF NoNewRow, Writing, Doing
<1>2. Slot(Head(todo).t) # 0 /\ DayStartLen \in Nat /\ TRUE \in BOOLEAN
  BY RowAssumption DEF IInv, Committed, Writing
<1>3. Ordered' /\ Sorted'
  BY <1>0, <1>1, <1>2, GrownDay
<1>4. RowsSeenTo' /\ OldClosed'
  BY <1>0, SameAgendaRows DEF DayInv, OldClosed
<1> QED BY <1>3, <1>4 DEF DayInv

LEMMA WriteDayStartDay == IInv /\ LogInv /\ DayInv /\ WriteDayStart => DayInv'
<1> SUFFICES ASSUME IInv, LogInv, DayInv, WriteDayStart PROVE DayInv'
  OBVIOUS
<1>1. CASE Refused
  <2>1. HasPending /\ stage = "daystart" /\ Head(todo).do = "ensure"
        /\ todo' = todo /\ stage' = "save"
    BY DEF WriteDayStart, HasPending, Writing, Doing
  <2> QED BY <1>1, <2>1, RefusedDay
<1>2. CASE /\ Allowed
           /\ files' = Grow(Slot(EnsureType), DayStartLen, TRUE)
           /\ UNCHANGED <<cached, cache, mode, full, ymd, envVars>>
  BY <1>2, DayStartDay DEF WriteDayStart, EnsureType
<1> QED BY <1>1, <1>2 DEF WriteDayStart

LEMMA SaveCacheDay == IInv /\ LogInv /\ DayInv /\ SaveCache => DayInv'
<1> SUFFICES ASSUME IInv, LogInv, DayInv, SaveCache PROVE DayInv'
  OBVIOUS
<1>0. todo \in Seq(Tasks) /\ todo # <<>> /\ Head(todo).do = "ensure" /\ stage = "save" /\ mode # "off"
  BY Parts DEF OpOK, SaveCache, Writing, Doing, Idle, Committed
<1>1. ~Formatting
  BY <1>0, NotWiping DEF LogInv
<1>2. nor' = nor /\ files' = files /\ cache' = files /\ day' = day /\ full' = full /\ TaskDone
  BY DEF SaveCache, TaskDone, ramVars
<1>3. Len(files) < MaxFiles => Len(cache) < MaxFiles
  <2>1. Len(files) = Len(cache) + 1
    BY <1>0, <1>1 DEF LogInv, Saved, Opened
  <2> QED BY <2>1, SizeAssumption, InsideTables, TableDomain DEF Inside
<1>4. Ordered' /\ Sorted'
  BY <1>1, <1>2, <1>3 DEF DayInv, Ordered, Sorted
<1>5. ASSUME NEW t, Head(todo) = Ensure(t) PROVE Ready(files', full', day', t)
  <2>1. Head(todo).t = t
    BY <1>5, TaskKinds
  <2> QED BY <1>0, <1>2, <2>1, OpenedIsNewest DEF Ready
<1>6. RowsSeenTo' /\ OldClosed'
  BY <1>0, <1>2, <1>5, TaskDoneRows DEF DayInv
<1> QED BY <1>4, <1>6 DEF DayInv


\* A row goes behind the end of the newest file of its type, with the day of the call.
LEMMA RowCell ==
  ASSUME IInv, LogInv, Doing("row"), Slot(Head(todo).t) # 0, Allowed,
         NEW t \in Types, NEW i \in 0..(Size[t] - 1), nor'[t][i].k = "row"
  PROVE  \/ nor'[t][i] = nor[t][i]
         \/ /\ t = Head(todo).t /\ nor'[t][i].d = day
            /\ i >= EndOf(files[SlotIn(files, t)])
            /\ i < EndOf(files[SlotIn(files, t)]) + Head(todo).n
<1> DEFINE h == Head(todo).t
           c == Pending.cells
           at == Pending.at
<1>0. HasPending
  BY DEF HasPending
<1>1. h \in Types /\ at \in Nat /\ Len(c) \in Nat /\ Wrote(nor, nor', h, at, c)
  BY <1>0, WriteBehindEdge, AllowedWrote, PendingType
<1>2. \A j \in 1..Len(c) : c[j].k = "row" => c[j].d = day
  BY <1>0, PendingCells
<1>3. at = EndOf(files[SlotIn(files, h)]) /\ Len(c) = Head(todo).n
  BY <1>0, PendingType, SlotIs
<1> HIDE DEF h, c, at
<1> DEFINE Came == \E j \in 1..Len(c) : t = h /\ i = at + j - 1 /\ nor'[t][i] = c[j]
<1>4. nor'[t][i] = nor[t][i] \/ nor'[t][i].k = "smear" \/ Came
  <2>1. h \in Types /\ at \in Nat /\ Len(c) \in Nat /\ Wrote(nor, nor', h, at, c)
    BY <1>1
  <2> QED BY <2>1, CellFrom
<1>5. Came => t = h /\ nor'[t][i].d = day /\ i >= at /\ i < at + Len(c)
  BY <1>1, <1>2
<1> HIDE DEF Came
<1> QED BY <1>3, <1>4, <1>5 DEF h

LEMMA RowWrittenDay ==
  ASSUME IInv, LogInv, DayInv, Doing("row"), Slot(Head(todo).t) # 0, Allowed, TaskDone,
         files' = Grow(Slot(Head(todo).t), Head(todo).n, files[Slot(Head(todo).t)].active),
         UNCHANGED <<cached, cache, mode, full, ymd, envVars>>
  PROVE  DayInv'
<1> DEFINE h == Head(todo).t
           s == Slot(h)
           a == files[s].active
           n == Head(todo).n
<1>0. /\ HasPending /\ stage = "decide" /\ todo \in Seq(Tasks) /\ todo # <<>> /\ ~Formatting
      /\ mode # "off" /\ h \in Types /\ s = SlotIn(files, h) /\ cache' = cache
  BY WriteBehindEdge, SlotIs DEF HasPending, IInv, Committed, Doing
<1>1. /\ s \in DOMAIN files /\ files \in Tables /\ cache \in Tables /\ s # 0
      /\ files[s] \in Entry /\ files[s].t = h
  BY SlotIndex, InsideTables, TableDomain DEF Inside
<1>2. a \in BOOLEAN /\ n \in Nat /\ files[s].off \in Nat /\ files[s].len \in Nat
  BY <1>0, <1>1, HeadTask DEF Entry
<1>3. /\ DOMAIN files' = DOMAIN files /\ files' \in Tables
      /\ \A i \in DOMAIN files : i # s => files'[i] = files[i]
      /\ \A i \in DOMAIN files : Alike(files'[i], files[i])
  <2>1. files' = Grow(s, n, a)
    OBVIOUS
  <2> HIDE DEF s, n, a
  <2> QED BY <1>1, <1>2, <2>1, GrowEffect
<1>4. /\ DOMAIN cache = DOMAIN files /\ Len(cache) = Len(files)
      /\ \A i \in DOMAIN cache : Alike(cache[i], files[i])
  BY <1>0, SavedSlot
<1>5. Ready(files, full, day, h)
  <2>1. 1 \in DOMAIN todo /\ Head(todo) = todo[1] /\ Head(todo).do = "row"
    BY <1>0, TailTasks DEF Doing
  <2> QED BY <2>1 DEF DayInv, RowsSeenTo
<1>6. ~full[h]
  BY <1>0, PendingType DEF Allowed, GuardAllows
<1>7. ASSUME NEW t \in Types, NEW i \in 0..(Size[t] - 1), nor'[t][i].k = "row"
      PROVE  \/ nor'[t][i] = nor[t][i]
             \/ t = h /\ nor'[t][i].d = day /\ i >= EndOf(files[SlotIn(files, t)])
  BY <1>7, RowCell
<1>8. s \in NewestIn(files, h)
  BY <1>0, <1>1, SlotInIndex
<1> HIDE DEF s, n, a, h
<1>9. ASSUME Len(cache) < MaxFiles PROVE Dated(files, nor')
  <2> SUFFICES ASSUME NEW i \in DOMAIN files, NEW c \in 0..(Size[files[i].t] - 1),
                      Owns(files, i, c), nor'[files[i].t][c].k = "row"
               PROVE  nor'[files[i].t][c].d \in {0, files[i].day}
    BY DEF Dated
  <2>0. files[i].t \in Types /\ DOMAIN files = 1..Len(files) /\ Len(files) \in Nat
    BY <1>1, TableDomain DEF Entry
  <2>1. CASE nor'[files[i].t][c] = nor[files[i].t][c]
    <3>1. Dated(files, nor)
      BY <1>0, <1>9 DEF DayInv, Sorted
    <3> QED BY <2>1, <3>1 DEF Dated
  <2>2. CASE /\ files[i].t = h /\ nor'[files[i].t][c].d = day
             /\ c >= EndOf(files[SlotIn(files, files[i].t)])
    <3>1. c >= files[s].off
      BY <1>0, <1>2, <2>2 DEF EndOf
    <3>2. i = s
      <4>1. ~(i < s)
        <5> SUFFICES ASSUME i < s PROVE FALSE
          OBVIOUS
        <5>1. c < files[s].off
          BY <1>1, <2>2 DEF Owns
        <5> QED BY <1>2, <3>1, <5>1
      <4>2. ~(i > s)
        BY <1>8, <2>2 DEF NewestIn
      <4> QED BY <1>1, <2>0, <4>1, <4>2
    <3>3. day = 0 \/ files[s].day = day
      BY <1>0, <1>1, <1>4, <1>5, <1>6, <1>9, SizeAssumption, TableDomain DEF Ready
    <3> QED BY <2>2, <3>2, <3>3
  <2> QED BY <1>7, <2>0, <2>1, <2>2
<1>10. Sorted'
  <2> SUFFICES ASSUME Len(cache) < MaxFiles PROVE Dated(files', nor') /\ Dated(cache, nor')
    BY <1>0 DEF Sorted
  <2>1. Dated(files, nor')
    BY <1>9
  <2>2. \A i \in DOMAIN files : Alike(files[i], files'[i]) /\ Alike(files[i], cache[i])
    BY <1>3, <1>4 DEF Alike
  <2> QED BY <1>3, <1>4, <2>1, <2>2, OwnsAlike
<1>11. Ordered'
  <2>1. Order(files) /\ Order(cache)
    BY <1>0 DEF DayInv, Ordered
  <2>2. Order(files')
    BY <1>0, <1>1, <1>3, <2>1, OrderGrown
  <2> QED BY <1>0, <2>1, <2>2 DEF Ordered
<1>12. RowsSeenTo' /\ OldClosed'
  <2>1. Head(todo).do # "ensure"
    BY DEF Doing
  <2> QED BY <1>0, <2>1, OtherTaskRows DEF DayInv
<1> QED BY <1>10, <1>11, <1>12 DEF DayInv

LEMMA AppendRowDay == IInv /\ LogInv /\ DayInv /\ AppendRow => DayInv'
<1> SUFFICES ASSUME IInv, LogInv, DayInv, AppendRow PROVE DayInv'
  OBVIOUS
<1> DEFINE s == Slot(Head(todo).t)
<1>0. Doing("row") /\ stage = "decide"
  BY DEF AppendRow, IInv, Committed, Doing
<1>1. CASE s = 0 /\ CallFails /\ UNCHANGED <<flashVars, envVars>>
  BY <1>0, <1>1, NoFileDay
<1>2. CASE s # 0 /\ Refused /\ TaskDone
  <2>1. HasPending
    BY <1>0, <1>2 DEF HasPending
  <2> QED BY <1>0, <1>2, <2>1, RefusedDay
<1>3. CASE /\ s # 0
           /\ Allowed
           /\ files' = Grow(s, Head(todo).n, files[s].active)
           /\ TaskDone
           /\ UNCHANGED <<cached, cache, mode, full, ymd, envVars>>
  BY <1>0, <1>3, RowWrittenDay
<1> QED BY <1>1, <1>2, <1>3 DEF AppendRow

LEMMA ErasingDay == IInv /\ LogInv /\ DayInv /\ (EraseRegion \/ ClearTables) => DayInv'
<1> SUFFICES ASSUME IInv, LogInv, DayInv, EraseRegion \/ ClearTables PROVE DayInv'
  OBVIOUS
<1>0. /\ todo \in Seq(Tasks) /\ todo # <<>> /\ TaskDone /\ Head(todo).do \in {"erase", "clear"}
  BY Parts DEF OpOK, EraseRegion, ClearTables, Doing, Idle
<1>1. RowsSeenTo' /\ OldClosed'
  BY <1>0, OtherTaskRows DEF DayInv
<1>2. CASE EraseRegion
  <2>1. Head(todo).do = "erase"
    BY <1>2 DEF EraseRegion, Doing
  <2>2. Formatting'
    BY <1>0, <2>1, ErasingGoesOn
  <2> QED BY <1>1, <2>2 DEF DayInv, Ordered, Sorted
<1>3. CASE ClearTables
  <2>1. files' = <<>> /\ cache' = <<>>
    BY <1>3 DEF ClearTables
  <2>2. Order(files') /\ Order(cache') /\ Dated(files', nor') /\ Dated(cache', nor')
    BY <2>1, NoTable
  <2> QED BY <1>1, <2>2 DEF DayInv, Ordered, Sorted
<1> QED BY <1>2, <1>3


\* An agenda of erasing has no row to add.
LEMMA FormatAgendaRows ==
  ASSUME todo' = FormatAll, stage' = "decide"
  PROVE  RowsSeenTo' /\ OldClosed' /\ Formatting'
<1>1. \E i \in DOMAIN FormatAll : FormatAll[i] = Erase(Provenance)
  BY FormatAgenda, OrderAssumption
<1>2. Formatting'
  BY <1>1, TaskKinds, WipesIs DEF Wipes
<1>3. ASSUME NEW i \in DOMAIN FormatAll PROVE FormatAll[i].do # "row"
  BY FormatAgenda, TaskKinds
<1>4. RowAfterEnsure(todo')
  BY <1>3 DEF RowAfterEnsure
<1> QED BY <1>2, <1>4, NewAgendaRows

LEMMA StartFormatDay == IInv /\ LogInv /\ DayInv /\ StartFormat => DayInv'
<1> SUFFICES ASSUME IInv, LogInv, DayInv, StartFormat PROVE DayInv'
  OBVIOUS
<1>1. todo' = FormatAll /\ stage' = "decide"
  BY DEF StartFormat, Calls, Call, Idle, IInv, Committed, Doing
<1> QED BY <1>1, FormatAgendaRows DEF DayInv, Ordered, Sorted

LEMMA StartAppendDay ==
  ASSUME IInv, LogInv, DayInv, NEW t \in Types, NEW n \in RowSizes, StartAppend(t, n)
  PROVE  DayInv'
<1> DEFINE ag == AppendAgenda(t, n, clock, ymd)
<1>0. todo = <<>> /\ stage = "decide"
  BY DEF StartAppend, Calls, Idle, IInv, Committed, Doing
<1>1. ~Formatting
  BY <1>0, NoAgenda, WipesIs
<1>2. RowAfterEnsure(ag)
  <2>1. n \in Nat
    BY RowAssumption
  <2> QED BY <2>1, AppendAgendaShape
<1> HIDE DEF ag
<1>3. nor' = nor /\ cache' = cache /\ files' = files /\ todo' = ag /\ stage' = "decide"
  BY <1>0 DEF StartAppend, Calls, Call, flashVars, ag
<1>4. RowsSeenTo' /\ OldClosed'
  BY <1>2, <1>3, NewAgendaRows
<1> QED BY <1>1, <1>3, <1>4, SameFilesDays DEF DayInv

LEMMA SetClockDay ==
  ASSUME IInv, LogInv, DayInv, NEW d \in Days, SetClock(d)
  PROVE  DayInv'
<1>1. todo = <<>> /\ todo' = todo /\ stage' = stage /\ stage = "decide"
      /\ nor' = nor /\ files' = files /\ cache' = cache
  BY DEF SetClock, Idle, flashVars, ramVars, opVars, IInv, Committed, Doing
<1>2. ~Formatting
  BY <1>1, NoAgenda, WipesIs
<1>3. RowsSeenTo' /\ OldClosed'
  BY <1>1, NoAgenda, NewAgendaRows
<1> QED BY <1>1, <1>2, <1>3, SameFilesDays DEF DayInv

\* A boot starts with an agenda that ensures before it adds.
LEMMA BootedRows ==
  ASSUME Calm, IInv, LogInv, NEW d \in 0..MaxDay, Booting(d), Call(InitAgenda(d), d)
  PROVE  RowsSeenTo' /\ OldClosed'
<1>1. RowAfterEnsure(InitAgenda(d))
  BY InitAgendaShape
<1>2. todo' = InitAgenda(d) /\ stage' = "decide"
  BY BootDay DEF Call
<1> QED BY <1>1, <1>2, NewAgendaRows

LEMMA BootFromCacheDay ==
  ASSUME Calm, IInv, LogInv, DayInv, NEW d \in 0..MaxDay, BootFromCache(d)
  PROVE  DayInv'
<1>1. /\ Booting(d) /\ files' = Reconcile(cache) /\ Call(InitAgenda(d), d)
      /\ cache' = cache /\ nor' = nor /\ ~Formatting
  BY BootDay DEF BootFromCache
<1>2. cache \in Tables
  BY InsideTables DEF Inside
<1>3. DOMAIN files' = DOMAIN cache
  BY <1>1 DEF Reconcile
<1>4. ASSUME NEW i \in DOMAIN cache
      PROVE  Alike(cache[i], files'[i]) /\ (~cache[i].active => files'[i] = cache[i])
  BY <1>1 DEF Reconcile, Resized, Alike
<1>5. Order(cache) /\ Order(files')
  <2>1. Order(cache)
    BY <1>1 DEF DayInv, Ordered
  <2>2. ASSUME NEW i \in DOMAIN cache, NEW j \in DOMAIN cache, i < j, files'[i].t = files'[j].t
        PROVE  ~files'[i].active /\ EndOf(files'[i]) <= files'[j].off + 1
    <3>1. cache[i].t = cache[j].t /\ files'[j].off = cache[j].off
      BY <1>4, <2>2 DEF Alike
    <3> QED BY <1>4, <2>1, <2>2, <3>1 DEF Order
  <2> QED BY <1>3, <2>1, <2>2 DEF Order
<1>6. Len(cache) < MaxFiles => Dated(cache, nor) /\ Dated(files', nor)
  <2>1. Len(cache) < MaxFiles => Dated(cache, nor)
    BY <1>1 DEF DayInv, Sorted
  <2> QED BY <1>3, <1>4, <2>1, OwnsAlike
<1>7. Ordered' /\ Sorted'
  BY <1>1, <1>5, <1>6 DEF Ordered, Sorted
<1> QED BY <1>1, <1>7, BootedRows DEF DayInv

LEMMA RankNat == \A t \in Types : Rank(t) \in Nat
<1> SUFFICES ASSUME NEW t \in Types PROVE Rank(t) \in Nat
  OBVIOUS
<1>1. \E i \in DOMAIN TypeOrder : TypeOrder[i] = t
  BY DEF Types
<1>2. Rank(t) \in DOMAIN TypeOrder
  BY <1>1 DEF Rank
<1>3. DOMAIN TypeOrder = 1..Len(TypeOrder) /\ Len(TypeOrder) \in Nat
  BY OrderAssumption, LenProperties
<1> QED BY <1>2, <1>3

LEMMA BootByScanDay ==
  ASSUME Calm, IInv, LogInv, DayInv, NEW d \in 0..MaxDay, BootByScan(d)
  PROVE  DayInv'
<1>1. Booting(d) /\ ~cached /\ Call(InitAgenda(d), d) /\ Recoverable /\ ~Formatting
      /\ cache' = files' /\ nor' = nor
  BY BootDay DEF BootByScan, SaveGoesWrong, Calm
<1>2. PICK s \in [1..Cardinality(Starts) -> Starts] :
        Scanned(s) /\ files' = [i \in DOMAIN s |-> RecoveredEntry(s[i])]
  BY DEF BootByScan
<1>3. ASSUME NEW i \in DOMAIN files'
      PROVE  /\ s[i] \in Starts /\ files'[i].t = s[i][1] /\ files'[i].t \in Types
             /\ s[i][2] = 0
  <2>1. s[i] \in Starts /\ files'[i] = RecoveredEntry(s[i])
    BY <1>2
  <2>2. files'[i].t \in Types /\ files'[i].off = 0
    BY <1>1, <2>1, ScanFindsWhole
  <2> QED BY <2>1, <2>2 DEF RecoveredEntry
<1>4. Order(files')
  <2> SUFFICES ASSUME NEW i \in DOMAIN files', NEW j \in DOMAIN files', i < j,
                      files'[i].t = files'[j].t
               PROVE  FALSE
    BY DEF Order
  <2>1. Before(s[i], s[j])
    BY <1>2 DEF Scanned
  <2>2. Rank(s[i][1]) \in Nat /\ s[i][1] = s[j][1] /\ s[i][2] = 0 /\ s[j][2] = 0
    BY <1>3, RankNat
  <2> QED BY <2>1, <2>2 DEF Before
<1>5. Dated(files', nor)
  <2> SUFFICES ASSUME NEW i \in DOMAIN files', NEW c \in 0..(Size[files'[i].t] - 1),
                      nor[files'[i].t][c].k = "row"
               PROVE  FALSE
    BY DEF Dated
  <2>1. files'[i].t \in Types
    BY <1>3
  <2> QED BY <1>1, <2>1 DEF LogInv, Untouched
<1>6. Ordered' /\ Sorted'
  BY <1>1, <1>4, <1>5 DEF Ordered, Sorted
<1> QED BY <1>1, <1>6, BootedRows DEF DayInv

LEMMA BootFormatsDay ==
  ASSUME Calm, IInv, LogInv, DayInv, NEW d \in 0..MaxDay, BootFormats(d)
  PROVE  DayInv'
<1>1. todo' = FormatAll /\ stage' = "decide"
  BY BootDay DEF BootFormats, Call
<1> QED BY <1>1, FormatAgendaRows DEF DayInv, Ordered, Sorted

LEMMA PowerCutDay ==
  ASSUME Calm, IInv, LogInv, DayInv, PowerCut
  PROVE  DayInv'
<1>1. ~Formatting /\ NoNewRow(nor, nor')
  BY CutWrites DEF NoNewRow
<1>2. files' = <<>> /\ cache' = cache /\ todo' = <<>> /\ stage' = "decide"
  BY DEF PowerCut
<1>3. RowsSeenTo' /\ OldClosed'
  BY <1>2, NoAgenda, NewAgendaRows
<1>4. cache \in Tables
  BY InsideTables DEF Inside
<1>5. Len(cache) < MaxFiles => Dated(cache, nor')
  BY <1>1, <1>4, DatedStays DEF DayInv, Sorted
<1>6. Order(cache)
  BY <1>1 DEF DayInv, Ordered
<1>7. Order(files') /\ Dated(files', nor')
  BY <1>2, NoTable
<1>8. Ordered' /\ Sorted'
  BY <1>2, <1>5, <1>6, <1>7 DEF Ordered, Sorted
<1> QED BY <1>3, <1>8 DEF DayInv

LEMMA StutterDay == DayInv /\ UNCHANGED vars => DayInv'
<1> SUFFICES ASSUME DayInv, UNCHANGED vars PROVE DayInv'
  OBVIOUS
<1>1. /\ nor' = nor /\ cache' = cache /\ files' = files /\ full' = full
      /\ todo' = todo /\ stage' = stage /\ day' = day
  BY DEF vars, flashVars, ramVars, opVars
<1> QED BY <1>1 DEF DayInv, Ordered, Sorted, OldClosed, RowsSeenTo, Formatting

LEMMA InitDay == Init => DayInv
<1> SUFFICES ASSUME Init PROVE DayInv
  OBVIOUS
<1>1. cache = <<>> /\ files = <<>> /\ todo = <<>> /\ stage = "decide"
  BY DEF Init
<1>2. Ordered /\ Sorted
  BY <1>1, NoTable DEF Ordered, Sorted
<1> QED BY <1>1, <1>2, EmptySeq DEF DayInv, OldClosed, RowsSeenTo

LEMMA NextDay == Calm /\ IInv /\ LogInv /\ DayInv /\ [Next]_vars => DayInv'
<1> SUFFICES ASSUME Calm, IInv, LogInv, DayInv, [Next]_vars PROVE DayInv'
  OBVIOUS
<1>1. CASE EnsureStep
  BY <1>1, EnsureReturnsDay, EnsureLatchesDay, EnsureBeginsDay, CloseOldDay,
     WriteHeaderDay, WriteDayStartDay, SaveCacheDay DEF EnsureStep
<1>2. CASE AppendRow \/ RecordCalendarDay \/ EraseRegion \/ ClearTables
  BY <1>2, AppendRowDay, RecordCalendarDayDay, ErasingDay
<1>3. CASE Boot
  BY <1>3, BootFromCacheDay, BootByScanDay, BootFormatsDay DEF Boot
<1>4. CASE \E t \in Types, n \in RowSizes : StartAppend(t, n)
  BY <1>4, StartAppendDay
<1>5. CASE StartFormat
  BY <1>5, StartFormatDay
<1>6. CASE \E d \in Days : SetClock(d)
  BY <1>6, SetClockDay
<1>7. CASE PowerCut
  BY <1>7, PowerCutDay
<1>8. CASE FaultIndication \/ UNCHANGED vars
  BY <1>8, StutterDay DEF FaultIndication
<1>9. ~WriteFails /\ ~SaveFails /\ ~LoseCache /\ ~(\E t \in Types, d \in Days : FlushDraft(t, d))
  BY DEF Calm, WriteFails, SaveFails, SaveGoesWrong, LoseCache, FlushDraft
<1> QED BY <1>1, <1>2, <1>3, <1>4, <1>5, <1>6, <1>7, <1>8, <1>9 DEF Next, Step

THEOREM DayInvariant == ASSUME Calm PROVE Spec => []DayInv
<1>1. Init => DayInv
  BY InitDay
<1>2. IInv /\ LogInv /\ DayInv /\ [Next]_vars => DayInv'
  BY NextDay
<1> QED BY <1>1, <1>2, Inductive, LogInvariant, PTL DEF Spec

\* A dated row is sent in the file of its day, while the table of files has room
\* for the day's file: ensure_file runs before every append_row (juxta_log.c), and
\* no power cut in the middle of a rotation lets a row of the new day into the
\* cells that the old file claims.
THEOREM RowsKeepTheirDay == ASSUME Calm PROVE Spec => []RowsInFileOfTheirDay
<1>1. IInv /\ LogInv /\ DayInv => RowsInFileOfTheirDay
  <2> SUFFICES ASSUME IInv, LogInv, DayInv, Up, ~Formatting, Len(files) < MaxFiles,
                      NEW p \in Rows, NEW f \in Covering(p[1], p[2])
               PROVE  nor[p[1]][p[2]].d \in {0, files[f].day}
    BY DEF RowsInFileOfTheirDay
  <2> DEFINE t == p[1]
             c == p[2]
             e == files[f]
  <2>1. /\ t \in Types /\ c \in 0..(Size[t] - 1) /\ nor[t][c].k = "row"
        /\ f \in DOMAIN files /\ e.t = t /\ c \in Payload(e) /\ Size[t] \in Nat
    BY SizeAssumption DEF Rows, IsRow, Covering
  <2>2. files \in Tables /\ cache \in Tables
    BY InsideTables DEF Inside
  <2>3. /\ e \in Entry /\ e.off \in Nat /\ EndOf(e) \in Nat /\ e.active \in BOOLEAN
        /\ DOMAIN files = 1..Len(files) /\ Len(files) \in Nat /\ Len(cache) \in Nat
    BY <2>1, <2>2, TableDomain DEF Entry, EndOf
  <2>4. Len(cache) < MaxFiles
    <3>1. Len(files) = Len(cache) + Opened /\ Opened \in {0, 1}
      BY DEF LogInv, Saved, Up, Opened
    <3> QED BY <2>3, <3>1, SizeAssumption
  <2>5. Dated(files, nor) /\ Order(files)
    BY <2>4 DEF DayInv, Sorted, Ordered
  <2>6. c >= e.off + 1 /\ c <= EndOf(e) - 1 /\ (~e.active => c <= EndOf(e) - 2)
    BY <2>1, <2>3 DEF Payload
  <2>7. ASSUME NEW j \in DOMAIN files, j > f, files[j].t = e.t PROVE c < files[j].off
    <3>1. ~e.active /\ EndOf(e) <= files[j].off + 1
      BY <2>1, <2>3, <2>5, <2>7 DEF Order
    <3>2. files[j].off \in Nat
      BY <2>2, TableDomain DEF Entry
    <3> QED BY <2>1, <2>3, <2>6, <3>1, <3>2
  <2>8. Owns(files, f, c)
    BY <2>1, <2>3, <2>6, <2>7 DEF Owns
  <2> QED BY <2>1, <2>5, <2>8 DEF Dated
<1> QED BY <1>1, Inductive, LogInvariant, DayInvariant, PTL

-----------------------------------------------------------------------------
(* Which rows a file sends. *)

\* Files of a type are named for later and later days.
Names(fs) == \A i, j \in DOMAIN fs : i < j /\ fs[i].t = fs[j].t => fs[i].day < fs[j].day
Lengths(fs) == \A i \in DOMAIN fs : fs[i].len >= 1

\* A saved entry still has the row in cell c after the next boot, when an open
\* file is followed to its first #EOF and a closed one ends where it did.
Keeps(e, nr, c) ==
  /\ e.off < c
  /\ IF e.active THEN \A x \in e.off..c : nr[e.t][x].k # "eof" ELSE c <= EndOf(e) - 2

\* Entry f of the saved table has the row, and so has entry f in RAM.
Sends(saved, fs, nr, up, f, t, c) ==
  /\ f \in DOMAIN saved /\ saved[f].t = t
  /\ Keeps(saved[f], nr, c)
  /\ up => c \in Payload(fs[f])
Sent(saved, fs, nr, up) ==
  \A t \in Types : \A c \in 0..(Size[t] - 1) :
    nr[t][c].k = "row" /\ nr[t][c].d # 0 => \E f \in DOMAIN saved : Sends(saved, fs, nr, up, f, t, c)

Named == ~Formatting => Names(files) /\ Names(cache) /\ Lengths(files) /\ Lengths(cache)
AllSent == ~Formatting /\ Len(cache) < MaxFiles => Sent(cache, files, nor, mode # "off")
SendInv == Named /\ AllSent

\* Flash that has no #EOF but those it had.
NoNewEof(nr, nr2) ==
  \A t \in Types : \A i \in 0..(Size[t] - 1) : nr2[t][i] = nr[t][i] \/ nr2[t][i].k # "eof"

\* A row goes on being sent when no file gets shorter and no #EOF comes.
LEMMA SendsOn ==
  ASSUME NEW saved \in Tables, NEW fs, NEW fs2, NEW nr, NEW nr2, NEW up, NEW up2, NEW f,
         NEW t \in Types, NEW c \in 0..(Size[t] - 1), Sends(saved, fs, nr, up, f, t, c),
         NoNewEof(nr, nr2), up2 => up /\ Payload(fs[f]) \subseteq Payload(fs2[f])
  PROVE  Sends(saved, fs2, nr2, up2, f, t, c)
<1>1. f \in DOMAIN saved /\ saved[f].t = t /\ Keeps(saved[f], nr, c)
  BY DEF Sends
<1>2. saved[f].off \in Nat /\ Size[t] \in Nat
  BY <1>1, TableDomain, SizeAssumption DEF Entry
<1>3. ASSUME NEW x \in saved[f].off..c, nr[t][x].k # "eof" PROVE nr2[t][x].k # "eof"
  <2>1. x \in 0..(Size[t] - 1)
    BY <1>2
  <2> QED BY <1>3, <2>1 DEF NoNewEof
<1>4. Keeps(saved[f], nr2, c)
  BY <1>1, <1>3 DEF Keeps
<1> QED BY <1>1, <1>4 DEF Sends

LEMMA SentOn ==
  ASSUME NEW saved \in Tables, NEW fs, NEW fs2, NEW nr, NEW nr2, NEW up, NEW up2,
         Sent(saved, fs, nr, up), NoNewEof(nr, nr2), NoNewRow(nr, nr2),
         up2 => up /\ \A f \in DOMAIN saved : Payload(fs[f]) \subseteq Payload(fs2[f])
  PROVE  Sent(saved, fs2, nr2, up2)
<1> SUFFICES ASSUME NEW t \in Types, NEW c \in 0..(Size[t] - 1),
                    nr2[t][c].k = "row", nr2[t][c].d # 0
             PROVE  \E f \in DOMAIN saved : Sends(saved, fs2, nr2, up2, f, t, c)
  BY DEF Sent
<1>1. nr[t][c].k = "row" /\ nr[t][c].d # 0
  BY DEF NoNewRow
<1>2. PICK f \in DOMAIN saved : Sends(saved, fs, nr, up, f, t, c)
  BY <1>1 DEF Sent
<1>3. up2 => up /\ Payload(fs[f]) \subseteq Payload(fs2[f])
  OBVIOUS
<1>4. Sends(saved, fs2, nr2, up2, f, t, c)
  BY <1>2, <1>3, SendsOn
<1> QED BY <1>4

\* Only the newest file of a type may be open.
LEMMA OpenIsNewest ==
  ASSUME NEW fs \in Tables, Order(fs), NEW f \in DOMAIN fs, fs[f].active
  PROVE  f = SlotIn(fs, fs[f].t) /\ f # 0
<1>1. DOMAIN fs = 1..Len(fs) /\ Len(fs) \in Nat
  BY TableDomain
<1>2. ASSUME NEW j \in DOMAIN fs, j > f PROVE fs[j].t # fs[f].t
  <2>1. f < j
    BY <1>1, <1>2
  <2> QED BY <2>1 DEF Order
<1>3. f \in NewestIn(fs, fs[f].t)
  BY <1>2 DEF NewestIn
<1> QED BY <1>1, <1>3, SlotInUnique

\* The same files in the same places have the same names.
LEMMA NamesAlike ==
  ASSUME NEW fs, NEW gs, DOMAIN fs = DOMAIN gs, \A i \in DOMAIN fs : Alike(fs[i], gs[i]), Names(fs)
  PROVE  Names(gs)
<1> SUFFICES ASSUME NEW i \in DOMAIN gs, NEW j \in DOMAIN gs, i < j, gs[i].t = gs[j].t
             PROVE  gs[i].day < gs[j].day
  BY DEF Names
<1>1. fs[i].t = fs[j].t /\ fs[i].day = gs[i].day /\ fs[j].day = gs[j].day
  BY DEF Alike
<1> QED BY <1>1 DEF Names

\* A file that grows keeps its place among the names, and its length.
LEMMA GrownNamed ==
  ASSUME Named, ~Formatting, files \in Tables, NEW s \in DOMAIN files, NEW n \in Nat,
         NEW a \in BOOLEAN, files' = Grow(s, n, a), cache' = cache
  PROVE  Named'
<1>1. /\ DOMAIN files' = DOMAIN files /\ EndOf(files'[s]) = EndOf(files[s]) + n
      /\ files' \in Tables
      /\ \A i \in DOMAIN files : i # s => files'[i] = files[i]
      /\ \A i \in DOMAIN files : Alike(files'[i], files[i])
  BY GrowEffect
<1>2. Names(files) /\ Names(cache) /\ Lengths(files) /\ Lengths(cache)
  BY DEF Named
<1>3. Names(files')
  <2>1. \A i \in DOMAIN files : Alike(files[i], files'[i])
    BY <1>1 DEF Alike
  <2> QED BY <1>1, <1>2, <2>1, NamesAlike
<1>4. files'[s].len >= 1
  <2>1. files[s] \in Entry /\ files'[s] \in Entry
    BY <1>1, TableDomain
  <2>2. /\ files[s].off \in Nat /\ files[s].len \in Nat /\ files'[s].len \in Nat
        /\ files'[s].off = files[s].off /\ files[s].len >= 1
    BY <1>1, <1>2, <2>1 DEF Entry, Alike, Lengths
  <2> QED BY <1>1, <2>2 DEF EndOf
<1>5. Lengths(files')
  BY <1>1, <1>2, <1>4 DEF Lengths
<1> QED BY <1>2, <1>3, <1>5 DEF Named

-----------------------------------------------------------------------------
(* No step takes a row out of the file that sends it. *)

LEMMA QuietSend ==
  ASSUME SendInv, ~Formatting, nor' = nor, cache' = cache, files' = files,
         mode # "off" \/ mode' = mode
  PROVE  SendInv'
<1>1. Named'
  BY DEF SendInv, Named
<1>2. ASSUME Len(cache) < MaxFiles PROVE Sent(cache, files, nor, mode' # "off")
  <2>1. Sent(cache, files, nor, mode # "off")
    BY <1>2 DEF SendInv, AllSent
  <2> QED BY <2>1 DEF Sent, Sends
<1>3. AllSent'
  BY <1>2 DEF AllSent
<1> QED BY <1>1, <1>3 DEF SendInv

LEMMA EnsureQuietSend ==
  IInv /\ LogInv /\ SendInv /\ (EnsureReturns \/ EnsureLatches \/ EnsureBegins) => SendInv'
<1> SUFFICES ASSUME IInv, LogInv, SendInv, EnsureReturns \/ EnsureLatches \/ EnsureBegins
             PROVE  SendInv'
  OBVIOUS
<1>0. todo \in Seq(Tasks) /\ todo # <<>> /\ Head(todo).do = "ensure"
  BY Parts DEF OpOK, EnsureReturns, EnsureLatches, EnsureBegins, Deciding, Doing, Idle
<1>1. ~Formatting
  BY <1>0, NotWiping DEF LogInv
<1>2. nor' = nor /\ cache' = cache /\ files' = files /\ mode' = mode
  BY DEF EnsureReturns, EnsureLatches, EnsureBegins, flashVars, ramVars
<1> QED BY <1>1, <1>2, QuietSend

LEMMA RefusedSend ==
  ASSUME IInv, LogInv, SendInv, HasPending, Refused
  PROVE  SendInv'
<1>1. ~Formatting
  BY WriteBehindEdge
<1>2. nor' = nor /\ cache' = cache /\ files' = files /\ mode' = mode
  BY DEF Refused, GuardRefuses, flashVars
<1> QED BY <1>1, <1>2, QuietSend

LEMMA RecordCalendarDaySend == IInv /\ LogInv /\ SendInv /\ RecordCalendarDay => SendInv'
<1> SUFFICES ASSUME IInv, LogInv, SendInv, RecordCalendarDay PROVE SendInv'
  OBVIOUS
<1>0. todo \in Seq(Tasks) /\ todo # <<>> /\ Head(todo).do = "ymd"
  BY Parts DEF OpOK, RecordCalendarDay, Doing, Idle
<1>1. ~Formatting
  BY <1>0, NotWiping DEF LogInv
<1>2. nor' = nor /\ cache' = cache /\ files' = files /\ mode' = mode
  BY DEF RecordCalendarDay, flashVars
<1> QED BY <1>1, <1>2, QuietSend

LEMMA NoFileSend ==
  IInv /\ LogInv /\ SendInv /\ Doing("row") /\ CallFails /\ UNCHANGED <<flashVars, envVars>> => SendInv'
<1> SUFFICES ASSUME IInv, LogInv, SendInv, Doing("row"), CallFails, UNCHANGED <<flashVars, envVars>>
             PROVE  SendInv'
  OBVIOUS
<1>0. todo \in Seq(Tasks) /\ todo # <<>> /\ Head(todo).do = "row" /\ mode # "off"
  BY Parts DEF OpOK, Doing, Idle, Committed
<1>1. ~Formatting
  BY <1>0, NotWiping DEF LogInv
<1>2. nor' = nor /\ cache' = cache /\ files' = files
  BY DEF CallFails, flashVars
<1> QED BY <1>0, <1>1, <1>2, QuietSend

LEMMA NewCallSend ==
  IInv /\ SendInv /\ ((\E t \in Types, n \in RowSizes : StartAppend(t, n)) \/ \E d \in Days : SetClock(d))
    => SendInv'
<1> SUFFICES ASSUME IInv, SendInv,
                    (\E t \in Types, n \in RowSizes : StartAppend(t, n)) \/ \E d \in Days : SetClock(d)
             PROVE  SendInv'
  OBVIOUS
<1>1. todo = <<>> /\ nor' = nor /\ cache' = cache /\ files' = files /\ mode # "off"
  BY DEF StartAppend, SetClock, Calls, Idle, Up, flashVars, ramVars
<1>2. ~Formatting
  BY <1>1, NoAgenda, WipesIs
<1> QED BY <1>1, <1>2, QuietSend

LEMMA FormatSend == (StartFormat \/ \E d \in 0..MaxDay : BootFormats(d)) /\ Calm /\ IInv /\ LogInv => SendInv'
<1> SUFFICES ASSUME StartFormat \/ \E d \in 0..MaxDay : BootFormats(d), Calm, IInv, LogInv
             PROVE  SendInv'
  OBVIOUS
<1>1. todo' = FormatAll
  BY DEF StartFormat, BootFormats, Calls, Call
<1>2. \E i \in DOMAIN FormatAll : FormatAll[i] = Erase(Provenance)
  BY FormatAgenda, OrderAssumption
<1>3. Formatting'
  BY <1>1, <1>2, TaskKinds, WipesIs DEF Wipes
<1> QED BY <1>3 DEF SendInv, Named, AllSent

LEMMA ErasingSend == Calm /\ IInv /\ LogInv /\ (EraseRegion \/ ClearTables) => SendInv'
<1> SUFFICES ASSUME Calm, IInv, LogInv, EraseRegion \/ ClearTables PROVE SendInv'
  OBVIOUS
<1>1. CASE EraseRegion
  <2>0. todo \in Seq(Tasks) /\ todo # <<>> /\ TaskDone /\ Head(todo).do = "erase"
    BY <1>1, Parts DEF OpOK, EraseRegion, Doing, Idle
  <2>1. Formatting'
    BY <2>0, ErasingGoesOn
  <2> QED BY <2>1 DEF SendInv, Named, AllSent
<1>2. CASE ClearTables
  <2>1. LogInv' /\ ~cached' /\ files' = <<>> /\ cache' = <<>> /\ nor' = nor
    BY <1>2, ClearTablesLog DEF ClearTables
  <2>2. ~Formatting' => \A t \in Types : \A i \in 0..(Size[t] - 1) : nor'[t][i].k # "row"
    BY <2>1 DEF LogInv, Untouched
  <2>3. AllSent'
    BY <2>2 DEF AllSent, Sent
  <2>4. Named'
    BY <2>1, EmptySeq DEF Named, Names, Lengths
  <2> QED BY <2>3, <2>4 DEF SendInv
<1> QED BY <1>1, <1>2


\* Sent, when the table of files is saved in the cache and RAM has it.
LEMMA StillSent ==
  ASSUME AllSent, ~Formatting, mode # "off", Len(cache) < MaxFiles
  PROVE  Sent(cache, files, nor, TRUE)
BY DEF AllSent

\* An #EOF goes behind the rows of the file it closes.
LEMMA CloseOldSend == IInv /\ LogInv /\ DayInv /\ SendInv /\ CloseOld => SendInv'
<1> SUFFICES ASSUME IInv, LogInv, DayInv, SendInv, CloseOld PROVE SendInv'
  OBVIOUS
<1> DEFINE h == Head(todo).t
           s == Slot(h)
           c == Pending.cells
           at == Pending.at
<1>0. /\ HasPending /\ stage = "close" /\ todo # <<>> /\ ~Formatting /\ h \in Types /\ Allowed
      /\ files' = Grow(s, 1, FALSE) /\ cache' = cache /\ mode # "off" /\ Len(c) = 1
  BY CloseAllowed
<1>1. /\ s \in DOMAIN files /\ files \in Tables /\ cache \in Tables /\ s = SlotIn(files, h)
      /\ files[s] \in Entry /\ files[s].t = h /\ at = EndOf(files[s]) /\ s # 0
  <2>1. s \in DOMAIN files /\ files[s] \in Entry /\ files[s].t = h
    BY <1>0, CurrentFile
  <2>2. files \in Tables /\ cache \in Tables /\ s = SlotIn(files, h)
    BY SlotIs, InsideTables DEF Inside
  <2>3. s # 0
    BY <2>1, <2>2, TableDomain
  <2>4. at = EndOf(files[s])
    BY <1>0, PendingType
  <2> QED BY <2>1, <2>2, <2>3, <2>4
<1>2. files[s].active
  BY <1>0, <1>1 DEF LogInv, NewestOpen
<1>3. h \in Types /\ at \in Nat /\ Len(c) \in Nat /\ Wrote(nor, nor', h, at, c)
  BY <1>0, WriteBehindEdge, AllowedWrote, PendingType
<1>4. \A i \in 1..Len(c) : c[i].k # "row"
  <2>1. ~Doing("row")
    BY <1>0 DEF IInv, Committed, Doing
  <2> QED BY <1>0, <2>1, PendingCells
<1>5. /\ DOMAIN files' = DOMAIN files /\ files' \in Tables
      /\ files'[s].active = FALSE /\ EndOf(files'[s]) = EndOf(files[s]) + 1
      /\ \A i \in DOMAIN files : i # s => files'[i] = files[i]
      /\ \A i \in DOMAIN files : Alike(files'[i], files[i])
  <2>1. files' = Grow(s, 1, FALSE) /\ 1 \in Nat /\ FALSE \in BOOLEAN
    BY <1>0
  <2> HIDE DEF s
  <2> QED BY <1>1, <2>1, GrowEffect
<1>6. /\ DOMAIN cache = DOMAIN files /\ \A i \in DOMAIN cache : Alike(cache[i], files[i])
      /\ SlotIn(cache, h) = s
  BY <1>0, <1>1, SavedSlot
<1>7. Named'
  <2>1. files' = Grow(s, 1, FALSE) /\ 1 \in Nat /\ FALSE \in BOOLEAN
    BY <1>0
  <2> HIDE DEF s
  <2> QED BY <1>0, <1>1, <2>1, GrownNamed DEF SendInv
<1> HIDE DEF s, c, at, h
<1>8. ASSUME NEW t \in Types, NEW i \in 0..(Size[t] - 1)
      PROVE  \/ nor'[t][i] = nor[t][i] \/ nor'[t][i].k = "smear"
             \/ t = h /\ i = at /\ nor'[t][i].k # "row"
  <2> DEFINE Came == \E j \in 1..Len(c) : t = h /\ i = at + j - 1 /\ nor'[t][i] = c[j]
  <2>1. nor'[t][i] = nor[t][i] \/ nor'[t][i].k = "smear" \/ Came
    <3>1. h \in Types /\ at \in Nat /\ Len(c) \in Nat /\ Wrote(nor, nor', h, at, c)
      BY <1>3
    <3> QED BY <3>1, CellFrom
  <2>2. Came => t = h /\ i = at /\ nor'[t][i].k # "row"
    BY <1>0, <1>3, <1>4
  <2> HIDE DEF Came
  <2> QED BY <2>1, <2>2
<1>9. /\ files[s].off \in Nat /\ EndOf(files[s]) \in Nat /\ files'[s].off = files[s].off
  BY <1>1, <1>5 DEF Entry, EndOf, Alike
<1>10. \A f \in DOMAIN files : Payload(files[f]) \subseteq Payload(files'[f])
  <2> SUFFICES ASSUME NEW f \in DOMAIN files PROVE Payload(files[f]) \subseteq Payload(files'[f])
    OBVIOUS
  <2>1. CASE f = s
    BY <1>2, <1>5, <1>9, <2>1 DEF Payload
  <2>2. CASE f # s
    BY <1>5, <2>2
  <2> QED BY <2>1, <2>2
<1>11. ASSUME Len(cache) < MaxFiles, NEW t \in Types, NEW i \in 0..(Size[t] - 1),
              nor'[t][i].k = "row", nor'[t][i].d # 0
       PROVE  \E f \in DOMAIN cache : Sends(cache, files', nor', TRUE, f, t, i)
  <2>1. nor[t][i].k = "row" /\ nor[t][i].d # 0
    BY <1>8, <1>11
  <2>2. Sent(cache, files, nor, TRUE)
    BY <1>0, <1>11, StillSent DEF SendInv
  <2>3. PICK f \in DOMAIN cache : Sends(cache, files, nor, TRUE, f, t, i)
    BY <2>1, <2>2 DEF Sent
  <2>4. cache[f].t = t /\ Keeps(cache[f], nor, i) /\ i \in Payload(files[f])
    BY <2>3 DEF Sends
  <2>5. cache[f].off \in Nat /\ Size[t] \in Nat
    BY <1>1, TableDomain, SizeAssumption DEF Entry
  <2>6. ASSUME cache[f].active, NEW x \in cache[f].off..i PROVE nor'[t][x].k # "eof"
    <3>1. x \in 0..(Size[t] - 1) /\ nor[t][x].k # "eof"
      BY <2>4, <2>5, <2>6 DEF Keeps
    <3>2. CASE t = h /\ x = at
      <4>1. f = s
        <5>1. Order(cache)
          BY <1>0 DEF DayInv, Ordered
        <5> QED BY <1>1, <1>6, <2>4, <2>6, <3>2, <5>1, OpenIsNewest
      <4>2. i <= EndOf(files[s]) - 1
        BY <1>2, <1>9, <2>4, <4>1 DEF Payload
      <4> QED BY <1>1, <1>9, <2>5, <3>2, <4>2
    <3> QED BY <1>8, <3>1, <3>2
  <2>7. Keeps(cache[f], nor', i)
    BY <2>4, <2>6 DEF Keeps
  <2>8. i \in Payload(files'[f])
    BY <1>6, <1>10, <2>4
  <2>9. Sends(cache, files', nor', TRUE, f, t, i)
    BY <2>4, <2>7, <2>8 DEF Sends
  <2> QED BY <2>9
<1>12. AllSent'
  <2>1. mode' = mode
    BY CloseAllowed
  <2>2. Len(cache) < MaxFiles => Sent(cache, files', nor', TRUE)
    BY <1>11 DEF Sent
  <2> QED BY <1>0, <2>1, <2>2 DEF AllSent
<1> QED BY <1>7, <1>12 DEF SendInv

\* The new file comes with a later day than those of its type.
LEMMA WriteHeaderSend == IInv /\ LogInv /\ DayInv /\ SendInv /\ WriteHeader => SendInv'
<1> SUFFICES ASSUME IInv, LogInv, DayInv, SendInv, WriteHeader PROVE SendInv'
  OBVIOUS
<1> DEFINE h == Head(todo).t
           n == Len(files)
<1>0. /\ ~Formatting /\ mode # "off" /\ h \in Types /\ off \in Nat /\ day = latest /\ day \in Days
      /\ SlotIn(files, h) # 0 => files[SlotIn(files, h)].day # day
      /\ cache' = cache /\ mode' = mode /\ stage = "header"
  BY HeaderAllowed
<1>1. /\ files' \in Tables /\ n \in Nat /\ DOMAIN files = 1..n /\ DOMAIN files' = 1..(n + 1)
      /\ \A i \in 1..n : files'[i] = files[i]
      /\ files'[n + 1].t = h /\ files'[n + 1].day = day /\ files'[n + 1].off = off
      /\ EndOf(files'[n + 1]) = off + 2
  BY EntryAdded
<1>2. NoNewRow(nor, nor') /\ NoNewEof(nor, nor')
  BY HeaderInFlash DEF NoNewRow, NoNewEof
<1>3. files \in Tables /\ cache \in Tables
  BY InsideTables DEF Inside
<1> HIDE DEF h, n
<1>4. Names(files) /\ Names(cache) /\ Lengths(files) /\ Lengths(cache)
  BY <1>0 DEF SendInv, Named
<1>5. ASSUME NEW i \in 1..n, files[i].t = h PROVE files[i].day < day
  <2> DEFINE s == SlotIn(files, h)
  <2>1. \A j \in 1..n : files[j].day \in Nat /\ files[j].day <= day /\ day \in Nat
    <3>1. \A j \in 1..n : files[j].day \in Days
      BY <1>1, <1>3, TableDomain DEF Entry
    <3> QED BY <1>0, <1>1, <3>1, DayRange DEF LogInv, Calendar, DaysUpTo, Days
  <2>2. CASE i \in NewestIn(files, h)
    <3>1. s = i /\ i # 0
      BY <1>1, <2>2, SlotInUnique
    <3> QED BY <1>0, <2>1, <3>1
  <2>3. CASE i \notin NewestIn(files, h)
    <3>1. PICK j \in DOMAIN files : j > i /\ files[j].t = h
      BY <1>1, <1>5, <2>3 DEF NewestIn
    <3>2. i < j /\ files[i].day < files[j].day
      BY <1>1, <1>4, <1>5, <3>1 DEF Names
    <3> QED BY <1>1, <2>1, <3>1, <3>2
  <2> QED BY <2>2, <2>3
<1>6. Names(files')
  <2> SUFFICES ASSUME NEW i \in 1..(n + 1), NEW j \in 1..(n + 1), i < j, files'[i].t = files'[j].t
               PROVE  files'[i].day < files'[j].day
    BY <1>1 DEF Names
  <2>1. i \in 1..n /\ files'[i] = files[i]
    BY <1>1
  <2>2. CASE j = n + 1
    BY <1>1, <1>5, <2>1, <2>2
  <2>3. CASE j # n + 1
    <3>1. j \in 1..n /\ files'[j] = files[j]
      BY <1>1, <2>3
    <3> QED BY <1>1, <1>4, <2>1, <3>1 DEF Names
  <2> QED BY <2>2, <2>3
<1>7. Lengths(files')
  <2>1. files'[n + 1].len >= 1
    <3>1. files'[n + 1] \in Entry
      BY <1>1, TableDomain
    <3>2. files'[n + 1].len \in Nat
      BY <3>1 DEF Entry
    <3> QED BY <1>0, <1>1, <3>2 DEF EndOf
  <2>2. ASSUME NEW i \in DOMAIN files' PROVE files'[i].len >= 1
    <3>1. CASE i = n + 1
      BY <2>1, <3>1
    <3>2. CASE i # n + 1
      BY <1>1, <1>4, <3>2 DEF Lengths
    <3> QED BY <3>1, <3>2
  <2> QED BY <2>2 DEF Lengths
<1>8. ASSUME Len(cache) < MaxFiles PROVE Sent(cache, files', nor', TRUE)
  <2>1. Sent(cache, files, nor, TRUE)
    BY <1>0, <1>8, StillSent DEF SendInv
  <2>2. \A f \in DOMAIN cache : f \in 1..n
    <3>1. Len(files) = Len(cache)
      BY <1>0, SavedSlot
    <3> QED BY <1>3, <3>1, TableDomain DEF n
  <2>3. \A f \in DOMAIN cache : Payload(files[f]) \subseteq Payload(files'[f])
    BY <1>1, <2>2
  <2> QED BY <1>2, <1>3, <2>1, <2>3, SentOn
<1>9. Named' /\ AllSent'
  BY <1>0, <1>4, <1>6, <1>7, <1>8 DEF Named, AllSent
<1> QED BY <1>9 DEF SendInv

LEMMA DayStartSend ==
  ASSUME IInv, LogInv, SendInv, Writing("daystart"), Allowed,
         files' = Grow(Slot(Head(todo).t), DayStartLen, TRUE),
         UNCHANGED <<cached, cache, mode, full, ymd, envVars, todo, off, day>>
  PROVE  SendInv'
<1> DEFINE s == Slot(Head(todo).t)
<1>0. HasPending /\ ~Formatting /\ mode # "off" /\ stage = "daystart" /\ cache' = cache /\ mode' = mode
  BY WriteBehindEdge DEF HasPending, Writing
<1>1. /\ s \in DOMAIN files /\ files \in Tables /\ cache \in Tables /\ s = SlotIn(files, Head(todo).t)
      /\ files[s].t = Head(todo).t
  BY <1>0, CurrentFile, SlotIs, InsideTables DEF Inside
<1>2. DayStartLen \in Nat /\ TRUE \in BOOLEAN /\ files' = Grow(s, DayStartLen, TRUE)
  BY RowAssumption
<1>3. NoNewRow(nor, nor') /\ NoNewEof(nor, nor')
  BY <1>0, RowsInFlash DEF NoNewRow, NoNewEof, IInv, Committed, Doing
<1>4. \A f \in DOMAIN cache : f # s /\ f \in DOMAIN files
  <2>1. Len(files) = Len(cache) + 1 /\ files[Len(files)].t = Head(todo).t
    BY <1>0 DEF LogInv, Saved, Opened
  <2>2. DOMAIN files = 1..Len(files) /\ DOMAIN cache = 1..Len(cache) /\ Len(cache) \in Nat
    BY <1>1, TableDomain
  <2>3. Len(files) \in NewestIn(files, Head(todo).t)
    BY <2>1, <2>2 DEF NewestIn
  <2>4. SlotIn(files, Head(todo).t) = Len(files)
    BY <2>1, <2>2, <2>3, SlotInUnique
  <2> QED BY <1>1, <2>1, <2>2, <2>4
<1> HIDE DEF s
<1>5. Named'
  BY <1>0, <1>1, <1>2, GrownNamed DEF SendInv
<1>6. \A f \in DOMAIN cache : files'[f] = files[f]
  <2>1. \A i \in DOMAIN files : i # s => files'[i] = files[i]
    BY <1>1, <1>2, GrowEffect
  <2> QED BY <1>4, <2>1
<1>7. ASSUME Len(cache) < MaxFiles PROVE Sent(cache, files', nor', TRUE)
  <2>1. Sent(cache, files, nor, TRUE)
    BY <1>0, <1>7, StillSent DEF SendInv
  <2>2. \A f \in DOMAIN cache : Payload(files[f]) \subseteq Payload(files'[f])
    BY <1>6
  <2> QED BY <1>1, <1>3, <2>1, <2>2, SentOn
<1>8. AllSent'
  BY <1>0, <1>7 DEF AllSent
<1> QED BY <1>5, <1>8 DEF SendInv

LEMMA WriteDayStartSend == IInv /\ LogInv /\ SendInv /\ WriteDayStart => SendInv'
<1> SUFFICES ASSUME IInv, LogInv, SendInv, WriteDayStart PROVE SendInv'
  OBVIOUS
<1>1. CASE Refused
  BY <1>1, RefusedSend DEF WriteDayStart, HasPending
<1>2. CASE /\ Allowed
           /\ files' = Grow(Slot(EnsureType), DayStartLen, TRUE)
           /\ UNCHANGED <<cached, cache, mode, full, ymd, envVars>>
  BY <1>2, DayStartSend DEF WriteDayStart, EnsureType
<1> QED BY <1>1, <1>2 DEF WriteDayStart

\* An entry that is saved open was saved open before: its rows have no #EOF
\* before them.
LEMMA SaveCacheSend == IInv /\ LogInv /\ DayInv /\ SendInv /\ SaveCache => SendInv'
<1> SUFFICES ASSUME IInv, LogInv, DayInv, SendInv, SaveCache PROVE SendInv'
  OBVIOUS
<1>0. todo \in Seq(Tasks) /\ todo # <<>> /\ Head(todo).do = "ensure" /\ stage = "save" /\ mode # "off"
  BY Parts DEF OpOK, SaveCache, Writing, Doing, Idle, Committed
<1>1. ~Formatting
  BY <1>0, NotWiping DEF LogInv
<1>2. nor' = nor /\ files' = files /\ cache' = files /\ mode' = mode
  BY DEF SaveCache, ramVars
<1>3. /\ Len(files) = Len(cache) + 1 /\ files \in Tables /\ cache \in Tables
      /\ DOMAIN files = 1..Len(files) /\ DOMAIN cache = 1..Len(cache) /\ Len(cache) \in Nat
      /\ files[Len(files)].t = Head(todo).t
      /\ \A i \in DOMAIN cache : Alike(cache[i], files[i])
  <2>1. Opened = 1
    BY <1>0 DEF Opened
  <2>2. files \in Tables /\ cache \in Tables
    BY InsideTables DEF Inside
  <2> QED BY <1>0, <1>1, <2>1, <2>2, TableDomain DEF LogInv, Saved
<1>4. Order(files) /\ Order(cache)
  BY <1>1 DEF DayInv, Ordered
<1>5. ASSUME NEW f \in DOMAIN cache, files[f].active PROVE cache[f].active
  <2> DEFINE t == files[f].t
  <2>0. f \in DOMAIN files /\ f < Len(files) /\ t \in Types /\ f # 0
    BY <1>3, TableDomain DEF Entry
  <2>1. f = SlotIn(files, t)
    BY <1>3, <1>4, <1>5, <2>0, OpenIsNewest
  <2>2. f \in NewestIn(files, t)
    BY <2>0, <2>1, SlotInIndex
  <2>3. f \in NewestIn(cache, t)
    <3>1. \A j \in DOMAIN cache : j \in DOMAIN files /\ cache[j].t = files[j].t
      BY <1>3 DEF Alike
    <3> QED BY <2>2, <3>1 DEF NewestIn
  <2>4. SlotIn(cache, t) = f
    BY <1>3, <2>3, SlotInUnique
  <2> QED BY <1>1, <2>0, <2>4 DEF LogInv, NewestSaved
<1>6. ASSUME Len(files) < MaxFiles PROVE Sent(files, files, nor, TRUE)
  <2> SUFFICES ASSUME NEW t \in Types, NEW c \in 0..(Size[t] - 1), nor[t][c].k = "row", nor[t][c].d # 0
               PROVE  \E f \in DOMAIN files : Sends(files, files, nor, TRUE, f, t, c)
    BY DEF Sent
  <2>1. Len(cache) < MaxFiles
    BY <1>3, <1>6, SizeAssumption
  <2>2. PICK f \in DOMAIN cache : Sends(cache, files, nor, TRUE, f, t, c)
    BY <1>0, <1>1, <2>1, StillSent DEF SendInv, Sent
  <2>3. /\ cache[f].t = t /\ Keeps(cache[f], nor, c) /\ c \in Payload(files[f])
        /\ f \in DOMAIN files /\ Alike(cache[f], files[f]) /\ files[f] \in Entry
    BY <1>3, <2>2, TableDomain DEF Sends
  <2>4. Keeps(files[f], nor, c)
    <3>1. files[f].off \in Nat /\ EndOf(files[f]) \in Nat /\ files[f].off = cache[f].off
          /\ files[f].t = cache[f].t
      BY <2>3 DEF Entry, EndOf, Alike
    <3>2. CASE files[f].active
      BY <1>5, <2>3, <3>1, <3>2 DEF Keeps
    <3>3. CASE ~files[f].active
      <4>1. c <= EndOf(files[f]) - 2 /\ files[f].off < c
        BY <2>3, <3>1, <3>3 DEF Payload
      <4> QED BY <3>3, <4>1 DEF Keeps
    <3> QED BY <3>2, <3>3
  <2>5. Sends(files, files, nor, TRUE, f, t, c)
    BY <2>3, <2>4 DEF Sends, Alike
  <2> QED BY <2>3, <2>5
<1>7. AllSent'
  BY <1>0, <1>2, <1>6 DEF AllSent
<1>8. Named'
  BY <1>1, <1>2 DEF SendInv, Named
<1> QED BY <1>7, <1>8 DEF SendInv


\* The new row is behind the end of its file, before the file's new end; the
\* file is open, and has no #EOF when it is today's.
LEMMA RowWrittenSend ==
  ASSUME IInv, LogInv, DayInv, SendInv, Doing("row"), Slot(Head(todo).t) # 0, Allowed,
         files' = Grow(Slot(Head(todo).t), Head(todo).n, files[Slot(Head(todo).t)].active),
         UNCHANGED <<cached, cache, mode, full, ymd, envVars>>
  PROVE  SendInv'
<1> DEFINE h == Head(todo).t
           s == Slot(h)
           a == files[s].active
           n == Head(todo).n
<1>0. /\ HasPending /\ stage = "decide" /\ todo \in Seq(Tasks) /\ todo # <<>> /\ ~Formatting
      /\ mode # "off" /\ h \in Types /\ s = SlotIn(files, h) /\ cache' = cache /\ mode' = mode
  BY WriteBehindEdge, SlotIs DEF HasPending, IInv, Committed, Doing
<1>1. /\ s \in DOMAIN files /\ files \in Tables /\ cache \in Tables /\ s # 0
      /\ files[s] \in Entry /\ files[s].t = h
  BY SlotIndex, InsideTables, TableDomain DEF Inside
<1>2. a \in BOOLEAN /\ n \in Nat /\ files[s].off \in Nat /\ files[s].len \in Nat /\ a
  <2>1. a
    BY <1>0, <1>1 DEF LogInv, NewestOpen
  <2> QED BY <1>0, <1>1, <2>1, HeadTask DEF Entry
<1>3. /\ DOMAIN files' = DOMAIN files /\ files'[s].active = a
      /\ EndOf(files'[s]) = EndOf(files[s]) + n
      /\ \A i \in DOMAIN files : i # s => files'[i] = files[i]
      /\ \A i \in DOMAIN files : Alike(files'[i], files[i])
  <2>1. files' = Grow(s, n, a)
    OBVIOUS
  <2> HIDE DEF s, n, a
  <2> QED BY <1>1, <1>2, <2>1, GrowEffect
<1>4. /\ DOMAIN cache = DOMAIN files /\ Len(cache) = Len(files)
      /\ \A i \in DOMAIN cache : Alike(cache[i], files[i])
      /\ SlotIn(cache, h) = s
  BY <1>0, SavedSlot
<1>5. Ready(files, full, day, h)
  <2>1. 1 \in DOMAIN todo /\ Head(todo) = todo[1] /\ Head(todo).do = "row"
    BY <1>0, TailTasks DEF Doing
  <2> QED BY <2>1 DEF DayInv, RowsSeenTo
<1>6. ~full[h]
  BY <1>0, PendingType DEF Allowed, GuardAllows
<1>7. Named'
  <2>1. files' = Grow(s, n, a)
    OBVIOUS
  <2> HIDE DEF s, n, a
  <2> QED BY <1>0, <1>1, <1>2, <2>1, GrownNamed DEF SendInv
<1>8. ASSUME NEW t \in Types, NEW i \in 0..(Size[t] - 1), nor'[t][i].k = "row"
      PROVE  \/ nor'[t][i] = nor[t][i]
             \/ /\ t = h /\ nor'[t][i].d = day
                /\ i >= EndOf(files[SlotIn(files, t)]) /\ i < EndOf(files[SlotIn(files, t)]) + n
  BY <1>8, RowCell
<1>9. /\ NoNewEof(nor, nor')
      /\ \A t \in Types, p \in Nat : NoEof(nor, t, p) => NoEof(nor', t, p)
  BY <1>0, RowsInFlash DEF NoNewEof
<1>10. day # 0 => day = latest
  BY <1>0, DayIsLatest
<1> HIDE DEF s, n, a, h
<1>11. /\ files'[s].off = files[s].off /\ EndOf(files[s]) = files[s].off + files[s].len
       /\ files[s].active /\ files'[s].active
  <2>1. files[s].active
    BY <1>2 DEF a
  <2>2. files'[s].active
    BY <1>2, <1>3
  <2> QED BY <1>1, <1>3, <2>1, <2>2 DEF Alike, EndOf
<1>12. /\ Payload(files[s]) = (files[s].off + 1)..(EndOf(files[s]) - 1)
       /\ Payload(files'[s]) = (files[s].off + 1)..(EndOf(files[s]) + n - 1)
  <2>1. EndOf(files[s]) \in Nat /\ n \in Nat /\ EndOf(files'[s]) = EndOf(files[s]) + n
    BY <1>2, <1>3, <1>11
  <2>2. /\ Payload(files[s]) = (files[s].off + 1)..(EndOf(files[s]) - 1 - 0)
        /\ Payload(files'[s]) = (files'[s].off + 1)..(EndOf(files'[s]) - 1 - 0)
    BY <1>11, Zenon DEF Payload
  <2> QED BY <1>11, <2>1, <2>2
<1>13. \A f \in DOMAIN files : Payload(files[f]) \subseteq Payload(files'[f])
  <2> SUFFICES ASSUME NEW f \in DOMAIN files PROVE Payload(files[f]) \subseteq Payload(files'[f])
    OBVIOUS
  <2>1. CASE f = s
    <3>1. EndOf(files[s]) \in Nat
      BY <1>2, <1>11
    <3> QED BY <1>2, <1>12, <2>1, <3>1
  <2>2. CASE f # s
    BY <1>3, <2>2
  <2> QED BY <2>1, <2>2
<1>14. ASSUME Len(cache) < MaxFiles, NEW t \in Types, NEW c \in 0..(Size[t] - 1),
              nor'[t][c].k = "row", nor'[t][c].d # 0
       PROVE  \E f \in DOMAIN cache : Sends(cache, files', nor', TRUE, f, t, c)
  <2>1. CASE nor'[t][c] = nor[t][c]
    <3>1. Sent(cache, files, nor, TRUE)
      BY <1>0, <1>14, StillSent DEF SendInv
    <3>2. PICK f \in DOMAIN cache : Sends(cache, files, nor, TRUE, f, t, c)
      BY <1>14, <2>1, <3>1 DEF Sent
    <3>3. Payload(files[f]) \subseteq Payload(files'[f])
      BY <1>4, <1>13
    <3>4. Sends(cache, files', nor', TRUE, f, t, c)
      BY <1>1, <1>9, <3>2, <3>3, SendsOn
    <3> QED BY <3>4
  <2>2. CASE /\ t = h /\ nor'[t][c].d = day
             /\ c >= EndOf(files[SlotIn(files, t)]) /\ c < EndOf(files[SlotIn(files, t)]) + n
    <3>1. files[s].day = latest
      <4>1. ~(Len(files) >= MaxFiles)
        BY <1>1, <1>4, <1>14, SizeAssumption, TableDomain
      <4> QED BY <1>0, <1>1, <1>5, <1>6, <1>10, <1>14, <2>2, <4>1 DEF Ready
    <3>2. NoEof(nor, h, files[s].off)
      BY <1>0, <1>1, <3>1 DEF LogInv, NewestOpen
    <3>3. NoEof(nor', h, files[s].off)
      BY <1>0, <1>2, <1>9, <3>2
    <3>4. files[s].len >= 1
      BY <1>0, <1>1 DEF SendInv, Named, Lengths
    <3>5. cache[s].active /\ cache[s].t = h /\ cache[s].off = files[s].off /\ s \in DOMAIN cache
      BY <1>0, <1>1, <1>4 DEF LogInv, NewestSaved, Alike
    <3>6. /\ files[s].off < c /\ c >= EndOf(files[s]) /\ c < EndOf(files[s]) + n /\ Size[h] \in Nat
          /\ c \in 0..(Size[h] - 1)
      BY <1>0, <1>2, <1>11, <2>2, <3>4, SizeAssumption
    <3>7. ASSUME NEW x \in files[s].off..c PROVE nor'[h][x].k # "eof"
      <4>1. x \in files[s].off..(Size[h] - 1)
        BY <1>2, <3>6
      <4> QED BY <3>3, <4>1 DEF NoEof, EofIn
    <3>8. Keeps(cache[s], nor', c)
      BY <3>5, <3>6, <3>7 DEF Keeps
    <3>9. c \in Payload(files'[s])
      <4>1. EndOf(files[s]) \in Nat
        BY <1>2, <1>11
      <4> QED BY <1>2, <1>12, <3>6, <4>1
    <3>10. Sends(cache, files', nor', TRUE, s, t, c)
      BY <2>2, <3>5, <3>8, <3>9 DEF Sends
    <3> QED BY <3>5, <3>10
  <2> QED BY <1>8, <1>14, <2>1, <2>2
<1>15. AllSent'
  <2>1. Len(cache) < MaxFiles => Sent(cache, files', nor', TRUE)
    BY <1>14 DEF Sent
  <2> QED BY <1>0, <2>1 DEF AllSent
<1> QED BY <1>7, <1>15 DEF SendInv

LEMMA AppendRowSend == IInv /\ LogInv /\ DayInv /\ SendInv /\ AppendRow => SendInv'
<1> SUFFICES ASSUME IInv, LogInv, DayInv, SendInv, AppendRow PROVE SendInv'
  OBVIOUS
<1> DEFINE s == Slot(Head(todo).t)
<1>0. Doing("row")
  BY DEF AppendRow
<1>1. CASE s = 0 /\ CallFails /\ UNCHANGED <<flashVars, envVars>>
  BY <1>0, <1>1, NoFileSend
<1>2. CASE s # 0 /\ Refused /\ TaskDone
  <2>1. HasPending
    BY <1>0, <1>2 DEF HasPending
  <2> QED BY <1>2, <2>1, RefusedSend
<1>3. CASE /\ s # 0
           /\ Allowed
           /\ files' = Grow(s, Head(todo).n, files[s].active)
           /\ TaskDone
           /\ UNCHANGED <<cached, cache, mode, full, ymd, envVars>>
  BY <1>0, <1>3, RowWrittenSend
<1> QED BY <1>1, <1>2, <1>3 DEF AppendRow

\* The boot finds the end of an open file behind every row that has no #EOF
\* before it.
LEMMA BootFromCacheSend ==
  ASSUME Calm, IInv, LogInv, SendInv, NEW d \in 0..MaxDay, BootFromCache(d)
  PROVE  SendInv'
<1>1. /\ files' = Reconcile(cache) /\ cache' = cache /\ nor' = nor /\ ~Formatting
  BY BootDay DEF BootFromCache
<1>2. cache \in Tables
  BY InsideTables DEF Inside
<1>3. DOMAIN files' = DOMAIN cache
  BY <1>1 DEF Reconcile
<1>4. Names(cache) /\ Lengths(cache)
  BY <1>1 DEF SendInv, Named
<1>5. ASSUME NEW i \in DOMAIN cache
      PROVE  LET e == cache[i]
                 g == EndIn(nor[e.t], Size[e.t], e.off)
             IN /\ Alike(e, files'[i])
                /\ ~e.active => files'[i] = e
                /\ e.active => /\ files'[i].active /\ files'[i].off = e.off /\ files'[i].len = g - e.off
                /\ e.off \in Nat /\ g \in Nat /\ g > e.off
                /\ g < Edge(nor, e.t) => nor[e.t][g - 1].k = "eof"
  <2> DEFINE e == cache[i]
             n == Edge(nor, e.t)
             r == nor[e.t]
             z == Size[e.t]
             o == e.off
             g == EndIn(r, z, o)
  <2>1. e.t \in Types /\ e.off \in Nat /\ e.len \in Nat /\ e.len >= 1
    <3>1. e \in Entry
      BY <1>2, TableDomain
    <3> QED BY <1>4, <3>1 DEF Entry, Lengths
  <2>2. EndOf(e) <= n
    BY <1>1 DEF LogInv, Behind, Within
  <2>3. n \in Nat /\ Filled(r, z, n) /\ z \in Nat
    BY <2>1, EdgeNat, SizeAssumption DEF LogInv, Regions
  <2>4. ~e.active => files'[i] = e
    BY <1>1 DEF Reconcile
  <2>5. e.active => files'[i] = Resized(e, g - e.off, TRUE)
    BY <1>1, FileEndScans DEF Reconcile
  <2>a. g = EndIn(r, z, o) /\ o = e.off
    OBVIOUS
  <2>b. o < n
    BY <2>1, <2>2, <2>3 DEF EndOf
  <2> HIDE DEF n, r, z, o, g, e
  <2>6. g \in Nat /\ g > o /\ (g < n => r[g - 1].k = "eof")
    <3>1. o \in 0..n /\ o \in Nat
      BY <2>1, <2>3, <2>a, <2>b
    <3>2. g \in o..n /\ g > o /\ (g < n => r[g - 1].k = "eof")
      <4>1. /\ EndIn(r, z, o) \in o..n /\ EndIn(r, z, o) > o
            /\ EndIn(r, z, o) < n => r[EndIn(r, z, o) - 1].k = "eof"
        BY <2>3, <2>b, <3>1, EndFilled
      <4> QED BY <2>a, <4>1
    <3> QED BY <2>3, <3>1, <3>2
  <2>7. Alike(e, files'[i])
    BY <2>4, <2>5 DEF Resized, Alike
  <2>8. e.active => files'[i].active /\ files'[i].off = e.off /\ files'[i].len = g - e.off
    BY <2>5 DEF Resized
  <2> QED BY <2>1, <2>4, <2>6, <2>7, <2>8, <2>a DEF n, r, z, o, g, e
<1>6. Named'
  <2>1. Names(files')
    BY <1>3, <1>4, <1>5, NamesAlike
  <2>2. ASSUME NEW i \in DOMAIN files' PROVE files'[i].len >= 1
    <3>1. CASE cache[i].active
      <4> DEFINE g == EndIn(nor[cache[i].t], Size[cache[i].t], cache[i].off)
      <4>1. files'[i].len = g - cache[i].off /\ cache[i].off \in Nat /\ g \in Nat /\ g > cache[i].off
        BY <1>3, <1>5, <3>1
      <4> HIDE DEF g
      <4> QED BY <4>1
    <3>2. CASE ~cache[i].active
      BY <1>3, <1>4, <1>5, <3>2 DEF Lengths
    <3> QED BY <3>1, <3>2
  <2> QED BY <1>1, <1>4, <2>1, <2>2 DEF Named, Lengths
<1>7. ASSUME Len(cache) < MaxFiles, NEW t \in Types, NEW c \in 0..(Size[t] - 1),
             nor[t][c].k = "row", nor[t][c].d # 0
      PROVE  \E f \in DOMAIN cache : Sends(cache, files', nor, TRUE, f, t, c)
  <2>1. PICK f \in DOMAIN cache : Sends(cache, files, nor, mode # "off", f, t, c)
    BY <1>1, <1>7 DEF SendInv, AllSent, Sent
  <2>2. cache[f].t = t /\ Keeps(cache[f], nor, c)
    BY <2>1 DEF Sends
  <2> DEFINE g == EndIn(nor[t], Size[t], cache[f].off)
  <2>3. c \in Payload(files'[f])
    <3>1. CASE cache[f].active
      <4>1. /\ files'[f].active /\ files'[f].off = cache[f].off /\ files'[f].len = g - cache[f].off
            /\ cache[f].off \in Nat /\ g \in Nat /\ g > cache[f].off
            /\ g < Edge(nor, t) => nor[t][g - 1].k = "eof"
        BY <1>5, <2>2, <3>1
      <4>2. cache[f].off < c /\ \A x \in cache[f].off..c : nor[t][x].k # "eof"
        BY <2>2, <3>1 DEF Keeps
      <4>3. c < Edge(nor, t) /\ Edge(nor, t) \in Nat /\ Size[t] \in Nat
        <5>1. Filled(nor[t], Size[t], Edge(nor, t)) /\ Size[t] \in Nat /\ Edge(nor, t) \in Nat
          BY EdgeNat, SizeAssumption DEF LogInv, Regions
        <5> QED BY <1>7, <5>1 DEF Filled, Blank
      <4> HIDE DEF g
      <4>4. c < g
        <5> SUFFICES ASSUME g <= c PROVE FALSE
          BY <4>1, <4>3
        <5>1. g - 1 \in cache[f].off..c /\ g < Edge(nor, t)
          BY <4>1, <4>3
        <5> QED BY <4>1, <4>2, <5>1
      <4>5. EndOf(files'[f]) = g
        BY <4>1 DEF EndOf
      <4> QED BY <4>1, <4>2, <4>3, <4>4, <4>5 DEF Payload
    <3>2. CASE ~cache[f].active
      <4>1. files'[f] = cache[f] /\ cache[f] \in Entry /\ cache[f].off < c /\ c <= EndOf(cache[f]) - 2
        BY <1>2, <1>5, <2>2, <3>2, TableDomain DEF Keeps
      <4>2. cache[f].off \in Nat /\ EndOf(cache[f]) \in Nat
        BY <4>1 DEF Entry, EndOf
      <4> QED BY <3>2, <4>1, <4>2 DEF Payload
    <3> QED BY <3>1, <3>2
  <2>4. Sends(cache, files', nor, TRUE, f, t, c)
    BY <2>2, <2>3 DEF Sends
  <2> QED BY <2>4
<1>8. AllSent'
  <2>1. Len(cache) < MaxFiles => Sent(cache, files', nor, TRUE)
    BY <1>7 DEF Sent
  <2>2. mode' = "init"
    BY DEF BootFromCache, Booting
  <2> QED BY <1>1, <2>1, <2>2 DEF AllSent
<1> QED BY <1>6, <1>8 DEF SendInv

\* Before a table is first saved there is no row to lose.
LEMMA BootByScanSend ==
  ASSUME Calm, IInv, LogInv, NEW d \in 0..MaxDay, BootByScan(d)
  PROVE  SendInv'
<1>1. ~cached /\ Recoverable /\ ~Formatting /\ cache' = files' /\ nor' = nor
  BY BootDay DEF BootByScan, SaveGoesWrong, Calm
<1>2. PICK s \in [1..Cardinality(Starts) -> Starts] :
        Scanned(s) /\ files' = [i \in DOMAIN s |-> RecoveredEntry(s[i])]
  BY DEF BootByScan
<1>3. ASSUME NEW i \in DOMAIN files'
      PROVE  /\ s[i] \in Starts /\ files'[i].t = s[i][1] /\ files'[i].t \in Types
             /\ s[i][2] = 0 /\ files'[i].len >= 1
  <2>1. s[i] \in Starts /\ files'[i] = RecoveredEntry(s[i])
    BY <1>2
  <2>2. /\ files'[i].t \in Types /\ files'[i].off = 0
        /\ EndOf(files'[i]) = Edge(nor, files'[i].t)
    BY <1>1, <2>1, ScanFindsWhole
  <2>3. files'[i].t = s[i][1] /\ s[i][2] = 0
    BY <2>1, <2>2 DEF RecoveredEntry
  <2>4. Edge(nor, files'[i].t) > 0 /\ Edge(nor, files'[i].t) \in Nat
    <3>1. s[i][2] < Edge(nor, files'[i].t)
      BY <2>1, <2>3, EdgeIs DEF Starts
    <3>2. Edge(nor, files'[i].t) \in Nat
      BY <2>2, EdgeNat DEF LogInv
    <3> QED BY <2>3, <3>1, <3>2
  <2>5. files'[i].len \in Int
    <3>1. files' \in Tables
      BY <1>1, <1>2, ScanInside, Parts DEF Inside
    <3>2. files'[i] \in Entry
      BY <3>1, TableDomain
    <3> QED BY <3>2 DEF Entry
  <2> QED BY <2>1, <2>2, <2>3, <2>4, <2>5 DEF EndOf
<1>4. Names(files')
  <2> SUFFICES ASSUME NEW i \in DOMAIN files', NEW j \in DOMAIN files', i < j,
                      files'[i].t = files'[j].t
               PROVE  FALSE
    BY DEF Names
  <2>1. Before(s[i], s[j])
    BY <1>2 DEF Scanned
  <2>2. Rank(s[i][1]) \in Nat /\ s[i][1] = s[j][1] /\ s[i][2] = 0 /\ s[j][2] = 0
    BY <1>3, RankNat
  <2> QED BY <2>1, <2>2 DEF Before
<1>5. Named'
  BY <1>1, <1>3, <1>4 DEF Named, Lengths
<1>6. AllSent'
  <2>1. \A t \in Types : \A i \in 0..(Size[t] - 1) : nor'[t][i].k # "row"
    BY <1>1 DEF LogInv, Untouched
  <2> QED BY <2>1 DEF AllSent, Sent
<1> QED BY <1>5, <1>6 DEF SendInv

LEMMA PowerCutSend ==
  ASSUME Calm, IInv, LogInv, SendInv, PowerCut
  PROVE  SendInv'
<1>1. ~Formatting /\ NoNewRow(nor, nor') /\ NoNewEof(nor, nor')
  BY CutWrites DEF NoNewRow, NoNewEof
<1>2. files' = <<>> /\ cache' = cache /\ mode' = "off"
  BY DEF PowerCut
<1>3. cache \in Tables
  BY InsideTables DEF Inside
<1>4. Named'
  BY <1>1, <1>2, EmptySeq DEF SendInv, Named, Names, Lengths
<1>5. Len(cache) < MaxFiles => Sent(cache, files', nor', FALSE)
  <2>1. Len(cache) < MaxFiles => Sent(cache, files, nor, mode # "off")
    BY <1>1 DEF SendInv, AllSent
  <2> QED BY <1>1, <1>3, <2>1, SentOn
<1>6. AllSent'
  BY <1>2, <1>5 DEF AllSent
<1> QED BY <1>4, <1>6 DEF SendInv

LEMMA StutterSend == SendInv /\ UNCHANGED vars => SendInv'
<1> SUFFICES ASSUME SendInv, UNCHANGED vars PROVE SendInv'
  OBVIOUS
<1>1. nor' = nor /\ cache' = cache /\ files' = files /\ todo' = todo /\ mode' = mode
  BY DEF vars, flashVars, ramVars, opVars
<1> QED BY <1>1 DEF SendInv, Named, AllSent, Formatting

LEMMA InitSend == Init => SendInv
<1> SUFFICES ASSUME Init PROVE SendInv
  OBVIOUS
<1>1. cache = <<>> /\ files = <<>> /\ \A t \in Types : \A i \in 0..(Size[t] - 1) : nor[t][i] = Blank
  BY DEF Init
<1>2. AllSent
  BY <1>1 DEF AllSent, Sent, Blank
<1> QED BY <1>1, <1>2, EmptySeq DEF SendInv, Named, Names, Lengths

LEMMA NextSend == Calm /\ IInv /\ LogInv /\ DayInv /\ SendInv /\ [Next]_vars => SendInv'
<1> SUFFICES ASSUME Calm, IInv, LogInv, DayInv, SendInv, [Next]_vars PROVE SendInv'
  OBVIOUS
<1>1. CASE EnsureStep
  BY <1>1, EnsureQuietSend, CloseOldSend, WriteHeaderSend, WriteDayStartSend, SaveCacheSend
     DEF EnsureStep
<1>2. CASE AppendRow \/ RecordCalendarDay \/ EraseRegion \/ ClearTables
  BY <1>2, AppendRowSend, RecordCalendarDaySend, ErasingSend
<1>3. CASE Boot
  BY <1>3, BootFromCacheSend, BootByScanSend, FormatSend DEF Boot
<1>4. CASE (\E t \in Types, n \in RowSizes : StartAppend(t, n)) \/ \E d \in Days : SetClock(d)
  BY <1>4, NewCallSend
<1>5. CASE StartFormat
  BY <1>5, FormatSend
<1>6. CASE PowerCut
  BY <1>6, PowerCutSend
<1>7. CASE FaultIndication \/ UNCHANGED vars
  BY <1>7, StutterSend DEF FaultIndication
<1>8. ~WriteFails /\ ~SaveFails /\ ~LoseCache /\ ~(\E t \in Types, d \in Days : FlushDraft(t, d))
  BY DEF Calm, WriteFails, SaveFails, SaveGoesWrong, LoseCache, FlushDraft
<1> QED BY <1>1, <1>2, <1>3, <1>4, <1>5, <1>6, <1>7, <1>8 DEF Next, Step

THEOREM SendInvariant == ASSUME Calm PROVE Spec => []SendInv
<1>1. Init => SendInv
  BY InitSend
<1>2. IInv /\ LogInv /\ DayInv /\ SendInv /\ [Next]_vars => SendInv'
  BY NextSend
<1> QED BY <1>1, <1>2, Inductive, LogInvariant, DayInvariant, PTL DEF Spec

\* No dated row that reached flash is ever lost to the gateway, nor sent twice:
\* whatever power cuts came between, the table that juxta_log_init rebuilds
\* from the cache and the flash (juxta_log.c) has exactly one file the row is
\* in, and find_file finds it by its name.
THEOREM RowsAreDeliverable == ASSUME Calm PROVE Spec => []RowsDeliverable
<1>1. IInv /\ LogInv /\ DayInv /\ SendInv => RowsDeliverable
  <2> SUFFICES ASSUME IInv, LogInv, DayInv, SendInv, Up, ~Formatting, Len(files) < MaxFiles,
                      NEW p \in Rows, nor[p[1]][p[2]].d # 0
               PROVE  /\ Cardinality(Covering(p[1], p[2])) = 1
                      /\ \A f \in Covering(p[1], p[2]) : FindFile(p[1], files[f].day) = f
    BY DEF RowsDeliverable
  <2> DEFINE t == p[1]
             c == p[2]
  <2>1. t \in Types /\ c \in 0..(Size[t] - 1) /\ nor[t][c].k = "row" /\ Size[t] \in Nat /\ mode # "off"
    BY SizeAssumption DEF Rows, IsRow, Up
  <2>2. /\ files \in Tables /\ cache \in Tables
        /\ DOMAIN files = 1..Len(files) /\ Len(files) \in Nat
        /\ DOMAIN cache = 1..Len(cache) /\ Len(cache) \in Nat
    BY InsideTables, TableDomain DEF Inside
  <2>3. /\ Len(files) = Len(cache) + Opened /\ Opened \in {0, 1}
        /\ \A i \in DOMAIN cache : Alike(cache[i], files[i])
    BY <2>1 DEF LogInv, Saved, Opened
  <2>4. Len(cache) < MaxFiles /\ \A i \in DOMAIN cache : i \in DOMAIN files
    BY <2>2, <2>3, SizeAssumption
  <2>5. Names(files) /\ Order(files)
    BY DEF SendInv, Named, DayInv, Ordered
  <2>6. PICK f \in DOMAIN cache : Sends(cache, files, nor, TRUE, f, t, c)
    BY <2>1, <2>4, StillSent DEF SendInv, Sent
  <2>7. f \in Covering(t, c)
    BY <2>3, <2>4, <2>6 DEF Covering, Sends, Alike
  <2>8. ASSUME NEW i \in Covering(t, c), NEW j \in Covering(t, c), i < j PROVE FALSE
    <3>1. /\ i \in DOMAIN files /\ j \in DOMAIN files /\ files[i].t = t /\ files[j].t = t
          /\ c \in Payload(files[i]) /\ c \in Payload(files[j])
      BY DEF Covering
    <3>2. ~files[i].active /\ EndOf(files[i]) <= files[j].off + 1
      BY <2>5, <2>8, <3>1 DEF Order
    <3>3. files[i] \in Entry /\ files[j] \in Entry
      BY <2>2, <3>1, TableDomain
    <3>4. EndOf(files[i]) \in Nat /\ files[i].off \in Nat /\ files[j].off \in Nat /\ EndOf(files[j]) \in Nat
      BY <3>3 DEF Entry, EndOf
    <3>5. c <= EndOf(files[i]) - 2
      BY <3>1, <3>2, <3>4 DEF Payload
    <3>6. c >= files[j].off + 1
      BY <3>1, <3>4 DEF Payload
    <3> QED BY <2>1, <3>2, <3>4, <3>5, <3>6
  <2>9. Covering(t, c) = {f}
    <3>1. \A g \in Covering(t, c) : g \in DOMAIN files
      BY DEF Covering
    <3> QED BY <2>2, <2>4, <2>7, <2>8, <3>1
  <2>10. Cardinality(Covering(t, c)) = 1
    BY <2>9, FS_Singleton
  <2>11. FindFile(t, files[f].day) = f
    <3> DEFINE Is(i) == /\ files[i].t = t /\ files[i].day = files[f].day
                        /\ \A j \in 1..(i - 1) : ~(files[j].t = t /\ files[j].day = files[f].day)
    <3>1. f \in DOMAIN files /\ files[f].t = t
      BY <2>7 DEF Covering
    <3>a. \A j \in DOMAIN files : files[j].day \in Nat
      <4>1. \A j \in DOMAIN files : files[j].day \in Days
        BY <2>2, TableDomain DEF Entry
      <4> QED BY <4>1, DayRange DEF Days
    <3>2. \A i \in DOMAIN files : files[i].t = t /\ files[i].day = files[f].day => i = f
      <4> SUFFICES ASSUME NEW i \in DOMAIN files, files[i].t = t, files[i].day = files[f].day, i # f
                   PROVE  FALSE
        OBVIOUS
      <4>1. i < f \/ f < i
        BY <2>2, <3>1
      <4>2. files[i].day < files[f].day \/ files[f].day < files[i].day
        BY <2>5, <3>1, <4>1 DEF Names
      <4> QED BY <3>1, <3>a, <4>2
    <3>3. Is(f)
      <4>1. \A j \in 1..(f - 1) : j \in DOMAIN files /\ j # f
        BY <2>2, <3>1
      <4> QED BY <3>1, <3>2, <4>1
    <3>4. \A i \in DOMAIN files : Is(i) => i = f
      BY <3>2
    <3>5. FindFile(t, files[f].day) = CHOOSE i \in DOMAIN files : Is(i)
      BY DEF FindFile
    <3> HIDE DEF Is
    <3> QED BY <3>1, <3>3, <3>4, <3>5
  <2> QED BY <2>9, <2>10, <2>11
<1> QED BY <1>1, Inductive, LogInvariant, DayInvariant, SendInvariant, PTL

-----------------------------------------------------------------------------
(* The rows of a type are a journal: dated rows, as many cuts as there are,  *)
(* and all rows when none is logged without a date.                          *)

\* The saved table has room for the next day's file.
HasRoom == Len(cache) < MaxFiles

IsDated(c) == c.k = "row" /\ c.d # 0
DatedAt(nr, t) == {i \in 0..(Size[t] - 1) : IsDated(nr[t][i])}
DatedRows(nr) == [t \in Types |-> [i \in DatedAt(nr, t) |-> nr[t][i].d]]
DatedJournal == INSTANCE RowJournal WITH journal <- DatedRows(nor)

\* Flash with the same dated rows in the same cells is the same journal.
LEMMA SameRows ==
  ASSUME NEW nr, NEW nr2,
         \A t \in Types : \A i \in 0..(Size[t] - 1) :
           IsDated(nr[t][i]) \/ IsDated(nr2[t][i]) => nr2[t][i] = nr[t][i]
  PROVE  DatedRows(nr2) = DatedRows(nr)
<1>1. ASSUME NEW t \in Types
      PROVE  [i \in DatedAt(nr2, t) |-> nr2[t][i].d] = [i \in DatedAt(nr, t) |-> nr[t][i].d]
  <2>1. DatedAt(nr2, t) = DatedAt(nr, t)
    BY DEF DatedAt
  <2>2. \A i \in DatedAt(nr, t) : nr2[t][i] = nr[t][i]
    BY DEF DatedAt
  <2> QED BY <2>1, <2>2
<1> QED BY <1>1 DEF DatedRows

\* A type that has a file has a newest one.
LEMMA NewestExists ==
  ASSUME NEW fs, NEW n \in Nat, DOMAIN fs = 1..n, NEW t, NEW f \in DOMAIN fs, fs[f].t = t
  PROVE  /\ SlotIn(fs, t) \in NewestIn(fs, t) /\ SlotIn(fs, t) # 0
         /\ SlotIn(fs, t) \in DOMAIN fs /\ fs[SlotIn(fs, t)].t = t
         /\ f = SlotIn(fs, t) \/ f < SlotIn(fs, t)
<1> DEFINE Of == {i \in 1..n : fs[i].t = t}
           T  == {n - i : i \in Of}
<1>1. n - f \in T /\ T \in SUBSET Nat
  OBVIOUS
<1> HIDE DEF T
<1>2. PICK m \in T : \A k \in T : m <= k
  BY <1>1, LeastOf
<1>3. PICK i \in Of : m = n - i
  BY DEF T
<1>4. \A j \in Of : n - j \in T
  BY DEF T
<1>5. ASSUME NEW j \in DOMAIN fs, j > i PROVE fs[j].t # t
  <2> SUFFICES ASSUME fs[j].t = t PROVE FALSE
    OBVIOUS
  <2>1. n - i <= n - j
    BY <1>2, <1>3, <1>4
  <2> QED BY <1>5, <2>1
<1>6. i \in NewestIn(fs, t)
  BY <1>5 DEF NewestIn
<1>7. SlotIn(fs, t) = i /\ i # 0
  BY <1>6, SlotInUnique
<1>8. f = i \/ f < i
  BY <1>5
<1> QED BY <1>6, <1>7, <1>8

\* Every dated row of a type lies before the place of the next write to its
\* region, and is not of a later day.
LEMMA RowsBeforeWrite ==
  ASSUME IInv, LogInv, DayInv, SendInv, HasRoom, HasPending,
         NEW c \in DatedAt(nor, Head(todo).t)
  PROVE  c < Pending.at /\ (day # 0 => nor[Head(todo).t][c].d <= day)
<1> DEFINE h == Head(todo).t
           s == SlotIn(files, h)
<1>0. /\ todo # <<>> /\ h \in Types /\ mode # "off" /\ ~Formatting
      /\ Size[h] \in Nat /\ c \in 0..(Size[h] - 1) /\ nor[h][c].k = "row" /\ nor[h][c].d # 0
  BY WriteBehindEdge DEF DatedAt, IsDated
<1>1. /\ files \in Tables /\ cache \in Tables
      /\ DOMAIN files = 1..Len(files) /\ Len(files) \in Nat
      /\ DOMAIN cache = 1..Len(cache) /\ Len(cache) \in Nat
  BY InsideTables, TableDomain DEF Inside
<1>2. /\ Len(files) = Len(cache) + Opened /\ Opened \in {0, 1}
      /\ \A i \in DOMAIN cache : Alike(cache[i], files[i])
  BY <1>0 DEF LogInv, Saved, Opened
<1>3. \A i \in DOMAIN cache : i \in DOMAIN files
  BY <1>1, <1>2
<1>4. PICK f \in DOMAIN cache : Sends(cache, files, nor, TRUE, f, h, c)
  BY <1>0, StillSent DEF SendInv, Sent, HasRoom
<1>5. f \in DOMAIN files /\ files[f].t = h /\ c \in Payload(files[f])
  BY <1>2, <1>3, <1>4 DEF Sends, Alike
<1>6. s \in NewestIn(files, h) /\ s # 0 /\ s \in DOMAIN files /\ files[s].t = h
      /\ (f = s \/ f < s)
  <2> HIDE DEF h
  <2> QED BY <1>1, <1>5, NewestExists
<1>7. /\ files[f] \in Entry /\ files[s] \in Entry
      /\ files[f].off \in Nat /\ files[f].len \in Nat /\ files[f].day \in Days
      /\ files[s].off \in Nat /\ files[s].len \in Nat /\ files[s].len >= 1
      /\ files[f].active \in BOOLEAN
  <2>1. files[f] \in Entry /\ files[s] \in Entry
    BY <1>1, <1>5, <1>6, TableDomain
  <2>2. files[s].len >= 1
    BY <1>0, <1>6 DEF SendInv, Named, Lengths
  <2> QED BY <2>1, <2>2 DEF Entry
<1>8. Order(files) /\ Dated(files, nor)
  BY <1>0 DEF DayInv, Ordered, Sorted, HasRoom
<1>9. f = s \/ f < s
  BY <1>6
<1>10. f < s => ~files[f].active /\ EndOf(files[f]) <= files[s].off + 1
  BY <1>5, <1>6, <1>8 DEF Order
<1> HIDE DEF h, s
<1>11. /\ c >= files[f].off + 1 /\ c <= EndOf(files[f]) - 1
       /\ ~files[f].active => c <= EndOf(files[f]) - 2
  BY <1>0, <1>5, <1>7 DEF Payload, EndOf
<1>12. /\ c <= EndOf(files[s]) - 1
       /\ ~files[s].active => c <= EndOf(files[s]) - 2
  <2>1. CASE f = s
    BY <1>11, <2>1
  <2>2. CASE f < s
    <3>1. c <= files[s].off - 1
      <4>1. c <= EndOf(files[f]) - 2 /\ EndOf(files[f]) <= files[s].off + 1
        BY <1>10, <1>11, <2>2
      <4>2. c \in Nat /\ EndOf(files[f]) \in Nat /\ files[s].off \in Nat
        BY <1>0, <1>7 DEF EndOf
      <4> QED BY <4>1, <4>2
    <3> QED BY <1>0, <1>7, <3>1 DEF EndOf
  <2> QED BY <1>9, <2>1, <2>2
<1>13. c < Pending.at
  <2>0. EndOf(files[s]) \in Nat
    BY <1>7 DEF EndOf
  <2>1. CASE stage = "header"
    <3>1. Pending.at = off /\ off \in Nat
      BY <2>1, PendingType DEF h
    <3>2. ~files[s].active
      BY <1>6, <2>1 DEF DayInv, OldClosed, h, s
    <3>3. Edge(nor, h) \in {off, off + 1}
      BY <2>1 DEF LogInv, Rotating, h
    <3>4. EndOf(files[s]) <= Edge(nor, h)
      BY <1>0, <1>6 DEF LogInv, Behind, Within
    <3> QED BY <1>0, <1>12, <2>0, <3>1, <3>2, <3>3, <3>4
  <2>2. CASE stage # "header"
    <3>1. Pending.at = EndOf(files[s])
      BY <2>2, PendingType, SlotIs DEF HasPending, Writing, h, s
    <3> QED BY <1>0, <1>12, <2>0, <3>1
  <2> QED BY <2>1, <2>2
<1>14. nor[h][c].d \in {0, files[f].day}
  <2>1. Owns(files, f, c)
    <3>1. ASSUME NEW j \in DOMAIN files, j > f, files[j].t = files[f].t PROVE c < files[j].off
      <4>1. ~files[f].active /\ EndOf(files[f]) <= files[j].off + 1
        <5>1. f < j
          BY <1>1, <1>5, <3>1
        <5> QED BY <1>5, <1>8, <3>1, <5>1 DEF Order
      <4>2. files[j].off \in Nat /\ EndOf(files[f]) \in Nat
        <5>1. files[j] \in Entry
          BY <1>1, TableDomain
        <5> QED BY <1>7, <5>1 DEF Entry, EndOf
      <4> QED BY <1>0, <1>11, <4>1, <4>2
    <3>2. files[f].off <= c
      BY <1>0, <1>7, <1>11
    <3> QED BY <3>1, <3>2 DEF Owns
  <2> QED BY <1>0, <1>5, <1>8, <2>1 DEF Dated
<1>15. day # 0 => nor[h][c].d <= day
  <2>1. nor[h][c].d = files[f].day
    BY <1>0, <1>14
  <2>2. files[f].day <= latest
    BY <1>5 DEF LogInv, Calendar, DaysUpTo
  <2>3. day # 0 => day = latest
    BY <1>0, DayIsLatest
  <2> QED BY <2>1, <2>2, <2>3
<1> QED BY <1>13, <1>15 DEF h

\* Programming some of a write's cells leaves what lies before them, and makes
\* no cell but those it is given.
LEMMA CellsProgrammed ==
  ASSUME IInv, HasPending, NEW c, Len(c) \in Nat,
         nor' = [nor EXCEPT ![Pending.t] = Program(nor[Pending.t], Pending.at, c)],
         NEW t \in Types, NEW i \in 0..(Size[t] - 1)
  PROVE  \/ nor'[t][i] = nor[t][i]
         \/ /\ t = Head(todo).t /\ i >= Pending.at /\ i < Pending.at + Len(c)
            /\ nor'[t][i] \in {Smear, c[i - Pending.at + 1]}
<1> DEFINE h  == Head(todo).t
           at == Pending.at
<1>1. Pending.t = h /\ h \in Types /\ at \in Nat
  BY PendingType
<1>2. DOMAIN nor = Types /\ \A u \in Types : DOMAIN nor[u] = 0..(Size[u] - 1)
  BY Parts DEF NorOK
<1>3. /\ nor'[h] = Program(nor[h], at, c)
      /\ \A u \in Types : u # h => nor'[u] = nor[u]
  BY <1>1, <1>2
<1> HIDE DEF h, at
<1>4. ASSUME t = h
      PROVE  nor'[h][i] = IF i \in at..(at + Len(c) - 1)
                          THEN Overlay(nor[h][i], c[i - at + 1]) ELSE nor[h][i]
  BY <1>1, <1>2, <1>3, <1>4 DEF Program
<1>5. CASE t = h /\ i \in at..(at + Len(c) - 1)
  <2>1. i \in Int /\ i >= at /\ i < at + Len(c)
    BY <1>1, <1>5
  <2> QED BY <1>4, <1>5, <2>1 DEF Overlay, h, at
<1>6. CASE ~(t = h /\ i \in at..(at + Len(c) - 1))
  BY <1>3, <1>4, <1>6
<1> QED BY <1>5, <1>6

\* In particular it changes no dated row.
LEMMA RowsStayProgrammed ==
  ASSUME IInv, LogInv, DayInv, SendInv, HasRoom, HasPending, NEW c, Len(c) \in Nat,
         nor' = [nor EXCEPT ![Pending.t] = Program(nor[Pending.t], Pending.at, c)],
         NEW t \in Types, NEW i \in 0..(Size[t] - 1)
  PROVE  /\ IsDated(nor[t][i]) => nor'[t][i] = nor[t][i]
         /\ \/ nor'[t][i] = nor[t][i]
            \/ /\ t = Head(todo).t /\ i >= Pending.at /\ i < Pending.at + Len(c)
               /\ nor'[t][i] \in {Smear, c[i - Pending.at + 1]}
<1>1. \/ nor'[t][i] = nor[t][i]
      \/ /\ t = Head(todo).t /\ i >= Pending.at /\ i < Pending.at + Len(c)
         /\ nor'[t][i] \in {Smear, c[i - Pending.at + 1]}
  BY CellsProgrammed
<1>2. IsDated(nor[t][i]) /\ t = Head(todo).t => i < Pending.at
  BY RowsBeforeWrite DEF DatedAt
<1>3. Pending.at \in Nat
  BY PendingType
<1> QED BY <1>1, <1>2, <1>3

\* Writing anything but a row leaves the journal as it was.
LEMMA OtherWriteJournal ==
  ASSUME IInv, LogInv, DayInv, SendInv, HasRoom, HasPending, NEW c, Len(c) \in Nat,
         \A i \in 1..Len(c) : c[i].k # "row",
         nor' = [nor EXCEPT ![Pending.t] = Program(nor[Pending.t], Pending.at, c)]
  PROVE  DatedRows(nor') = DatedRows(nor)
<1>1. ASSUME NEW t \in Types, NEW i \in 0..(Size[t] - 1), nor'[t][i] # nor[t][i]
      PROVE  ~IsDated(nor[t][i]) /\ ~IsDated(nor'[t][i])
  <2>1. /\ ~IsDated(nor[t][i]) /\ i >= Pending.at /\ i < Pending.at + Len(c)
        /\ nor'[t][i] \in {Smear, c[i - Pending.at + 1]}
    BY <1>1, RowsStayProgrammed
  <2>2. i - Pending.at + 1 \in 1..Len(c)
    BY <2>1, PendingType
  <2> QED BY <2>1, <2>2 DEF IsDated, Smear
<1> QED BY <1>1, SameRows

\* The journal of a type with one more row at the end.
Extended(j, t, p, d) ==
  [j EXCEPT ![t] = [q \in DOMAIN j[t] \union {p} |-> IF q = p THEN d ELSE j[t][q]]]

\* A row that is written joins the journal, at its last cell; what it meets of a
\* torn header may spoil it.
LEMMA RowWriteJournal ==
  ASSUME IInv, LogInv, DayInv, SendInv, HasRoom, Doing("row"), Slot(Head(todo).t) # 0, Allowed
  PROVE  \/ DatedRows(nor') = DatedRows(nor)
         \/ /\ day # 0
            /\ \E p \in 0..(Size[Head(todo).t] - 1) :
                 /\ \A q \in DatedAt(nor, Head(todo).t) : q < p /\ nor[Head(todo).t][q].d <= day
                 /\ DatedRows(nor') = Extended(DatedRows(nor), Head(todo).t, p, day)
<1> DEFINE h  == Head(todo).t
           at == Pending.at
           c  == Pending.cells
           n  == Len(c)
           p  == at + n - 1
<1>0. /\ HasPending /\ h \in Types /\ Pending.t = h /\ at \in Nat /\ c \in Seq(Cell)
      /\ n \in Nat /\ Size[h] \in Nat /\ todo # <<>> /\ todo \in Seq(Tasks)
  BY WriteBehindEdge, PendingType, LenProperties DEF HasPending
<1>1. /\ nor' = [nor EXCEPT ![Pending.t] = Program(nor[Pending.t], at, c)]
      /\ at + n <= Size[h]
  BY <1>0 DEF Allowed, GuardAllows, Fits
<1>2. ASSUME NEW i \in 1..n, c[i].k = "row" PROVE i = n /\ c[i].d = day
  BY <1>0, <1>2, PendingCells
<1>3. \A q \in DatedAt(nor, h) : q < at /\ (day # 0 => nor[h][q].d <= day)
  BY <1>0, RowsBeforeWrite
<1>4. \A t \in Types : \A i \in 0..(Size[t] - 1) :
        /\ IsDated(nor[t][i]) => nor'[t][i] = nor[t][i]
        /\ \/ nor'[t][i] = nor[t][i]
           \/ /\ t = h /\ i >= at /\ i < at + n
              /\ nor'[t][i] \in {Smear, c[i - at + 1]}
  BY <1>0, <1>1, RowsStayProgrammed
<1> HIDE DEF h, at, c, n
<1>5. ASSUME NEW t \in Types, NEW i \in 0..(Size[t] - 1), nor'[t][i] # nor[t][i], IsDated(nor'[t][i])
      PROVE  t = h /\ i = p /\ nor'[t][i].d = day /\ n >= 1
  <2>1. t = h /\ i >= at /\ i < at + n /\ nor'[t][i] \in {Smear, c[i - at + 1]}
    BY <1>4, <1>5
  <2>2. i - at + 1 \in 1..n
    BY <1>0, <2>1
  <2>3. nor'[t][i] = c[i - at + 1] /\ c[i - at + 1].k = "row"
    BY <1>5, <2>1 DEF IsDated, Smear
  <2>4. i - at + 1 = n /\ c[i - at + 1].d = day
    BY <1>2, <2>2, <2>3
  <2>5. i = p /\ n >= 1
    BY <1>0, <2>2, <2>4
  <2> QED BY <2>1, <2>3, <2>4, <2>5
<1>6. CASE \A t \in Types : \A i \in 0..(Size[t] - 1) : nor'[t][i] # nor[t][i] => ~IsDated(nor'[t][i])
  BY <1>4, <1>6, SameRows
<1>7. CASE \E t \in Types : \E i \in 0..(Size[t] - 1) : nor'[t][i] # nor[t][i] /\ IsDated(nor'[t][i])
  <2>1. /\ p \in 0..(Size[h] - 1) /\ nor'[h][p] # nor[h][p] /\ IsDated(nor'[h][p])
        /\ nor'[h][p].d = day /\ n >= 1
    BY <1>5, <1>7
  <2>2. day # 0
    BY <2>1 DEF IsDated
  <2>3. p >= at
    BY <1>0, <2>1
  <2>4. \A q \in DatedAt(nor, h) : q < p /\ nor[h][q].d <= day
    <3> SUFFICES ASSUME NEW q \in DatedAt(nor, h) PROVE q < p /\ nor[h][q].d <= day
      OBVIOUS
    <3>1. q < at /\ q \in Nat /\ nor[h][q].d <= day
      BY <1>0, <1>3, <2>2 DEF DatedAt
    <3> QED BY <1>0, <2>1, <2>3, <3>1
  <2> HIDE DEF p
  <2>5. ASSUME NEW t \in Types, t # h
        PROVE  [i \in DatedAt(nor', t) |-> nor'[t][i].d] = [i \in DatedAt(nor, t) |-> nor[t][i].d]
    <3>1. \A i \in 0..(Size[t] - 1) : IsDated(nor[t][i]) \/ IsDated(nor'[t][i]) => nor'[t][i] = nor[t][i]
      BY <1>4, <2>5
    <3>2. DatedAt(nor', t) = DatedAt(nor, t)
      BY <3>1 DEF DatedAt
    <3>3. \A i \in DatedAt(nor, t) : nor'[t][i] = nor[t][i]
      BY <3>1 DEF DatedAt
    <3> QED BY <3>2, <3>3
  <2>6. [i \in DatedAt(nor', h) |-> nor'[h][i].d]
          = [q \in DatedAt(nor, h) \union {p} |-> IF q = p THEN day ELSE nor[h][q].d]
    <3>1. \A i \in 0..(Size[h] - 1) : i # p /\ (IsDated(nor[h][i]) \/ IsDated(nor'[h][i])) => nor'[h][i] = nor[h][i]
      BY <1>0, <1>4, <1>5
    <3>2. DatedAt(nor', h) = DatedAt(nor, h) \union {p}
      BY <2>1, <3>1 DEF DatedAt
    <3>3. \A i \in DatedAt(nor, h) : i # p => nor'[h][i] = nor[h][i]
      BY <3>1 DEF DatedAt
    <3> QED BY <2>1, <3>2, <3>3
  <2>7. DatedRows(nor') = Extended(DatedRows(nor), h, p, day)
    <3> DEFINE j == DatedRows(nor)
    <3>1. j = [t \in Types |-> [i \in DatedAt(nor, t) |-> nor[t][i].d]]
      BY DEF DatedRows
    <3>2. /\ DOMAIN j = Types /\ DOMAIN j[h] = DatedAt(nor, h)
          /\ \A q \in DatedAt(nor, h) : j[h][q] = nor[h][q].d
      BY <1>0, <3>1
    <3>3. DatedRows(nor') = [t \in Types |-> [i \in DatedAt(nor', t) |-> nor'[t][i].d]]
      BY DEF DatedRows
    <3>4. \A t \in Types : DatedRows(nor')[t] = [i \in DatedAt(nor', t) |-> nor'[t][i].d]
      BY <3>3
    <3> HIDE DEF j
    <3>5. [q \in DOMAIN j[h] \union {p} |-> IF q = p THEN day ELSE j[h][q]]
            = [q \in DatedAt(nor, h) \union {p} |-> IF q = p THEN day ELSE nor[h][q].d]
      BY <3>2
    <3>6. Extended(j, h, p, day) =
            [t \in Types |-> IF t = h
                             THEN [q \in DatedAt(nor, h) \union {p} |-> IF q = p THEN day ELSE nor[h][q].d]
                             ELSE j[t]]
      BY <3>2, <3>5 DEF Extended
    <3>7. ASSUME NEW t \in Types PROVE DatedRows(nor')[t] = Extended(j, h, p, day)[t]
      <4>1. CASE t = h
        <5> DEFINE more == [q \in DatedAt(nor, h) \union {p} |-> IF q = p THEN day ELSE nor[h][q].d]
        <5>1. Extended(j, h, p, day) = [u \in Types |-> IF u = h THEN more ELSE j[u]]
          BY <3>6
        <5>2. [i \in DatedAt(nor', h) |-> nor'[h][i].d] = more
          BY <2>6
        <5> HIDE DEF more
        <5>3. Extended(j, h, p, day)[h] = more
          BY <1>0, <5>1
        <5>4. DatedRows(nor')[h] = more
          BY <1>0, <3>4, <5>2, Zenon
        <5> QED BY <4>1, <5>3, <5>4
      <4>2. CASE t # h
        <5>1. Extended(j, h, p, day)[t] = j[t]
          BY <3>6, <4>2
        <5>2. j[t] = [i \in DatedAt(nor, t) |-> nor[t][i].d]
          BY <3>1
        <5> QED BY <2>5, <3>4, <4>2, <5>1, <5>2
      <4> QED BY <4>1, <4>2
    <3>8. /\ DatedRows(nor') = [t \in Types |-> DatedRows(nor')[t]]
          /\ Extended(j, h, p, day) = [t \in Types |-> Extended(j, h, p, day)[t]]
      BY <3>3, <3>6
    <3> QED BY <3>7, <3>8 DEF j
  <2> QED BY <2>1, <2>2, <2>4, <2>7 DEF h
<1> QED BY <1>6, <1>7

-----------------------------------------------------------------------------
(* Every step is a step of the journal, or leaves it. *)

\* RowJournal's Next, from one journal to another.
Moves(j, k) ==
  \E t \in Types :
    \/ k = [j EXCEPT ![t] = [p \in {} |-> 0]]
    \/ \E p \in Offsets, d \in 0..MaxDay :
         /\ \A q \in DOMAIN j[t] : q < p /\ (d # 0 => j[t][q] <= d)
         /\ k = Extended(j, t, p, d)

LEMMA JournalNext == DatedJournal!Next <=> Moves(DatedRows(nor), DatedRows(nor'))
BY DEF DatedJournal!Next, DatedJournal!EraseAll, DatedJournal!AppendRow, DatedJournal!NoRows,
       Extended, Moves

LEMMA JournalInit == Init => DatedJournal!Init
<1> SUFFICES ASSUME Init PROVE DatedRows(nor) = [t \in Types |-> [p \in {} |-> 0]]
  BY DEF DatedJournal!Init, DatedJournal!NoRows
<1>1. ASSUME NEW t \in Types PROVE DatedAt(nor, t) = {}
  BY DEF Init, Blank, DatedAt, IsDated
<1>2. ASSUME NEW t \in Types PROVE [i \in DatedAt(nor, t) |-> nor[t][i].d] = [p \in {} |-> 0]
  BY <1>1
<1> QED BY <1>2 DEF DatedRows

\* Erasing a region erases its journal.
LEMMA EraseJournal ==
  ASSUME IInv, EraseRegion PROVE DatedJournal!Next
<1> DEFINE h == Head(todo).t
<1>1. todo # <<>> /\ todo \in Seq(Tasks) /\ h \in Types
  BY HeadTask, Parts DEF OpOK, EraseRegion, Doing, Idle
<1>2. DOMAIN nor = Types /\ DOMAIN nor[h] = 0..(Size[h] - 1) /\ Size[h] \in Nat
  BY <1>1, Parts, SizeAssumption DEF NorOK
<1>3. nor' = [nor EXCEPT ![h] = EraseCells(nor[h], Size[h])]
  BY DEF EraseRegion
<1> HIDE DEF h
<1>4. \A i \in 0..(Size[h] - 1) : nor'[h][i] = Blank
  BY <1>1, <1>2, <1>3 DEF EraseCells
<1>5. DatedAt(nor', h) = {}
  BY <1>4 DEF DatedAt, IsDated, Blank
<1>6. \A t \in Types : t # h => nor'[t] = nor[t]
  BY <1>2, <1>3
<1>7. [i \in DatedAt(nor', h) |-> nor'[h][i].d] = [p \in {} |-> 0]
  BY <1>5
<1>8. ASSUME NEW t \in Types, t # h
      PROVE  [i \in DatedAt(nor', t) |-> nor'[t][i].d] = [i \in DatedAt(nor, t) |-> nor[t][i].d]
  BY <1>6, <1>8 DEF DatedAt
<1>9. DatedRows(nor') = [DatedRows(nor) EXCEPT ![h] = [p \in {} |-> 0]]
  <2> DEFINE j == DatedRows(nor)
  <2>1. j = [t \in Types |-> [i \in DatedAt(nor, t) |-> nor[t][i].d]]
    BY DEF DatedRows
  <2>2. \A t \in Types : j[t] = [i \in DatedAt(nor, t) |-> nor[t][i].d]
    BY <2>1
  <2>3. DatedRows(nor') = [t \in Types |-> [i \in DatedAt(nor', t) |-> nor'[t][i].d]]
    BY DEF DatedRows
  <2>a. DOMAIN j = Types
    BY <2>1
  <2> HIDE DEF j
  <2>4. [j EXCEPT ![h] = [p \in {} |-> 0]] = [t \in Types |-> IF t = h THEN [p \in {} |-> 0] ELSE j[t]]
    BY <2>a
  <2>5. ASSUME NEW t \in Types
        PROVE  [i \in DatedAt(nor', t) |-> nor'[t][i].d] = IF t = h THEN [p \in {} |-> 0] ELSE j[t]
    BY <1>7, <1>8, <2>2
  <2>6. DatedRows(nor') = [t \in Types |-> IF t = h THEN [p \in {} |-> 0] ELSE j[t]]
    BY <2>3, <2>5, Zenon
  <2> QED BY <2>4, <2>6 DEF j
<1> QED BY <1>1, <1>9, JournalNext DEF Moves

\* A row that is added is added to the journal.
LEMMA AppendJournal ==
  ASSUME IInv, LogInv, DayInv, SendInv, HasRoom, AppendRow
  PROVE  DatedJournal!Next \/ DatedRows(nor') = DatedRows(nor)
<1> DEFINE h == Head(todo).t
           j == DatedRows(nor)
<1>0. Doing("row") /\ todo # <<>> /\ h \in Types /\ day \in 0..MaxDay
  BY HeadTask, Parts DEF OpOK, AppendRow, Doing, Idle
<1>1. CASE nor' = nor
  BY <1>1
<1>2. CASE Slot(h) # 0 /\ Allowed
  <2>1. CASE DatedRows(nor') = DatedRows(nor)
    BY <2>1
  <2>2. CASE \E p \in 0..(Size[h] - 1) :
                 /\ \A q \in DatedAt(nor, h) : q < p /\ nor[h][q].d <= day
                 /\ DatedRows(nor') = Extended(j, h, p, day)
    <3>1. PICK p \in 0..(Size[h] - 1) :
                 /\ \A q \in DatedAt(nor, h) : q < p /\ nor[h][q].d <= day
                 /\ DatedRows(nor') = Extended(j, h, p, day)
      BY <2>2
    <3>2. p \in Offsets
      BY <1>0 DEF Offsets
    <3>3. DOMAIN j[h] = DatedAt(nor, h) /\ \A q \in DatedAt(nor, h) : j[h][q] = nor[h][q].d
      BY <1>0 DEF DatedRows
    <3> HIDE DEF j, h
    <3>4. \A q \in DOMAIN j[h] : q < p /\ (day # 0 => j[h][q] <= day)
      BY <3>1, <3>3
    <3>5. \E t \in Types : \E q \in Offsets, d \in 0..MaxDay :
            /\ \A r \in DOMAIN j[t] : r < q /\ (d # 0 => j[t][r] <= d)
            /\ DatedRows(nor') = Extended(j, t, q, d)
      BY <1>0, <3>1, <3>2, <3>4
    <3> QED BY <3>5, JournalNext DEF j, Moves
  <2> QED BY <1>0, <1>2, <2>1, <2>2, RowWriteJournal
<1> QED BY <1>1, <1>2 DEF AppendRow, Refused, GuardRefuses, flashVars

\* A rotation and what interrupts it leave the journal as it was.
LEMMA EnsureJournal ==
  ASSUME IInv, LogInv, DayInv, SendInv, HasRoom, EnsureStep
  PROVE  DatedRows(nor') = DatedRows(nor)
<1>1. CASE nor' = nor
  BY <1>1
<1>2. CASE (Writing("close") \/ Writing("header") \/ Writing("daystart")) /\ Allowed
  <2>1. HasPending /\ ~Doing("row")
    BY <1>2 DEF HasPending, Writing, Doing
  <2>2. Pending.cells \in Seq(Cell) /\ Len(Pending.cells) \in Nat
    BY <2>1, PendingType, LenProperties
  <2>3. \A i \in 1..Len(Pending.cells) : Pending.cells[i].k # "row"
    BY <2>1, PendingCells
  <2>4. nor' = [nor EXCEPT ![Pending.t] = Program(nor[Pending.t], Pending.at, Pending.cells)]
    BY <1>2 DEF Allowed, GuardAllows
  <2> QED BY <2>1, <2>2, <2>3, <2>4, OtherWriteJournal
<1> QED BY <1>1, <1>2
        DEF EnsureStep, EnsureReturns, EnsureLatches, EnsureBegins, CloseOld, WriteHeader,
            WriteDayStart, SaveCache, Refused, GuardRefuses, flashVars

LEMMA CutJournal ==
  ASSUME Calm, IInv, LogInv, DayInv, SendInv, HasRoom, PowerCut
  PROVE  DatedRows(nor') = DatedRows(nor)
<1>1. ~Formatting /\ nor' \in CutFlashes
  BY DEF PowerCut, Calm
<1>2. ~Doing("erase")
  <2> SUFFICES ASSUME Doing("erase") PROVE FALSE
    OBVIOUS
  <2>1. todo # <<>> /\ todo \in Seq(Tasks)
    BY Parts DEF OpOK, Doing, Idle
  <2>2. 1 \in DOMAIN todo /\ todo[1].do = "erase"
    BY <2>1, TailTasks DEF Doing
  <2> QED BY <1>1, <2>2 DEF Formatting
<1>3. CASE nor' = nor
  BY <1>3
<1>4. CASE nor' # nor
  <2>1. HasPending /\ Programming
    BY <1>1, <1>2, <1>4 DEF CutFlashes, Programming
  <2>2. PICK c \in Torn(Pending.cells) :
          nor' = [nor EXCEPT ![Pending.t] = Program(nor[Pending.t], Pending.at, c)]
    BY <1>1, <1>2, <1>4 DEF CutFlashes
  <2>3. /\ Len(c) \in Nat /\ Len(c) <= Len(Pending.cells) /\ Len(Pending.cells) \in Nat
        /\ \A i \in 1..Len(c) : c[i] = Part \/ (i < Len(Pending.cells) /\ c[i] = Pending.cells[i])
    BY <2>1, PendingType, TornCells, LenProperties
  <2>4. ASSUME NEW i \in 1..Len(c) PROVE c[i].k # "row"
    <3>1. CASE c[i] = Part
      BY <3>1 DEF Part
    <3>2. CASE i < Len(Pending.cells) /\ c[i] = Pending.cells[i]
      <4>1. i \in 1..Len(Pending.cells)
        BY <2>3, <3>2
      <4>2. Pending.cells[i].k = "row" => i = Len(Pending.cells)
        BY <2>1, <4>1, PendingCells
      <4> QED BY <2>3, <3>2, <4>2
    <3> QED BY <2>3, <3>1, <3>2
  <2> QED BY <2>1, <2>2, <2>3, <2>4, OtherWriteJournal
<1> QED BY <1>3, <1>4

LEMMA JournalStep ==
  ASSUME Calm, IInv, LogInv, DayInv, SendInv, HasRoom, [Next]_vars
  PROVE  DatedJournal!Next \/ DatedRows(nor') = DatedRows(nor)
<1>1. CASE EnsureStep
  BY <1>1, EnsureJournal
<1>2. CASE AppendRow
  BY <1>2, AppendJournal
<1>3. CASE EraseRegion
  BY <1>3, EraseJournal
<1>4. CASE PowerCut
  BY <1>4, CutJournal
<1>5. CASE nor' = nor
  BY <1>5
<1>6. ~WriteFails
  BY DEF Calm, WriteFails
<1>7. RecordCalendarDay \/ ClearTables \/ FaultIndication \/ SaveFails \/ StartFormat \/ LoseCache
        \/ UNCHANGED vars => nor' = nor
  BY DEF RecordCalendarDay, ClearTables, FaultIndication, SaveFails, StartFormat, LoseCache,
         Calls, vars, flashVars
<1>8. Boot => nor' = nor
  BY DEF Boot, BootFromCache, BootByScan, BootFormats, Booting
<1>9. (\E t \in Types, n \in RowSizes : StartAppend(t, n)) \/ (\E t \in Types, d \in Days : FlushDraft(t, d))
        \/ (\E d \in Days : SetClock(d)) => nor' = nor
  BY DEF StartAppend, FlushDraft, SetClock, Calls, flashVars
<1> QED BY <1>1, <1>2, <1>3, <1>4, <1>5, <1>6, <1>7, <1>8, <1>9 DEF Next, Step

\* The dated rows of each type are an append-only journal in calendar order,
\* emptied only as a whole by clearMemory, whatever cuts and boots come between
\* and whether or not rows without a date are logged, as long as the table has
\* room for the next file: ensure_file, guarded_flash_append and the boot's
\* reconciling (juxta_log.c) neither drop, change, move nor reorder one.
THEOREM DatedRowsAreJournal ==
  ASSUME Calm PROVE Spec /\ []HasRoom => DatedJournal!Spec
<1>1. Init => DatedJournal!Init
  BY JournalInit
<1>2. IInv /\ LogInv /\ DayInv /\ SendInv /\ HasRoom /\ [Next]_vars
        => [DatedJournal!Next]_(DatedRows(nor))
  BY JournalStep
<1> QED BY <1>1, <1>2, Inductive, LogInvariant, DayInvariant, SendInvariant, PTL
        DEF Spec, DatedJournal!Spec

-----------------------------------------------------------------------------
(* When the environment logs no row without a date, all rows are dated. *)

Stamped ==
  /\ \A t \in Types : \A i \in 0..(Size[t] - 1) : nor[t][i].k = "row" => nor[t][i].d # 0
  /\ \A i \in DOMAIN todo : todo[i].do = "row" => day # 0

\* Flash in which every row was there or is of a day.
NewRowsDated(nr, nr2) ==
  \A t \in Types : \A i \in 0..(Size[t] - 1) :
    nr2[t][i] = nr[t][i] \/ (nr2[t][i].k = "row" => nr2[t][i].d # 0)

LEMMA CellsStamped ==
  ASSUME IInv, Stamped, HasPending, NEW c, Len(c) \in Nat,
         \A i \in 1..Len(c) : c[i].k = "row" => Doing("row") /\ c[i].d = day,
         nor' = [nor EXCEPT ![Pending.t] = Program(nor[Pending.t], Pending.at, c)]
  PROVE  NewRowsDated(nor, nor')
<1>1. Doing("row") => day # 0
  <2>1. Doing("row") => todo \in Seq(Tasks) /\ todo # <<>>
    BY Parts DEF OpOK, Doing, Idle
  <2>2. Doing("row") => 1 \in DOMAIN todo /\ todo[1].do = "row"
    BY <2>1, TailTasks DEF Doing
  <2> QED BY <2>2 DEF Stamped
<1>2. ASSUME NEW t \in Types, NEW i \in 0..(Size[t] - 1), nor'[t][i] # nor[t][i], nor'[t][i].k = "row"
      PROVE  nor'[t][i].d # 0
  <2>1. /\ i >= Pending.at /\ i < Pending.at + Len(c)
        /\ nor'[t][i] \in {Smear, c[i - Pending.at + 1]}
    BY <1>2, CellsProgrammed
  <2>2. i - Pending.at + 1 \in 1..Len(c)
    BY <2>1, PendingType
  <2>3. nor'[t][i] = c[i - Pending.at + 1]
    BY <1>2, <2>1 DEF Smear
  <2> QED BY <1>1, <1>2, <2>2, <2>3
<1> QED BY <1>2 DEF NewRowsDated

LEMMA AllowedStamped ==
  ASSUME IInv, Stamped, HasPending, Allowed PROVE NewRowsDated(nor, nor')
<1>1. Pending.cells \in Seq(Cell) /\ Len(Pending.cells) \in Nat
  BY PendingType, LenProperties
<1>2. \A i \in 1..Len(Pending.cells) : Pending.cells[i].k = "row" => Doing("row") /\ Pending.cells[i].d = day
  BY PendingCells
<1>3. nor' = [nor EXCEPT ![Pending.t] = Program(nor[Pending.t], Pending.at, Pending.cells)]
  BY DEF Allowed, GuardAllows
<1> QED BY <1>1, <1>2, <1>3, CellsStamped

LEMMA EraseStamped ==
  ASSUME IInv, EraseRegion PROVE NewRowsDated(nor, nor')
<1> DEFINE h == Head(todo).t
<1>1. todo # <<>> /\ todo \in Seq(Tasks) /\ h \in Types
  BY HeadTask, Parts DEF OpOK, EraseRegion, Doing, Idle
<1>2. DOMAIN nor = Types /\ \A t \in Types : DOMAIN nor[t] = 0..(Size[t] - 1)
  BY Parts DEF NorOK
<1>3. nor' = [nor EXCEPT ![h] = EraseCells(nor[h], Size[h])]
  BY DEF EraseRegion
<1> HIDE DEF h
<1>4. \A i \in 0..(Size[h] - 1) : nor'[h][i] = Blank \/ nor'[h][i] = nor[h][i]
  BY <1>1, <1>2, <1>3 DEF EraseCells
<1>5. \A t \in Types : t # h => nor'[t] = nor[t]
  BY <1>2, <1>3
<1> QED BY <1>4, <1>5 DEF NewRowsDated, Blank

LEMMA CutStamped ==
  ASSUME Calm, IInv, LogInv, PowerCut PROVE NewRowsDated(nor, nor')
BY CutWrites DEF NewRowsDated

\* What is left of an agenda has no row the agenda had not.
LEMMA TailRows ==
  ASSUME IInv, Stamped, TaskDone, todo # <<>>
  PROVE  \A i \in DOMAIN todo' : todo'[i].do = "row" => day' # 0
<1>1. /\ Len(todo) \in Nat \ {0} /\ DOMAIN todo = 1..Len(todo)
      /\ DOMAIN Tail(todo) = 1..(Len(todo) - 1)
      /\ \A i \in 1..(Len(todo) - 1) : Tail(todo)[i] = todo[i + 1]
  BY TailTasks, Parts DEF OpOK
<1>2. todo' = Tail(todo) /\ day' = day
  BY DEF TaskDone
<1>3. ASSUME NEW i \in DOMAIN todo', todo'[i].do = "row" PROVE day' # 0
  <2>1. i \in 1..(Len(todo) - 1) /\ i + 1 \in DOMAIN todo /\ todo'[i] = todo[i + 1]
    BY <1>1, <1>2
  <2> QED BY <1>2, <1>3, <2>1 DEF Stamped
<1> QED BY <1>3

LEMMA StampedOn ==
  ASSUME Stamped, NewRowsDated(nor, nor'), \A i \in DOMAIN todo' : todo'[i].do = "row" => day' # 0
  PROVE  Stamped'
BY DEF Stamped, NewRowsDated

LEMMA FormatNoRows == \A i \in DOMAIN FormatAll : FormatAll[i].do # "row"
BY FormatAgenda, TaskKinds

LEMMA StepStamped ==
  ASSUME IInv, LogInv, Stamped, Step PROVE Stamped'
<1>1. todo # <<>>
  BY DEF Step, EnsureStep, EnsureReturns, EnsureLatches, EnsureBegins, CloseOld, WriteHeader,
         WriteDayStart, SaveCache, AppendRow, RecordCalendarDay, EraseRegion, ClearTables,
         Deciding, Writing, Doing, Idle
<1>2. NewRowsDated(nor, nor')
  <2>1. CASE nor' = nor
    BY <2>1 DEF NewRowsDated
  <2>2. CASE HasPending /\ Allowed
    BY <2>2, AllowedStamped
  <2>3. CASE EraseRegion
    BY <2>3, EraseStamped
  <2>4. CASE EnsureStep \/ AppendRow
    BY <2>1, <2>2, <2>4
       DEF EnsureStep, EnsureReturns, EnsureLatches, EnsureBegins, CloseOld, WriteHeader,
           WriteDayStart, SaveCache, AppendRow, HasPending, Refused, GuardRefuses, flashVars
  <2>5. CASE RecordCalendarDay \/ ClearTables
    BY <2>1, <2>5 DEF RecordCalendarDay, ClearTables, flashVars
  <2> QED BY <2>3, <2>4, <2>5 DEF Step
<1>3. TaskDone \/ (todo' = todo /\ day' = day) \/ todo' = <<>>
  BY DEF Step, EnsureStep, EnsureReturns, EnsureLatches, EnsureBegins, CloseOld, WriteHeader,
         WriteDayStart, SaveCache, AppendRow, RecordCalendarDay, EraseRegion, ClearTables, CallFails
<1>4. \A i \in DOMAIN todo' : todo'[i].do = "row" => day' # 0
  <2>1. CASE TaskDone
    BY <1>1, <2>1, TailRows
  <2>2. CASE todo' = todo /\ day' = day
    BY <2>2 DEF Stamped
  <2>3. CASE todo' = <<>>
    BY <2>3, NoAgenda
  <2> QED BY <1>3, <2>1, <2>2, <2>3
<1> QED BY <1>2, <1>4, StampedOn

LEMMA NextStamped ==
  ASSUME Env = {}, IInv, LogInv, Stamped, [Next]_vars PROVE Stamped'
<1>0. Calm
  BY DEF Calm
<1>1. CASE Step
  BY <1>1, StepStamped
<1>2. CASE PowerCut
  <2>1. NewRowsDated(nor, nor')
    BY <1>0, <1>2, CutStamped
  <2>2. todo' = <<>>
    BY <1>2 DEF PowerCut
  <2> QED BY <2>1, <2>2, NoAgenda, StampedOn
<1>3. CASE nor' = nor /\ \A i \in DOMAIN todo' : todo'[i].do = "row" => day' # 0
  <2>1. NewRowsDated(nor, nor')
    BY <1>3 DEF NewRowsDated
  <2> QED BY <1>3, <2>1, StampedOn
<1>4. CASE FaultIndication \/ UNCHANGED vars \/ \E d \in Days : SetClock(d)
  <2>1. nor' = nor /\ todo' = todo /\ day' = day
    BY <1>4 DEF FaultIndication, SetClock, vars, flashVars, opVars
  <2> QED BY <1>3, <2>1 DEF Stamped
<1>5. CASE Boot
  <2>1. PICK d \in 0..MaxDay : BootFromCache(d) \/ BootByScan(d) \/ BootFormats(d)
    BY <1>5 DEF Boot
  <2>2. nor' = nor /\ day' = d /\ (todo' = InitAgenda(d) \/ todo' = FormatAll)
    BY <2>1 DEF BootFromCache, BootByScan, BootFormats, Booting, Call
  <2>3. d = 0 => \A i \in DOMAIN InitAgenda(d) : FALSE
    BY NoAgenda DEF InitAgenda
  <2>4. \A i \in DOMAIN todo' : todo'[i].do = "row" => day' # 0
    BY <2>2, <2>3, FormatNoRows
  <2> QED BY <1>3, <2>2, <2>4
<1>6. CASE \E t \in Types, n \in RowSizes : StartAppend(t, n)
  <2>1. nor' = nor /\ day' = clock /\ clock # 0
    BY <1>6 DEF StartAppend, Calls, Call, flashVars
  <2> QED BY <1>3, <2>1
<1>7. CASE StartFormat
  <2>1. nor' = nor /\ todo' = FormatAll
    BY <1>7 DEF StartFormat, Calls, Call, flashVars
  <2> QED BY <1>3, <2>1, FormatNoRows
<1>8. ~WriteFails /\ ~SaveFails /\ ~LoseCache /\ ~(\E t \in Types, d \in Days : FlushDraft(t, d))
  BY DEF WriteFails, SaveFails, SaveGoesWrong, LoseCache, FlushDraft
<1> QED BY <1>1, <1>2, <1>4, <1>5, <1>6, <1>7, <1>8 DEF Next

LEMMA InitStamped == Init => Stamped
BY NoAgenda DEF Init, Stamped, Blank

LEMMA StampedJournal ==
  Stamped => [t \in Types |-> JournalOf(t)] = DatedRows(nor)
<1> SUFFICES ASSUME Stamped PROVE [t \in Types |-> JournalOf(t)] = DatedRows(nor)
  OBVIOUS
<1>1. ASSUME NEW t \in Types PROVE JournalOf(t) = [i \in DatedAt(nor, t) |-> nor[t][i].d]
  <2>1. {i \in 0..(Size[t] - 1) : IsRow(t, i)} = DatedAt(nor, t)
    BY DEF Stamped, IsRow, DatedAt, IsDated
  <2> QED BY <2>1 DEF JournalOf
<1> QED BY <1>1 DEF DatedRows

LEMMA StampedJournalPrimed ==
  Stamped' => [t \in Types |-> JournalOf(t)'] = DatedRows(nor')
<1> SUFFICES ASSUME Stamped' PROVE [t \in Types |-> JournalOf(t)'] = DatedRows(nor')
  OBVIOUS
<1>1. ASSUME NEW t \in Types PROVE JournalOf(t)' = [i \in DatedAt(nor', t) |-> nor'[t][i].d]
  <2>1. {i \in 0..(Size[t] - 1) : IsRow(t, i)'} = DatedAt(nor', t)
    BY DEF Stamped, IsRow, DatedAt, IsDated
  <2> QED BY <2>1 DEF JournalOf
<1> QED BY <1>1 DEF DatedRows

\* The log implements RowJournal: with every row dated, each type's rows in flash
\* are an append-only journal in calendar order that only clearMemory empties,
\* through rotations, power cuts and boots (juxta_log.c), while the table of
\* files has room.
THEOREM JournalImplemented ==
  ASSUME Env = {} PROVE Spec /\ []HasRoom => ImplementsJournal
<1> DEFINE J == [t \in Types |-> JournalOf(t)]
<1>0. Calm
  BY DEF Calm
<1>1. Init => Stamped
  BY InitStamped
<1>2. IInv /\ LogInv /\ Stamped /\ [Next]_vars => Stamped'
  BY NextStamped
<1>3. Stamped /\ DatedJournal!Init => Journal!Init
  BY StampedJournal DEF DatedJournal!Init, Journal!Init, DatedJournal!NoRows, Journal!NoRows
<1>4. Stamped /\ Stamped' /\ [DatedJournal!Next]_(DatedRows(nor)) => [Journal!Next]_J
  <2> SUFFICES ASSUME Stamped, Stamped', [DatedJournal!Next]_(DatedRows(nor)) PROVE [Journal!Next]_J
    OBVIOUS
  <2>1. J = DatedRows(nor) /\ J' = DatedRows(nor')
    BY StampedJournal, StampedJournalPrimed
  <2>2. DatedJournal!Next <=> Moves(DatedRows(nor), DatedRows(nor'))
    BY JournalNext
  <2>3. Journal!Next <=> Moves(J, J')
    BY DEF Journal!Next, Journal!EraseAll, Journal!AppendRow, Journal!NoRows, Moves, Extended
  <2> HIDE DEF J
  <2> QED BY <2>1, <2>2, <2>3, Zenon
<1>5. Spec /\ []HasRoom => DatedJournal!Spec
  BY <1>0, DatedRowsAreJournal
<1>6. Spec => []LogInv
  BY <1>0, LogInvariant
<1> QED BY <1>1, <1>2, <1>3, <1>4, <1>5, <1>6, Inductive, PTL
        DEF Spec, DatedJournal!Spec, ImplementsJournal, Journal!Spec

-----------------------------------------------------------------------------
(* What a remembered day stands for, in any environment. *)

\* Type t has a file for day d, or had no room for one.
Has(fs, fl, t, d) ==
  \/ fl[t] \/ Len(fs) >= MaxFiles
  \/ \E i \in DOMAIN fs : fs[i].t = t /\ fs[i].day = d

\* A day is recorded by an agenda that has seen to each type, or will have.
Recording ==
  \A i \in DOMAIN todo : todo[i].do = "ymd" =>
    /\ day # 0 /\ ~Wipes(todo)
    /\ \A t \in Types : \/ Has(files, full, t, day)
                        \/ \E j \in 1..(i - 1) : todo[j] = Ensure(t)

TouchInv ==
  /\ mode = "off" => ymd = 0
  /\ ymd # 0 => \A t \in Types : Has(files, full, t, ymd)
  /\ Recording
  /\ stage \in {"daystart", "save"} => Has(files, full, Head(todo).t, day)

\* No type loses the file it has, or the flag that says it can have none.
Kept == \A t \in Types, d \in Days : Has(files, full, t, d) => Has(files', full', t, d)

LEMMA KeptTables ==
  ASSUME files \in Tables, files' \in Tables, Len(files) <= Len(files'),
         \A t \in Types : full[t] => full'[t],
         \A i \in DOMAIN files : i \in DOMAIN files' /\ Alike(files'[i], files[i])
  PROVE  Kept
<1> SUFFICES ASSUME NEW t \in Types, NEW d \in Days, Has(files, full, t, d)
             PROVE  Has(files', full', t, d)
  BY DEF Kept
<1>1. CASE full[t]
  BY <1>1 DEF Has
<1>2. CASE Len(files) >= MaxFiles
  BY <1>2, TableDomain, SizeAssumption DEF Has
<1>3. CASE \E i \in DOMAIN files : files[i].t = t /\ files[i].day = d
  BY <1>3 DEF Has, Alike
<1> QED BY <1>1, <1>2, <1>3 DEF Has

LEMMA KeptSame == files' = files /\ full' = full => Kept
BY DEF Kept

\* A task that is done leaves every day it can concern as it was, and its own
\* type touched.
LEMMA TaskDoneTouch ==
  ASSUME IInv, TouchInv, TaskDone, todo # <<>>, Kept, mode' = mode,
         Head(todo).do = "ensure" /\ day # 0 => Has(files', full', Head(todo).t, day),
         ymd' = ymd
  PROVE  TouchInv'
<1>0. todo \in Seq(Tasks) /\ day \in 0..MaxDay /\ ymd \in 0..MaxDay
  BY DEF IInv, TypeOK
<1>1. /\ Len(todo) \in Nat \ {0} /\ DOMAIN todo = 1..Len(todo) /\ Head(todo) = todo[1]
      /\ DOMAIN Tail(todo) = 1..(Len(todo) - 1)
      /\ \A i \in 1..(Len(todo) - 1) : Tail(todo)[i] = todo[i + 1]
  BY <1>0, TailTasks
<1>2. todo' = Tail(todo) /\ day' = day /\ stage' = "decide"
  BY DEF TaskDone
<1>3. /\ mode' = "off" => ymd' = 0
      /\ ymd' # 0 => \A t \in Types : Has(files', full', t, ymd')
  <2>1. ymd # 0 => ymd \in Days
    BY <1>0, BoundAssumption DEF Days
  <2> QED BY <2>1 DEF TouchInv, Kept
<1>4. ASSUME NEW i \in 1..(Len(todo) - 1), Tail(todo)[i].do = "ymd"
      PROVE  /\ day # 0 /\ ~Wipes(Tail(todo))
             /\ \A t \in Types : \/ Has(files', full', t, day)
                                 \/ \E j \in 1..(i - 1) : Tail(todo)[j] = Ensure(t)
  <2>1. i + 1 \in DOMAIN todo /\ todo[i + 1].do = "ymd" /\ (i + 1) - 1 = i
    BY <1>1, <1>4
  <2>2. /\ day # 0 /\ ~Wipes(todo)
        /\ \A t \in Types : Has(files, full, t, day) \/ \E j \in 1..i : todo[j] = Ensure(t)
    BY <2>1 DEF TouchInv, Recording
  <2>3. ~Wipes(Tail(todo))
    BY <1>1, <2>2 DEF Wipes
  <2>4. day \in Days
    BY <1>0, <2>2, BoundAssumption DEF Days
  <2>5. ASSUME NEW t \in Types, NEW j \in 1..i, todo[j] = Ensure(t)
        PROVE  \/ Has(files', full', t, day)
               \/ \E m \in 1..(i - 1) : Tail(todo)[m] = Ensure(t)
    <3>1. CASE j = 1
      <4>1. Head(todo).do = "ensure" /\ Head(todo).t = t
        BY <1>1, <2>5, <3>1, TaskKinds
      <4> QED BY <2>2, <4>1
    <3>2. CASE j # 1
      <4>1. j - 1 \in 1..(i - 1) /\ j - 1 \in 1..(Len(todo) - 1) /\ (j - 1) + 1 = j
        BY <1>1, <3>2
      <4>2. Tail(todo)[j - 1] = Ensure(t)
        BY <1>1, <2>5, <4>1
      <4> QED BY <4>1, <4>2
    <3> QED BY <3>1, <3>2
  <2>6. ASSUME NEW t \in Types, Has(files, full, t, day) PROVE Has(files', full', t, day)
    BY <2>4, <2>6 DEF Kept
  <2> QED BY <2>2, <2>3, <2>5, <2>6
<1>5. Recording'
  <2>1. Wipes(Tail(todo)) = Wipes(todo')
    BY <1>2
  <2>2. DOMAIN todo' = 1..(Len(todo) - 1)
    BY <1>1, <1>2
  <2> QED BY <1>2, <1>4, <2>1, <2>2 DEF Recording, Wipes
<1> QED BY <1>2, <1>3, <1>5 DEF TouchInv

\* A call that starts records its day after ensuring every type, or not at all.
LEMMA NewCallTouch ==
  ASSUME IInv, TouchInv, NEW agenda, NEW d, todo' = agenda, day' = d, stage' = stage,
         todo = <<>>, mode' # "off", ~Wipes(agenda) /\ EnsuredFirst(agenda, d),
         ymd' # 0 => \A t \in Types : Has(files', full', t, ymd')
  PROVE  TouchInv'
<1>1. stage' = "decide"
  BY Parts DEF Committed, Doing, Idle, OpOK
<1>2. Recording'
  BY DEF Recording, Wipes, EnsuredFirst
<1> QED BY <1>1, <1>2 DEF TouchInv

\* A call that erases records none.
LEMMA FormatTouch ==
  ASSUME IInv, TouchInv, todo' = FormatAll, stage' = stage, todo = <<>>, mode' # "off",
         ymd' # 0 => \A t \in Types : Has(files', full', t, ymd')
  PROVE  TouchInv'
<1>1. stage' = "decide"
  BY Parts DEF Committed, Doing, Idle, OpOK
<1>2. \A i \in DOMAIN FormatAll : FormatAll[i].do # "ymd"
  BY FormatAgenda, TaskKinds
<1>3. Recording'
  BY <1>2 DEF Recording
<1> QED BY <1>1, <1>3 DEF TouchInv

LEMMA NoTasksTouch ==
  ASSUME todo' = <<>>, stage' = "decide", mode' = "off" => ymd' = 0,
         ymd' # 0 => \A t \in Types : Has(files', full', t, ymd')
  PROVE  TouchInv'
<1>1. Recording'
  BY EmptySeq DEF Recording
<1> QED BY <1>1 DEF TouchInv

\* A step within a task.
LEMMA OpenTaskTouch ==
  ASSUME IInv, TouchInv, Kept, UNCHANGED <<mode, ymd, todo, day>>,
         stage' \in {"daystart", "save"} => Has(files', full', Head(todo).t, day)
  PROVE  TouchInv'
<1>0. day \in 0..MaxDay /\ ymd \in 0..MaxDay
  BY DEF IInv, TypeOK
<1>1. ymd' # 0 => \A t \in Types : Has(files', full', t, ymd')
  <2>1. ymd # 0 => ymd \in Days
    BY <1>0, BoundAssumption DEF Days
  <2> QED BY <2>1 DEF TouchInv, Kept
<1>2. Recording'
  <2>1. day # 0 => day \in Days
    BY <1>0, BoundAssumption DEF Days
  <2> QED BY <2>1 DEF TouchInv, Recording, Kept, Wipes
<1> QED BY <1>1, <1>2 DEF TouchInv

-----------------------------------------------------------------------------
\* A refused write latches its region; no other flag and no file changes.
LEMMA RefusedHas ==
  ASSUME IInv, HasPending, Refused
  PROVE  /\ Kept /\ mode' = mode /\ ymd' = ymd /\ files' = files
         /\ \A d : Has(files', full', Head(todo).t, d)
<1>1. Pending.t = Head(todo).t /\ Pending.t \in Types /\ full \in [Types -> BOOLEAN]
  BY PendingType DEF IInv, TypeOK
<1>2. full' = [full EXCEPT ![Pending.t] = TRUE] /\ files' = files /\ mode' = mode /\ ymd' = ymd
  BY DEF Refused, GuardRefuses
<1>3. full'[Head(todo).t] /\ \A t \in Types : full[t] => full'[t]
  BY <1>1, <1>2
<1>4. \A d : Has(files', full', Head(todo).t, d)
  BY <1>3 DEF Has
<1>5. Kept
  BY <1>2, <1>3 DEF Kept, Has
<1> QED BY <1>2, <1>4, <1>5

LEMMA GrowKeeps ==
  ASSUME IInv, NEW s \in DOMAIN files, NEW n \in Nat, NEW a \in BOOLEAN,
         files' = Grow(s, n, a), full' = full
  PROVE  Kept
<1>1. files \in Tables
  BY DEF IInv, TypeOK
<1>2. /\ DOMAIN files' = DOMAIN files /\ Len(files') = Len(files) /\ files' \in Tables
      /\ \A i \in DOMAIN files : Alike(files'[i], files[i])
  BY <1>1, GrowEffect
<1>3. Len(files) <= Len(files')
  BY <1>1, <1>2, TableDomain
<1> QED BY <1>1, <1>2, <1>3, KeptTables

LEMMA EnsureQuietTouch ==
  IInv /\ TouchInv /\ (EnsureReturns \/ EnsureLatches \/ EnsureBegins) => TouchInv'
<1> SUFFICES ASSUME IInv, TouchInv, EnsureReturns \/ EnsureLatches \/ EnsureBegins
             PROVE  TouchInv'
  OBVIOUS
<1>0. todo # <<>> /\ Head(todo).do = "ensure" /\ Head(todo).t \in Types
      /\ full \in [Types -> BOOLEAN] /\ day \in 0..MaxDay
  BY HeadTask DEF EnsureReturns, EnsureLatches, EnsureBegins, Deciding, Doing, Idle, IInv, TypeOK
<1>1. CASE EnsureReturns
  <2>1. files' = files /\ full' = full /\ ymd' = ymd /\ mode' = mode /\ TaskDone
    BY <1>1 DEF EnsureReturns, ramVars
  <2>2. day # 0 => Has(files, full, Head(todo).t, day)
    BY <1>0, <1>1, SlotIndex DEF EnsureReturns, NothingToEnsure, EnsureType, Has
  <2> QED BY <1>0, <2>1, <2>2, KeptSame, TaskDoneTouch
<1>2. CASE EnsureLatches
  <2>1. files' = files /\ ymd' = ymd /\ mode' = mode /\ TaskDone
        /\ full' = [full EXCEPT ![Head(todo).t] = TRUE]
    BY <1>2 DEF EnsureLatches, EnsureType
  <2>2. full'[Head(todo).t] /\ \A t \in Types : full[t] => full'[t]
    BY <1>0, <2>1
  <2>3. Kept /\ Has(files', full', Head(todo).t, day)
    BY <2>1, <2>2 DEF Kept, Has
  <2> QED BY <1>0, <2>1, <2>3, TaskDoneTouch
<1>3. CASE EnsureBegins
  <2>1. UNCHANGED <<mode, files, full, ymd, todo, day>> /\ stage' \in {"close", "header"}
    BY <1>3 DEF EnsureBegins, ramVars
  <2> QED BY <2>1 DEF TouchInv, Recording, Wipes
<1> QED BY <1>1, <1>2, <1>3

LEMMA CloseOldTouch == IInv /\ TouchInv /\ CloseOld => TouchInv'
<1> SUFFICES ASSUME IInv, TouchInv, CloseOld PROVE TouchInv'
  OBVIOUS
<1>0. HasPending /\ stage = "close" /\ todo # <<>>
  BY DEF CloseOld, HasPending, Writing, Doing, Idle
<1>1. CASE Refused /\ TaskDone
  BY <1>0, <1>1, RefusedHas, TaskDoneTouch
<1>2. CASE /\ Allowed
           /\ files' = Grow(Slot(EnsureType), 1, FALSE)
           /\ stage' = "header"
           /\ UNCHANGED <<cached, cache, mode, full, ymd, todo, off, day, envVars>>
  <2>1. Kept
    BY <1>0, <1>2, CurrentFile, GrowKeeps DEF EnsureType
  <2> QED BY <1>2, <2>1, OpenTaskTouch
<1> QED BY <1>1, <1>2 DEF CloseOld

LEMMA WriteHeaderTouch == IInv /\ TouchInv /\ WriteHeader => TouchInv'
<1> SUFFICES ASSUME IInv, TouchInv, WriteHeader PROVE TouchInv'
  OBVIOUS
<1>0. HasPending /\ stage = "header" /\ todo # <<>>
  BY DEF WriteHeader, HasPending, Writing, Doing, Idle
<1>1. CASE Refused /\ TaskDone
  BY <1>0, <1>1, RefusedHas, TaskDoneTouch
<1>2. CASE /\ Allowed
           /\ files' = Append(files, [t |-> EnsureType, day |-> day, off |-> off,
                                      len |-> HeaderLen, active |-> TRUE])
           /\ stage' = IF EnsureType = Provenance THEN "daystart" ELSE "save"
           /\ UNCHANGED <<cached, cache, mode, full, ymd, todo, off, day, envVars>>
  <2> DEFINE e == [t |-> EnsureType, day |-> day, off |-> off,
                   len |-> HeaderLen, active |-> TRUE]
  <2>1. /\ EnsureType \in Types /\ day \in Days /\ off \in Nat
        /\ Len(files) < MaxFiles /\ files \in Tables
    BY <1>0, HeadTask DEF IInv, TypeOK, Committed, EnsureType
  <2>2. e \in Entry /\ e.t = Head(todo).t /\ e.day = day
    BY <2>1 DEF Entry, EnsureType, HeaderLen
  <2> HIDE DEF e
  <2>3. files' = Append(files, e)
    BY <1>2 DEF e
  <2>4. /\ files' \in Tables /\ Len(files') = Len(files) + 1
        /\ files'[Len(files) + 1] = e
        /\ \A i \in 1..Len(files) : files'[i] = files[i]
    BY <2>1, <2>2, <2>3, AddEntry
  <2>5. DOMAIN files' = 1..(Len(files) + 1) /\ DOMAIN files = 1..Len(files) /\ Len(files) \in Nat
    BY <2>1, <2>4, TableDomain
  <2>6. Kept
    <3>1. \A i \in DOMAIN files : i \in DOMAIN files' /\ Alike(files'[i], files[i])
      BY <2>4, <2>5 DEF Alike
    <3>2. Len(files) <= Len(files')
      BY <2>4, <2>5
    <3> QED BY <1>2, <2>1, <2>4, <3>1, <3>2, KeptTables
  <2>7. Has(files', full', Head(todo).t, day)
    BY <2>2, <2>4, <2>5 DEF Has
  <2> QED BY <1>2, <2>6, <2>7, OpenTaskTouch
<1> QED BY <1>1, <1>2 DEF WriteHeader

LEMMA WriteDayStartTouch == IInv /\ TouchInv /\ WriteDayStart => TouchInv'
<1> SUFFICES ASSUME IInv, TouchInv, WriteDayStart PROVE TouchInv'
  OBVIOUS
<1>0. /\ HasPending /\ stage = "daystart" /\ todo # <<>>
      /\ UNCHANGED <<todo, day>> /\ stage' = "save"
  BY DEF WriteDayStart, HasPending, Writing, Doing, Idle
<1>1. CASE Refused
  BY <1>0, <1>1, RefusedHas, OpenTaskTouch
<1>2. CASE /\ Allowed
           /\ files' = Grow(Slot(EnsureType), DayStartLen, TRUE)
           /\ UNCHANGED <<cached, cache, mode, full, ymd, envVars>>
  <2>1. Kept
    BY <1>0, <1>2, CurrentFile, GrowKeeps, RowAssumption DEF EnsureType
  <2>2. Head(todo).t \in Types /\ day \in 0..MaxDay
    BY <1>0, HeadTask DEF IInv, TypeOK
  <2>3. Has(files', full', Head(todo).t, day)
    <3>1. files \in Tables /\ Slot(EnsureType) \in DOMAIN files
      BY <1>0, CurrentFile DEF IInv, TypeOK, EnsureType
    <3>2. /\ DOMAIN files' = DOMAIN files /\ Len(files') = Len(files)
          /\ \A i \in DOMAIN files : Alike(files'[i], files[i])
      BY <1>2, <3>1, GrowEffect, RowAssumption
    <3>3. Has(files, full, Head(todo).t, day)
      BY <1>0 DEF TouchInv
    <3> QED BY <1>2, <3>2, <3>3 DEF Has, Alike
  <2> QED BY <1>0, <1>2, <2>1, <2>3, OpenTaskTouch
<1> QED BY <1>1, <1>2 DEF WriteDayStart

LEMMA SaveTouch == IInv /\ TouchInv /\ (SaveCache \/ SaveFails) => TouchInv'
<1> SUFFICES ASSUME IInv, TouchInv, SaveCache \/ SaveFails PROVE TouchInv'
  OBVIOUS
<1>1. /\ stage = "save" /\ todo # <<>> /\ TaskDone
      /\ UNCHANGED <<mode, files, full, ymd>>
  BY DEF SaveCache, SaveFails, Writing, Doing, Idle, ramVars
<1>2. Has(files', full', Head(todo).t, day)
  BY <1>1 DEF TouchInv
<1> QED BY <1>1, <1>2, KeptSame, TaskDoneTouch

\* A call that fails records nothing and takes nothing away.
LEMMA CallFailsTouch == IInv /\ TouchInv /\ CallFails /\ todo # <<>> => TouchInv'
<1> SUFFICES ASSUME IInv, TouchInv, CallFails, todo # <<>> PROVE TouchInv'
  OBVIOUS
<1>1. todo' = <<>> /\ stage' = "decide" /\ UNCHANGED <<files, full, ymd>>
      /\ (mode' = mode \/ mode' = "fault")
  BY DEF CallFails
<1>2. mode' # "off"
  BY <1>1 DEF IInv, Committed
<1> QED BY <1>1, <1>2, NoTasksTouch DEF TouchInv

LEMMA AppendRowTouch == IInv /\ TouchInv /\ AppendRow => TouchInv'
<1> SUFFICES ASSUME IInv, TouchInv, AppendRow PROVE TouchInv'
  OBVIOUS
<1>0. Doing("row") /\ todo # <<>> /\ Head(todo).do = "row" /\ Head(todo).n \in Nat
  BY HeadTask DEF AppendRow, Doing, Idle, IInv, TypeOK
<1>1. CASE Slot(Head(todo).t) = 0 /\ CallFails
  BY <1>0, <1>1, CallFailsTouch
<1>2. CASE Slot(Head(todo).t) # 0 /\ Refused /\ TaskDone
  <2>1. HasPending
    BY <1>0, <1>2 DEF HasPending
  <2> QED BY <1>0, <1>2, <2>1, RefusedHas, TaskDoneTouch
<1>3. CASE /\ Slot(Head(todo).t) # 0
           /\ Allowed
           /\ files' = Grow(Slot(Head(todo).t), Head(todo).n, files[Slot(Head(todo).t)].active)
           /\ TaskDone
           /\ UNCHANGED <<cached, cache, mode, full, ymd, envVars>>
  <2>1. Slot(Head(todo).t) \in DOMAIN files /\ files[Slot(Head(todo).t)].active \in BOOLEAN
    <3>1. Slot(Head(todo).t) \in DOMAIN files /\ files \in Tables
      BY <1>3, SlotIndex DEF IInv, TypeOK
    <3>2. files[Slot(Head(todo).t)] \in Entry
      BY <3>1, TableDomain
    <3> QED BY <3>1, <3>2 DEF Entry
  <2>2. Kept
    BY <1>0, <1>3, <2>1, GrowKeeps
  <2> QED BY <1>0, <1>3, <2>2, TaskDoneTouch
<1> QED BY <1>1, <1>2, <1>3 DEF AppendRow

\* The day is recorded with no type left to ensure before it.
LEMMA RecordCalendarDayTouch == IInv /\ TouchInv /\ RecordCalendarDay => TouchInv'
<1> SUFFICES ASSUME IInv, TouchInv, RecordCalendarDay PROVE TouchInv'
  OBVIOUS
<1>0. /\ todo \in Seq(Tasks) /\ todo # <<>> /\ Head(todo).do = "ymd" /\ mode # "off"
      /\ ymd' = day /\ UNCHANGED <<mode, files, full, day>>
      /\ todo' = Tail(todo) /\ stage' = "decide"
  BY DEF RecordCalendarDay, TaskDone, Doing, Idle, IInv, TypeOK, Committed
<1>1. /\ Len(todo) \in Nat \ {0} /\ DOMAIN todo = 1..Len(todo) /\ Head(todo) = todo[1]
      /\ DOMAIN Tail(todo) = 1..(Len(todo) - 1)
      /\ \A i \in 1..(Len(todo) - 1) : Tail(todo)[i] = todo[i + 1]
  BY <1>0, TailTasks
<1>2. /\ day # 0 /\ ~Wipes(todo)
      /\ \A t \in Types : Has(files, full, t, day)
  <2>1. 1 \in DOMAIN todo /\ todo[1].do = "ymd"
    BY <1>0, <1>1
  <2>2. ~(\E j \in 1..(1 - 1) : TRUE)
    OBVIOUS
  <2> QED BY <2>1, <2>2 DEF TouchInv, Recording
<1>3. ~Wipes(Tail(todo))
  BY <1>1, <1>2 DEF Wipes
<1>4. Recording'
  <2>1. ~Wipes(todo') /\ day' # 0 /\ \A t \in Types : Has(files', full', t, day')
    BY <1>0, <1>2, <1>3
  <2> QED BY <2>1 DEF Recording, Wipes
<1> QED BY <1>0, <1>2, <1>4 DEF TouchInv

\* An agenda that erases records no day.
LEMMA ErasingTouch == IInv /\ TouchInv /\ (EraseRegion \/ ClearTables) => TouchInv'
<1> SUFFICES ASSUME IInv, TouchInv, EraseRegion \/ ClearTables PROVE TouchInv'
  OBVIOUS
<1>0. /\ todo \in Seq(Tasks) /\ todo # <<>> /\ Head(todo).do \in {"erase", "clear"}
      /\ mode' = mode /\ TaskDone
  BY DEF EraseRegion, ClearTables, Doing, Idle, IInv, TypeOK, ramVars
<1>1. /\ Len(todo) \in Nat \ {0} /\ DOMAIN todo = 1..Len(todo) /\ Head(todo) = todo[1]
      /\ DOMAIN Tail(todo) = 1..(Len(todo) - 1)
      /\ \A i \in 1..(Len(todo) - 1) : Tail(todo)[i] = todo[i + 1]
  BY <1>0, TailTasks
<1>2. Wipes(todo)
  BY <1>0, <1>1 DEF Wipes
<1>3. \A i \in DOMAIN todo : todo[i].do # "ymd"
  BY <1>2 DEF TouchInv, Recording
<1>4. \A i \in DOMAIN Tail(todo) : Tail(todo)[i].do # "ymd"
  BY <1>1, <1>3
<1>5. todo' = Tail(todo) /\ stage' = "decide"
  BY <1>0 DEF TaskDone
<1>6. Recording'
  BY <1>4, <1>5 DEF Recording
<1>7. ymd' = 0 \/ UNCHANGED <<files, full, ymd>>
  BY DEF EraseRegion, ClearTables, ramVars
<1> QED BY <1>0, <1>5, <1>6, <1>7 DEF TouchInv

LEMMA WriteFailsTouch == IInv /\ TouchInv /\ WriteFails => TouchInv'
<1> SUFFICES ASSUME IInv, TouchInv, WriteFails PROVE TouchInv'
  OBVIOUS
<1>1. CallFails /\ todo # <<>>
  BY DEF WriteFails, Programming, HasPending, Writing, Doing, Idle
<1> QED BY <1>1, CallFailsTouch

LEMMA CallsTouch ==
  IInv /\ TouchInv /\ (\/ \E t \in Types, n \in RowSizes : StartAppend(t, n)
                       \/ \E t \in Types, d \in Days : FlushDraft(t, d)
                       \/ StartFormat) => TouchInv'
<1>1. ASSUME IInv, TouchInv, NEW agenda, NEW d, Calls(agenda, d)
      PROVE  /\ todo = <<>> /\ todo' = agenda /\ day' = d /\ stage' = stage /\ mode' # "off"
             /\ ymd' # 0 => \A t \in Types : Has(files', full', t, ymd')
  BY <1>1 DEF Calls, Call, Idle, TouchInv
<1>2. ASSUME IInv, TouchInv, NEW t \in Types, NEW n \in RowSizes, StartAppend(t, n)
      PROVE  TouchInv'
  <2> DEFINE ag == AppendAgenda(t, n, clock, ymd)
  <2>1. ~Wipes(ag) /\ EnsuredFirst(ag, clock)
    BY AppendAgendaShape, RowAssumption
  <2>2. Calls(ag, clock)
    BY <1>2 DEF StartAppend
  <2> HIDE DEF ag
  <2> QED BY <1>1, <1>2, <2>1, <2>2, NewCallTouch
<1>3. ASSUME IInv, TouchInv, NEW t \in Types, NEW d \in Days, FlushDraft(t, d)
      PROVE  TouchInv'
  <2> DEFINE ag == AppendAgenda(t, 1, d, ymd)
  <2>1. ~Wipes(ag) /\ EnsuredFirst(ag, d)
    BY AppendAgendaShape
  <2>2. Calls(ag, d)
    BY <1>3 DEF FlushDraft
  <2> HIDE DEF ag
  <2> QED BY <1>1, <1>3, <2>1, <2>2, NewCallTouch
<1>4. ASSUME IInv, TouchInv, StartFormat
      PROVE  TouchInv'
  <2>1. Calls(FormatAll, clock)
    BY <1>4 DEF StartFormat
  <2>2. /\ todo = <<>> /\ todo' = FormatAll /\ stage' = stage /\ mode' # "off"
        /\ ymd' # 0 => \A t \in Types : Has(files', full', t, ymd')
    BY <1>1, <1>4, <2>1
  <2> QED BY <1>4, <2>2, FormatTouch
<1> QED BY <1>2, <1>3, <1>4

LEMMA BootTouch == IInv /\ TouchInv /\ Boot => TouchInv'
<1> SUFFICES ASSUME IInv, TouchInv, NEW d \in 0..MaxDay,
                    BootFromCache(d) \/ BootByScan(d) \/ BootFormats(d)
             PROVE  TouchInv'
  BY DEF Boot
<1>1. mode = "off" /\ mode' = "init" /\ ymd' = ymd
  BY DEF BootFromCache, BootByScan, BootFormats, Booting
<1>2. todo = <<>> /\ ymd' = 0
  BY <1>1 DEF IInv, Committed, TouchInv
<1>3. CASE BootFromCache(d) \/ BootByScan(d)
  <2> DEFINE ag == InitAgenda(d)
  <2>1. todo' = ag /\ day' = d /\ stage' = stage
    BY <1>3 DEF BootFromCache, BootByScan, Call
  <2>2. ~Wipes(ag) /\ EnsuredFirst(ag, d)
    BY InitAgendaShape
  <2> HIDE DEF ag
  <2> QED BY <1>1, <1>2, <2>1, <2>2, NewCallTouch
<1>4. CASE BootFormats(d)
  BY <1>1, <1>2, <1>4, FormatTouch DEF BootFormats, Call
<1> QED BY <1>3, <1>4

LEMMA EnvironmentTouch ==
  IInv /\ TouchInv /\ (\/ \E d \in Days : SetClock(d)
                       \/ PowerCut \/ LoseCache \/ FaultIndication \/ UNCHANGED vars) => TouchInv'
<1> SUFFICES ASSUME IInv, TouchInv,
                    \/ \E d \in Days : SetClock(d)
                    \/ PowerCut \/ LoseCache \/ FaultIndication \/ UNCHANGED vars
             PROVE  TouchInv'
  OBVIOUS
<1>1. CASE PowerCut
  BY <1>1, NoTasksTouch DEF PowerCut
<1>2. CASE ~PowerCut
  <2>1. UNCHANGED <<ramVars, opVars>>
    BY <1>2 DEF SetClock, LoseCache, FaultIndication, vars
  <2> QED BY <2>1 DEF ramVars, opVars, TouchInv, Recording, Wipes
<1> QED BY <1>1, <1>2

LEMMA InitTouch == Init => TouchInv
BY EmptySeq DEF Init, TouchInv, Recording

LEMMA NextTouch == IInv /\ TouchInv /\ [Next]_vars => TouchInv'
<1> SUFFICES ASSUME IInv, TouchInv, [Next]_vars PROVE TouchInv'
  OBVIOUS
<1>1. CASE EnsureStep
  BY <1>1, EnsureQuietTouch, CloseOldTouch, WriteHeaderTouch, WriteDayStartTouch,
     SaveTouch DEF EnsureStep
<1>2. CASE AppendRow \/ RecordCalendarDay \/ EraseRegion \/ ClearTables
  BY <1>2, AppendRowTouch, RecordCalendarDayTouch, ErasingTouch
<1>3. CASE WriteFails \/ SaveFails
  BY <1>3, WriteFailsTouch, SaveTouch
<1>4. CASE Boot
  BY <1>4, BootTouch
<1>5. CASE \/ \E t \in Types, n \in RowSizes : StartAppend(t, n)
           \/ \E t \in Types, d \in Days : FlushDraft(t, d)
           \/ StartFormat
  BY <1>5, CallsTouch
<1>6. CASE (\E d \in Days : SetClock(d)) \/ PowerCut \/ LoseCache
  BY <1>6, EnvironmentTouch
<1>7. CASE FaultIndication \/ UNCHANGED vars
  BY <1>7, EnvironmentTouch
<1> QED BY <1>1, <1>2, <1>3, <1>4, <1>5, <1>6, <1>7 DEF Next, Step

\* The day touch_all_for_calendar_day remembers (juxta_log.c), and so never
\* touches again, has a file of each type in the table or no room for one: in
\* every environment, through clocks set back, failing writes and saves, lost
\* caches and drafts of an earlier day.
THEOREM RememberedDaysHaveFiles == Spec => []RememberedDayHasFiles
<1>1. TouchInv => RememberedDayHasFiles
  BY DEF TouchInv, RememberedDayHasFiles, Has, Touched
<1> QED BY <1>1, InitTouch, NextTouch, Inductive, PTL DEF Spec
=============================================================================
