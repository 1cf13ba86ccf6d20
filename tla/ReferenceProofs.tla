-------------------------- MODULE ReferenceProofs --------------------------
(***************************************************************************)
(* The reference firmware, for any numbers.                                *)
(*                                                                         *)
(* FramFs: a row whose append returned OK stays, whole and in order, and   *)
(* its indices lead to its addresses, whatever power cuts and failed       *)
(* transfers come between the writes of an operation.  The invariants say  *)
(* what the chip holds between any two writes (Kept), which writes are     *)
(* left in each phase (PhaseInv), and what the table of addresses holds    *)
(* meanwhile (MacPhases).                                                  *)
(*                                                                         *)
(* JuxtaBle: the state machine is driven, and a gateway can come until the *)
(* clock is set.                                                           *)
(***************************************************************************)
EXTENDS FramFs, JuxtaBle, TLAPS, SequenceTheorems, FiniteSetTheorems, WellFoundedInduction

-----------------------------------------------------------------------------
(* FramFs: types. *)

HeaderType    == [magic : BOOLEAN, file_count : 0..MaxFiles, next_data_addr : 0..Size]
MacHeaderType == [magic : BOOLEAN, entry_count : 0..MaxMacs]
CellType      == [row : 0..MaxRows, part : 0..2]
SettingsType  == {"blank", "defaults", "changed"}
IndexType     == Slots \cup {None}
MacIndices    == 0..MaxMacs - 1
RowType       == [size : 0..2, macs : Seq(Macs), indices : Seq(MacIndices)]
LogType       == [day : Days, size : 1..2, macs : Seq(Macs), indices : Seq(MacIndices)]

ChipType == [header : HeaderType, entries : [Slots -> Entry], mac_header : MacHeaderType,
             macs : [MacIndices -> Macs \cup {NoMac}], settings : SettingsType,
             data : [Cells -> CellType]]
ContextType == [header : HeaderType, mac_header : MacHeaderType, settings : SettingsType,
                active_file_index : IndexType]

Headers     == [put : {"header"}, val : HeaderType, active : IndexType]
Entries     == [put : {"entry"}, at : Slots, val : Entry, active : IndexType,
                day : 0..MaxDay, fresh : BOOLEAN]
Zeros       == [put : {"zero"}, at : Slots]
MacHeaders  == [put : {"mac_header"}, val : MacHeaderType]
MacEntries  == [put : {"mac"}, at : MacIndices, val : Macs \cup {NoMac}]
SettingsPut == [put : {"settings"}, val : SettingsType]
DataPut     == [put : {"data"}, at : Cells, val : CellType]
Writes == Headers \cup Entries \cup Zeros \cup MacHeaders \cup MacEntries \cup SettingsPut
            \cup DataPut

Phases == {"off", "dead", "header", "macs", "settings", "active", "idle", "row",
           "append", "refused", "clear", "save"}

TypeInv ==
  /\ chip \in ChipType /\ ctx \in ContextType
  /\ current_file_date \in 0..MaxDay /\ date \in Days
  /\ todo \in Seq(Writes) /\ phase \in Phases
  /\ row \in RowType /\ log \in Seq(LogType) /\ Len(log) <= MaxRows
  /\ acked \in [Days -> Seq(Nat)]
  /\ spoilt \in BOOLEAN /\ cuts \in Nat /\ failed \in Nat

\* The row in progress is the last of the log, and not acknowledged.
LastRow ==
  /\ phase \in {"row", "append"} =>
       /\ Len(log) >= 1 /\ row.size \in 1..2
       /\ log[Len(log)].size = row.size /\ log[Len(log)].macs = row.macs
  /\ \A d \in Days : \A k \in 1..Len(acked[d]) :
       /\ acked[d][k] \in 1..Len(log)
       /\ phase \in {"row", "append"} => acked[d][k] # Len(log)

LEMMA Lowest0 ==
  ASSUME NEW S \in SUBSET Nat, S # {}
  PROVE  Lowest(S) \in S /\ \A j \in S : Lowest(S) <= j
<1>1. \E i \in S : \A j \in S : ~(<<j, i>> \in OpToRel(<, Nat))
  BY NatLessThanWellFounded, WFMin, Zenon
<1>2. \A i, j \in Nat : i < j => <<i, j>> \in OpToRel(<, Nat)
  BY Zenon DEF OpToRel
<1>3. \A i, j \in Nat : i <= j \/ j < i
  OBVIOUS
<1>4. \E i \in S : \A j \in S : i <= j
  BY <1>1, <1>2, <1>3, Zenon
<1> QED
  BY <1>4 DEF Lowest

LEMMA FirstOf ==
  ASSUME NEW S \in SUBSET Nat
  PROVE  /\ S = {} => First(S) = None
         /\ S # {} => First(S) \in S /\ First(S) # None
<1>1. CASE S = {}
  BY <1>1 DEF First
<1>2. CASE S # {}
  <2>1. Lowest(S) \in S
    BY <1>2, Lowest0
  <2>2. First(S) = Lowest(S)
    BY <1>2 DEF First
  <2>3. Lowest(S) \in Nat
    BY <2>1
  <2> QED
    BY <1>2, <2>1, <2>2, <2>3 DEF None
<1> QED
  BY <1>1, <1>2

LEMMA PutTypes ==
  /\ \A h \in HeaderType, a \in IndexType : PutHeader(h, a) \in Writes
  /\ \A i \in Slots, e \in Entry, a \in IndexType, d \in 0..MaxDay :
       PutEntry(i, e, a, d, FALSE) \in Writes /\ PutEntry(i, e, a, d, TRUE) \in Writes
  /\ \A i \in Slots : PutZero(i) \in Writes
  /\ \A h \in MacHeaderType : PutMacHeader(h) \in Writes
  /\ \A i \in MacIndices, m \in Macs \cup {NoMac} : PutMac(i, m) \in Writes
  /\ \A s \in SettingsType : PutSettings(s) \in Writes
  /\ \A a \in Cells, c \in CellType : PutData(a, c) \in Writes
<1>1. \A h \in HeaderType, a \in IndexType : PutHeader(h, a) \in Headers
  BY DEF PutHeader, Headers
<1>2. \A i \in Slots, e \in Entry, a \in IndexType, d \in 0..MaxDay :
        PutEntry(i, e, a, d, FALSE) \in Entries /\ PutEntry(i, e, a, d, TRUE) \in Entries
  BY DEF PutEntry, Entries
<1>3. \A i \in Slots : PutZero(i) \in Zeros
  BY DEF PutZero, Zeros
<1>4. \A h \in MacHeaderType : PutMacHeader(h) \in MacHeaders
  BY DEF PutMacHeader, MacHeaders
<1>5. \A i \in MacIndices, m \in Macs \cup {NoMac} : PutMac(i, m) \in MacEntries
  BY DEF PutMac, MacEntries
<1>6. \A s \in SettingsType : PutSettings(s) \in SettingsPut
  BY DEF PutSettings, SettingsPut
<1>7. \A a \in Cells, c \in CellType : PutData(a, c) \in DataPut
  BY DEF PutData, DataPut
<1> QED
  BY <1>1, <1>2, <1>3, <1>4, <1>5, <1>6, <1>7, Zenon DEF Writes

LEMMA Writings ==
  /\ <<>> \in Seq(Writes)
  /\ \A v \in Writes : <<v>> \in Seq(Writes)
  /\ \A v, w \in Writes : <<v, w>> \in Seq(Writes)
  /\ \A s, t \in Seq(Writes) : s \o t \in Seq(Writes)
OBVIOUS

LEMMA PutKinds ==
  ASSUME NEW w \in Writes
  PROVE  /\ w.put \in {"header", "entry", "zero", "mac_header", "mac", "settings", "data"}
         /\ w.put = "header" => w \in Headers
         /\ w.put = "entry" => w \in Entries
         /\ w.put = "zero" => w \in Zeros
         /\ w.put = "mac_header" => w \in MacHeaders
         /\ w.put = "mac" => w \in MacEntries
         /\ w.put = "settings" => w \in SettingsPut
         /\ w.put = "data" => w \in DataPut
BY DEF Writes, Headers, Entries, Zeros, MacHeaders, MacEntries, SettingsPut, DataPut

LEMMA ListedTypes ==
  ASSUME TypeInv
  PROVE  /\ \A name : framfs_find_file(name) \in IndexType
         /\ framfs_find_active_file \in IndexType
         /\ \A m : juxta_framfs_mac_find(m) \in MacIndices \cup {None}
<1>1. \A S : S \subseteq Slots => First(S) \in IndexType
  <2> SUFFICES ASSUME NEW S \in SUBSET Slots PROVE First(S) \in IndexType
    OBVIOUS
  <2>1. S \in SUBSET Nat
    BY DEF Slots
  <2> QED
    BY <2>1, FirstOf DEF IndexType
<1>2. \A S : S \subseteq MacIndices => First(S) \in MacIndices \cup {None}
  <2> SUFFICES ASSUME NEW S \in SUBSET MacIndices PROVE First(S) \in MacIndices \cup {None}
    OBVIOUS
  <2>1. S \in SUBSET Nat
    BY DEF MacIndices
  <2> QED
    BY <2>1, FirstOf
<1> QED
  BY <1>1, <1>2 DEF framfs_find_file, framfs_find_active_file, juxta_framfs_mac_find,
                    ListedEntries, MacIndices

LEMMA NewFileType ==
  ASSUME NEW name \in 0..MaxDay, NEW next \in 0..Size
  PROVE  NewFile(name, next) \in Entry
BY ChipAssumption DEF NewFile, Entry

\* What sealing makes of an entry.
Sealed(e) == [e EXCEPT !.flags = (@ \ {"active"}) \cup {"sealed"}]

LEMMA SealedType ==
  ASSUME NEW e \in Entry
  PROVE  Sealed(e) \in Entry
<1>1. e.flags \in SUBSET {"valid", "active", "sealed"}
  BY DEF Entry
<1>2. (e.flags \ {"active"}) \cup {"sealed"} \in SUBSET {"valid", "active", "sealed"}
  BY <1>1
<1> QED
  BY <1>2 DEF Entry, Sealed

LEMMA DateType ==
  ASSUME TypeInv
  PROVE  date \in 0..MaxDay /\ date \in Days /\ None \in IndexType
BY FramBoundAssumption DEF TypeInv, Days, IndexType

LEMMA HeaderTypes ==
  /\ \A c \in 0..MaxFiles, n \in 0..Size : Header(c, n) \in HeaderType
  /\ \A c \in 0..MaxMacs : MacHeader(c) \in MacHeaderType
  /\ Blank \in Entry /\ NoRow \in RowType
<1>1. \A c \in 0..MaxFiles, n \in 0..Size : Header(c, n) \in HeaderType
  BY DEF Header, HeaderType
<1>2. \A c \in 0..MaxMacs : MacHeader(c) \in MacHeaderType
  BY DEF MacHeader, MacHeaderType
<1>3. Blank \in Entry
  <2>1. 0 \in 0..MaxDay /\ 0 \in 0..Size
    BY ChipAssumption, FramBoundAssumption
  <2> QED
    BY <2>1, Zenon DEF Blank, Entry
<1>4. NoRow \in RowType
  <2>1. 0 \in 0..2 /\ <<>> \in Seq(Macs) /\ <<>> \in Seq(MacIndices)
    OBVIOUS
  <2> QED
    BY <2>1, Zenon DEF NoRow, RowType
<1> QED
  BY <1>1, <1>2, <1>3, <1>4

LEMMA FormatTypes ==
  ASSUME TypeInv
  PROVE  /\ FormatWrites \in Seq(Writes) /\ MacClearWrites \in Seq(Writes)
         /\ SettingsClearWrites \in Seq(Writes)
<1>1. Header(0, 0) \in HeaderType /\ MacHeader(0) \in MacHeaderType
  BY ChipAssumption, HeaderTypes
<1>2. PutHeader(Header(0, 0), ctx.active_file_index) \in Writes
  BY <1>1, PutTypes DEF TypeInv, ContextType
<1>3. [i \in 1..MaxFiles |-> PutZero(i - 1)] \in Seq(Writes)
  <2>1. \A i \in 1..MaxFiles : PutZero(i - 1) \in Writes
    BY PutTypes, ChipAssumption DEF Slots
  <2> QED
    BY <2>1, ChipAssumption
<1>4. FormatWrites \in Seq(Writes)
  BY <1>2, <1>3 DEF FormatWrites
<1>5. PutMacHeader(MacHeader(0)) \in Writes
  BY <1>1, PutTypes
<1>6. [i \in 1..MaxMacs |-> PutMac(i - 1, NoMac)] \in Seq(Writes)
  <2>1. \A i \in 1..MaxMacs : PutMac(i - 1, NoMac) \in Writes
    BY PutTypes, ChipAssumption DEF MacIndices
  <2> QED
    BY <2>1, ChipAssumption
<1>7. MacClearWrites \in Seq(Writes)
  BY <1>5, <1>6 DEF MacClearWrites
<1>8. SettingsClearWrites \in Seq(Writes)
  BY PutTypes DEF SettingsClearWrites, SettingsType
<1> QED
  BY <1>4, <1>7, <1>8

LEMMA EnsureTypes ==
  ASSUME TypeInv
  PROVE  EnsureWrites \in Seq(Writes)
<1> DEFINE found == framfs_find_file(date)
           slot == ctx.header.file_count
<1>1. found \in IndexType /\ slot \in 0..MaxFiles
  BY ListedTypes DEF TypeInv, ContextType, HeaderType
<1>2. \A next \in IndexType : SealWrites(date, next) \in Seq(Writes)
  <2> SUFFICES ASSUME NEW next \in IndexType PROVE SealWrites(date, next) \in Seq(Writes)
    OBVIOUS
  <2>1. CASE ctx.active_file_index = None
    BY <2>1 DEF SealWrites
  <2>2. CASE ctx.active_file_index # None
    <3> DEFINE i == ctx.active_file_index
    <3>1. i \in Slots
      BY <2>2 DEF TypeInv, ContextType, IndexType
    <3>2. PutEntry(i, Sealed(chip.entries[i]), next, date, FALSE) \in Writes
      BY <3>1, DateType, SealedType, PutTypes DEF TypeInv, ChipType
    <3>3. SealWrites(date, next) = <<PutEntry(i, Sealed(chip.entries[i]), next, date, FALSE)>>
      BY <2>2 DEF SealWrites, Sealed
    <3> HIDE DEF i
    <3> QED
      BY <3>2, <3>3, Writings, Zenon
  <2> QED
    BY <2>1, <2>2
<1>3. SealWrites(date, IF Reused THEN found ELSE None) \in Seq(Writes)
  BY <1>1, <1>2 DEF IndexType
<1>4. ASSUME slot < MaxFiles
      PROVE  <<PutEntry(slot, NewFile(date, ctx.header.next_data_addr), None, date, FALSE),
               PutHeader([ctx.header EXCEPT !.file_count = slot + 1], slot)>> \in Seq(Writes)
  <2>1. slot \in Slots /\ slot + 1 \in 0..MaxFiles
    BY <1>1, <1>4, ChipAssumption DEF Slots
  <2>2. NewFile(date, ctx.header.next_data_addr) \in Entry
    BY NewFileType, DateType DEF TypeInv, ContextType, HeaderType
  <2>3. [ctx.header EXCEPT !.file_count = slot + 1] \in HeaderType
    BY <2>1 DEF TypeInv, ContextType, HeaderType
  <2>4. PutEntry(slot, NewFile(date, ctx.header.next_data_addr), None, date, FALSE) \in Writes
    BY <2>1, <2>2, DateType, PutTypes
  <2>5. PutHeader([ctx.header EXCEPT !.file_count = slot + 1], slot) \in Writes
    BY <2>1, <2>3, PutTypes DEF IndexType
  <2> HIDE DEF slot
  <2> QED
    BY <2>4, <2>5, Writings, Zenon
<1>5. ASSUME found # None
      PROVE  <<PutEntry(found, NewFile(date, chip.header.next_data_addr), found, date, TRUE)>>
               \in Seq(Writes)
  <2>1. found \in Slots
    BY <1>1, <1>5 DEF IndexType
  <2>2. NewFile(date, chip.header.next_data_addr) \in Entry
    BY NewFileType, DateType DEF TypeInv, ChipType, HeaderType
  <2>3. PutEntry(found, NewFile(date, chip.header.next_data_addr), found, date, TRUE) \in Writes
    BY <2>1, <2>2, DateType, PutTypes DEF IndexType
  <2> HIDE DEF found
  <2> QED
    BY <2>3, Writings, Zenon
<1> HIDE DEF found, slot
<1> DEFINE sealing == SealWrites(date, IF Reused THEN found ELSE None)
           made == <<PutEntry(slot, NewFile(date, ctx.header.next_data_addr), None, date, FALSE),
                     PutHeader([ctx.header EXCEPT !.file_count = slot + 1], slot)>>
           begun == <<PutEntry(found, NewFile(date, chip.header.next_data_addr), found, date, TRUE)>>
           rest == CASE found = None /\ slot < MaxFiles -> made
                     [] found # None /\ (found = ctx.active_file_index
                                          \/ ~Active(chip.entries[found])) -> begun
                     [] OTHER -> <<>>
<1>6. EnsureWrites = IF ~Stale THEN <<>> ELSE sealing \o rest
  BY DEF EnsureWrites, found, slot
<1>7. rest \in Seq(Writes)
  <2> HIDE DEF made, begun
  <2> SUFFICES /\ found = None /\ slot < MaxFiles => made \in Seq(Writes)
               /\ found # None => begun \in Seq(Writes)
    BY Writings
  <2> QED
    BY <1>4, <1>5 DEF made, begun
<1> HIDE DEF sealing, rest
<1>8. sealing \in Seq(Writes)
  BY <1>3 DEF sealing
<1>9. sealing \o rest \in Seq(Writes)
  BY <1>7, <1>8, Writings
<1> QED
  BY <1>6, <1>9, Writings

LEMMA FramTypesInit == FsInit => TypeInv /\ LastRow
<1> SUFFICES ASSUME FsInit PROVE TypeInv /\ LastRow
  OBVIOUS
<1>1. /\ 0 \in 0..MaxFiles /\ 0 \in 0..MaxMacs /\ 0 \in 0..Size /\ 0 \in 0..MaxDay /\ 1 \in Days
      /\ 0 \in 0..MaxRows /\ 0 \in 0..2
  BY ChipAssumption, FramBoundAssumption DEF Days
<1>2. /\ [Header(0, 0) EXCEPT !.magic = FALSE] \in HeaderType
      /\ [MacHeader(0) EXCEPT !.magic = FALSE] \in MacHeaderType
      /\ Header(0, 0) \in HeaderType /\ MacHeader(0) \in MacHeaderType
  BY <1>1 DEF Header, MacHeader, HeaderType, MacHeaderType
<1>3. NoCell \in CellType
  BY <1>1 DEF NoCell, CellType
<1>4. chip \in ChipType
  BY <1>2, <1>3, HeaderTypes DEF FsInit, ChipType, SettingsType, MacIndices
<1>5. ctx \in ContextType
  BY <1>2 DEF FsInit, ContextType, SettingsType, IndexType
<1>6. /\ current_file_date \in 0..MaxDay /\ date \in Days
      /\ todo \in Seq(Writes) /\ phase \in Phases
      /\ row \in RowType /\ log \in Seq(LogType) /\ Len(log) <= MaxRows
      /\ acked \in [Days -> Seq(Nat)]
      /\ spoilt \in BOOLEAN /\ cuts \in Nat /\ failed \in Nat
  <2>1. acked \in [Days -> Seq(Nat)]
    BY DEF FsInit
  <2>2. todo \in Seq(Writes) /\ log \in Seq(LogType)
    BY DEF FsInit
  <2>3. Len(log) <= MaxRows
    BY FramBoundAssumption DEF FsInit
  <2> QED
    BY <1>1, <2>1, <2>2, <2>3, HeaderTypes DEF FsInit, Phases
<1>7. LastRow
  BY DEF FsInit, LastRow
<1> QED
  BY <1>4, <1>5, <1>6, <1>7 DEF TypeInv

LEMMA BootTypes ==
  ASSUME TypeInv, LastRow, Mounts
  PROVE  TypeInv' /\ LastRow'
<1>1. CASE PowerUp
  BY <1>1 DEF PowerUp, TypeInv, LastRow, Phases
<1>2. CASE InitHeader
  <2>1. todo' \in Seq(Writes)
    <3>1. todo' = <<>> \/ todo' = FormatWrites
      BY <1>2 DEF InitHeader
    <3> QED
      BY <3>1, FormatTypes, Writings
  <2>2. ctx' \in ContextType
    BY <1>2 DEF InitHeader, TypeInv, ContextType, ChipType
  <2>3. failed' \in Nat /\ spoilt' \in BOOLEAN
    <3>1. failed' = failed \/ failed' = failed + 1
      BY <1>2 DEF InitHeader, TransferFails
    <3>2. UNCHANGED spoilt \/ spoilt'
      BY <1>2 DEF InitHeader
    <3>3. failed' \in Nat
      BY <3>1 DEF TypeInv
    <3>4. spoilt' \in BOOLEAN
      BY <1>2, Zenon DEF InitHeader, TypeInv
    <3> QED
      BY <3>3, <3>4
  <2> QED
    BY <1>2, <2>1, <2>2, <2>3 DEF InitHeader, TypeInv, LastRow, Phases
<1>3. CASE InitMacs
  <2>1. todo' \in Seq(Writes)
    <3>1. todo' = <<>> \/ todo' = MacClearWrites
      BY <1>3 DEF InitMacs
    <3> QED
      BY <3>1, FormatTypes, Writings
  <2>2. ctx' \in ContextType
    BY <1>3 DEF InitMacs, TypeInv, ContextType, ChipType
  <2>3. failed' \in Nat /\ spoilt' \in BOOLEAN
    <3>1. failed' = failed \/ failed' = failed + 1
      BY <1>3 DEF InitMacs, TransferFails
    <3>2. UNCHANGED spoilt \/ spoilt'
      BY <1>3 DEF InitMacs
    <3>3. failed' \in Nat
      BY <3>1 DEF TypeInv
    <3>4. spoilt' \in BOOLEAN
      BY <1>3, Zenon DEF InitMacs, TypeInv
    <3> QED
      BY <3>3, <3>4
  <2> QED
    BY <1>3, <2>1, <2>2, <2>3 DEF InitMacs, TypeInv, LastRow, Phases
<1>4. CASE InitSettings
  <2>1. todo' \in Seq(Writes)
    <3>1. todo' = <<>> \/ todo' = SettingsClearWrites
      BY <1>4 DEF InitSettings
    <3> QED
      BY <3>1, FormatTypes, Writings
  <2>2. ctx' \in ContextType
    BY <1>4 DEF InitSettings, TypeInv, ContextType, ChipType
  <2>3. failed' \in Nat
    BY <1>4 DEF InitSettings, TypeInv, TransferFails
  <2> QED
    BY <1>4, <2>1, <2>2, <2>3 DEF InitSettings, TypeInv, LastRow, Phases
<1>5. CASE InitWithTime
  <2>1. ctx' \in ContextType
    BY <1>5, ListedTypes DEF InitWithTime, TypeInv, ContextType
  <2> QED
    BY <1>5, <2>1, DateType DEF InitWithTime, TypeInv, LastRow, Phases
<1> QED
  BY <1>1, <1>2, <1>3, <1>4, <1>5 DEF Mounts

LEMMA StartRowTypes ==
  ASSUME TypeInv, LastRow, NEW size \in 1..2, NEW macs \in Seq(Macs), StartRow(size, macs)
  PROVE  TypeInv' /\ LastRow'
<1> DEFINE entry == [day |-> date, size |-> size, macs |-> macs, indices |-> <<>>]
<1>1. entry \in LogType
  BY DateType DEF LogType
<1>2. log' \in Seq(LogType) /\ Len(log') = Len(log) + 1 /\ Len(log') <= MaxRows
      /\ log'[Len(log')] = entry
  BY <1>1, FramBoundAssumption DEF StartRow, TypeInv
<1>3. row' \in RowType
  BY DEF StartRow, RowType
<1>4. todo' \in Seq(Writes)
  BY EnsureTypes DEF StartRow
<1>5. ctx' \in ContextType /\ current_file_date' \in 0..MaxDay
  BY DateType, ListedTypes DEF StartRow, TypeInv, ContextType
<1>6. TypeInv'
  BY <1>2, <1>3, <1>4, <1>5 DEF StartRow, TypeInv, Phases
<1>7. \A d \in Days : \A k \in 1..Len(acked'[d]) :
        acked'[d][k] \in 1..Len(log') /\ acked'[d][k] # Len(log')
  <2> SUFFICES ASSUME NEW d \in Days, NEW k \in 1..Len(acked[d])
               PROVE  acked[d][k] \in 1..Len(log') /\ acked[d][k] # Len(log')
    BY DEF StartRow
  <2>1. acked[d][k] \in 1..Len(log)
    BY DEF LastRow
  <2>2. Len(log) \in Nat
    BY DEF TypeInv
  <2> QED
    BY <1>2, <2>1, <2>2
<1>8. /\ Len(log') >= 1 /\ row'.size \in 1..2
      /\ log'[Len(log')].size = row'.size /\ log'[Len(log')].macs = row'.macs
  <2>1. Len(log) \in Nat
    BY DEF TypeInv
  <2> QED
    BY <1>2, <2>1 DEF StartRow
<1> QED
  BY <1>6, <1>7, <1>8 DEF LastRow

LEMMA MacTypes ==
  ASSUME TypeInv, LastRow, FindOrAddMac
  PROVE  TypeInv' /\ LastRow'
<1> DEFINE m == row.macs[Len(row.indices) + 1]
           found == juxta_framfs_mac_find(m)
           new == ctx.mac_header.entry_count
<1>1. m \in Macs /\ row.indices \in Seq(MacIndices) /\ row.macs \in Seq(Macs)
  BY DEF FindOrAddMac, TypeInv, RowType
<1>2. found \in MacIndices \cup {None} /\ new \in 0..MaxMacs
  BY ListedTypes DEF TypeInv, ContextType, MacHeaderType
<1>3. phase = "row" /\ UNCHANGED <<chip, ctx, current_file_date, date, log, acked, spoilt, cuts, failed>>
  BY DEF FindOrAddMac
<1> HIDE DEF m, found, new
<1>4. CASE found # None
  <2>1. PutMac(found, m) \in Writes
    BY <1>1, <1>2, <1>4, PutTypes
  <2>2. todo' = <<PutMac(found, m)>> /\ row' = [row EXCEPT !.indices = Append(@, found)]
        /\ phase' = phase
    BY <1>4 DEF FindOrAddMac, m, found, new
  <2>3. todo' \in Seq(Writes)
    BY <2>1, <2>2, Writings, Zenon
  <2>4. row' \in RowType /\ row'.size = row.size /\ row'.macs = row.macs
    <3>1. Append(row.indices, found) \in Seq(MacIndices) /\ row \in RowType
      BY <1>1, <1>2, <1>4 DEF TypeInv
    <3>2. row' = [row EXCEPT !.indices = Append(row.indices, found)]
      BY <2>2
    <3> QED
      BY <3>1, <3>2 DEF RowType
  <2> QED
    BY <1>3, <2>2, <2>3, <2>4 DEF TypeInv, LastRow
<1>5. CASE found = None /\ new < MaxMacs
  <2>1. new \in MacIndices /\ MacHeader(new + 1) \in MacHeaderType
    BY <1>2, <1>5, ChipAssumption DEF MacIndices, MacHeader, MacHeaderType
  <2>2. PutMac(new, m) \in Writes /\ PutMacHeader(MacHeader(new + 1)) \in Writes
    BY <1>1, <2>1, PutTypes
  <2>3. todo' = <<PutMac(new, m), PutMacHeader(MacHeader(new + 1))>>
        /\ row' = [row EXCEPT !.indices = Append(@, new)] /\ phase' = phase
    BY <1>5 DEF FindOrAddMac, m, found, new
  <2>4. todo' \in Seq(Writes)
    BY <2>2, <2>3, Writings, Zenon
  <2>5. row' \in RowType /\ row'.size = row.size /\ row'.macs = row.macs
    <3>1. Append(row.indices, new) \in Seq(MacIndices) /\ row \in RowType
      BY <1>1, <2>1 DEF TypeInv
    <3>2. row' = [row EXCEPT !.indices = Append(row.indices, new)]
      BY <2>3
    <3> QED
      BY <3>1, <3>2 DEF RowType
  <2> QED
    BY <1>3, <2>3, <2>4, <2>5 DEF TypeInv, LastRow
<1>6. CASE found = None /\ ~(new < MaxMacs)
  <2>1. todo' = <<>> /\ row' = NoRow /\ phase' = "idle"
    BY <1>6 DEF FindOrAddMac, m, found, new
  <2> QED
    BY <1>3, <2>1, HeaderTypes, Writings DEF TypeInv, LastRow, Phases
<1> QED
  BY <1>4, <1>5, <1>6

\* Where the next row of the file in use goes.
Behind == chip.entries[ctx.active_file_index].start + chip.entries[ctx.active_file_index].length
RowFits == /\ ctx.active_file_index # None /\ Active(chip.entries[ctx.active_file_index])
           /\ Behind + row.size <= Size

RowWrites(addr) ==
  [p \in 1..row.size |-> PutData(addr + p - 1, [row |-> Len(log), part |-> p])]
    \o <<PutEntry(ctx.active_file_index,
                  [chip.entries[ctx.active_file_index] EXCEPT !.length = @ + row.size],
                  ctx.active_file_index, current_file_date, FALSE),
         PutHeader([ctx.header EXCEPT !.next_data_addr = addr + row.size],
                   ctx.active_file_index)>>

LEMMA AppendRowCases ==
  ASSUME AppendRow
  PROVE  /\ phase = "row" /\ todo = <<>> /\ Len(row.indices) = Len(row.macs)
         /\ log' = [log EXCEPT ![Len(log)].indices = row.indices]
         /\ \/ RowFits /\ todo' = RowWrites(Behind) /\ phase' = "append" /\ row' = row
            \/ ~RowFits /\ todo' = <<>> /\ phase' = "idle" /\ row' = NoRow
         /\ UNCHANGED <<chip, ctx, current_file_date, date, acked, spoilt, cuts, failed>>
BY DEF AppendRow, RowFits, RowWrites, Behind

LEMMA RowWritesTypes ==
  ASSUME TypeInv, RowFits, row.size \in 1..2, Len(log) >= 1
  PROVE  RowWrites(Behind) \in Seq(Writes) /\ Behind \in Nat
<1> DEFINE i == ctx.active_file_index
           e == chip.entries[i]
<1>1. i \in Slots /\ e \in Entry
  BY DEF RowFits, TypeInv, ChipType, ContextType, IndexType
<1>2. e.start \in Nat /\ e.length \in Nat /\ Behind = e.start + e.length
  BY <1>1, ChipAssumption DEF Entry, Behind
<1>3. Behind \in Nat /\ Behind + row.size \in 0..Size /\ e.length + row.size \in 0..Size
  <2>1. Behind + row.size <= Size /\ row.size \in Nat /\ Size \in Nat
    BY ChipAssumption DEF RowFits
  <2>2. PICK s \in Nat, z \in Nat, r \in Nat : s = e.start /\ z = e.length /\ r = row.size
    BY <1>2, <2>1
  <2>3. Behind = s + z /\ s + z + r <= Size
    BY <1>2, <2>1, <2>2
  <2>4. s + z \in Nat /\ s + z + r \in 0..Size /\ z + r \in 0..Size
    BY <2>1, <2>3
  <2> HIDE DEF e
  <2> QED
    BY <2>2, <2>3, <2>4
<1>4. [e EXCEPT !.length = @ + row.size] \in Entry
  BY <1>1, <1>3 DEF Entry
<1>5. [ctx.header EXCEPT !.next_data_addr = Behind + row.size] \in HeaderType
  BY <1>3 DEF TypeInv, ContextType, HeaderType
<1>6. PutEntry(i, [e EXCEPT !.length = @ + row.size], i, current_file_date, FALSE) \in Writes
  BY <1>1, <1>4, PutTypes DEF TypeInv, IndexType
<1>7. PutHeader([ctx.header EXCEPT !.next_data_addr = Behind + row.size], i) \in Writes
  BY <1>1, <1>5, PutTypes DEF IndexType
<1>8. \A p \in 1..row.size :
        PutData(Behind + p - 1, [row |-> Len(log), part |-> p]) \in Writes
  <2> SUFFICES ASSUME NEW p \in 1..row.size
               PROVE  PutData(Behind + p - 1, [row |-> Len(log), part |-> p]) \in Writes
    OBVIOUS
  <2>1. Behind + p - 1 \in Cells
    BY <1>3, ChipAssumption DEF Cells
  <2>2. [row |-> Len(log), part |-> p] \in CellType
    BY FramBoundAssumption DEF CellType, TypeInv
  <2> QED
    BY <2>1, <2>2, PutTypes
<1>9. [p \in 1..row.size |-> PutData(Behind + p - 1, [row |-> Len(log), part |-> p])]
        \in Seq(Writes)
  <2> DEFINE cell(p) == PutData(Behind + p - 1, [row |-> Len(log), part |-> p])
  <2>1. \A p \in 1..row.size : cell(p) \in Writes
    BY <1>8
  <2> HIDE DEF cell
  <2>2. [p \in 1..row.size |-> cell(p)] \in Seq(Writes)
    BY <2>1
  <2> QED
    BY <2>2 DEF cell
<1>10. <<PutEntry(i, [e EXCEPT !.length = @ + row.size], i, current_file_date, FALSE),
         PutHeader([ctx.header EXCEPT !.next_data_addr = Behind + row.size], i)>> \in Seq(Writes)
  BY <1>6, <1>7, Writings, Zenon
<1> QED
  BY <1>3, <1>9, <1>10, Writings, Zenon DEF RowWrites

LEMMA AppendRowTypes ==
  ASSUME TypeInv, LastRow, AppendRow
  PROVE  TypeInv' /\ LastRow'
<1>1. Len(log) \in Nat /\ Len(log) >= 1 /\ row.size \in 1..2 /\ phase = "row"
      /\ log[Len(log)].size = row.size /\ log[Len(log)].macs = row.macs
  BY AppendRowCases DEF TypeInv, LastRow
<1>2. log' \in Seq(LogType) /\ Len(log') = Len(log)
      /\ log'[Len(log)].size = row.size /\ log'[Len(log)].macs = row.macs
  <2>1. log[Len(log)] \in LogType
    BY <1>1 DEF TypeInv
  <2>2. [log[Len(log)] EXCEPT !.indices = row.indices] \in LogType
    BY <2>1 DEF TypeInv, RowType, LogType
  <2>3. log' = [log EXCEPT ![Len(log)] = [log[Len(log)] EXCEPT !.indices = row.indices]]
    BY AppendRowCases
  <2>4. Len(log) \in 1..Len(log)
    BY <1>1
  <2>5. log' \in Seq(LogType) /\ Len(log') = Len(log)
        /\ log'[Len(log)] = [log[Len(log)] EXCEPT !.indices = row.indices]
    <3> DEFINE r == [log[Len(log)] EXCEPT !.indices = row.indices]
    <3> HIDE DEF r
    <3>1. r \in LogType /\ log' = [log EXCEPT ![Len(log)] = r]
      BY <2>2, <2>3 DEF r
    <3>2. log \in Seq(LogType) /\ Len(log) \in Nat
      BY <1>1 DEF TypeInv
    <3>3. log' \in Seq(LogType) /\ Len(log') = Len(log) /\ log'[Len(log)] = r
      BY <2>4, <3>1, <3>2
    <3> QED
      BY <3>3 DEF r
  <2> QED
    BY <1>1, <2>1, <2>5 DEF LogType
<1>3. todo' \in Seq(Writes) /\ phase' \in Phases
  BY <1>1, AppendRowCases, RowWritesTypes, Writings DEF Phases
<1>4. row' \in RowType
  BY AppendRowCases, HeaderTypes DEF TypeInv
<1>5. TypeInv'
  BY <1>2, <1>3, <1>4, AppendRowCases DEF TypeInv
<1>6. phase' = "append" => row' = row
  BY AppendRowCases
<1>7. phase' # "row"
  BY AppendRowCases
<1> QED
  BY <1>1, <1>2, <1>5, <1>6, <1>7, AppendRowCases DEF LastRow

LEMMA RowAppendedTypes ==
  ASSUME TypeInv, LastRow, RowAppended
  PROVE  TypeInv' /\ LastRow'
<1> DEFINE name == chip.entries[ctx.active_file_index].name
<1>1. Len(log) \in Nat /\ Len(log) >= 1
  BY DEF RowAppended, TypeInv, LastRow
<1>2. \/ acked' = acked
      \/ acked' = [acked EXCEPT ![name] = Append(acked[name], Len(log))]
  BY DEF RowAppended
<1> HIDE DEF name
<1>3. \A d \in Days : acked'[d] = acked[d] \/ acked'[d] = Append(acked[d], Len(log))
  BY <1>2 DEF TypeInv
<1>4. acked' \in [Days -> Seq(Nat)]
  <2>1. acked' = [d \in Days |-> acked'[d]]
    BY <1>2 DEF TypeInv
  <2>2. \A d \in Days : acked'[d] \in Seq(Nat)
    <3>1. \A s \in Seq(Nat) : Append(s, Len(log)) \in Seq(Nat)
      BY <1>1
    <3> QED
      BY <1>3, <3>1, Zenon DEF TypeInv
  <2> QED
    BY <2>1, <2>2, Zenon
<1>5. TypeInv'
  BY <1>4, HeaderTypes DEF RowAppended, TypeInv, Phases
<1>6. ASSUME NEW d \in Days, NEW k \in 1..Len(acked'[d])
      PROVE  acked'[d][k] \in 1..Len(log)
  <2>1. CASE acked'[d] = acked[d]
    BY <2>1 DEF LastRow
  <2>2. CASE acked'[d] = Append(acked[d], Len(log))
    <3>1. acked[d] \in Seq(Nat)
      BY DEF TypeInv
    <3>2. CASE k \in 1..Len(acked[d])
      BY <2>2, <3>1, <3>2 DEF LastRow
    <3>3. CASE k = Len(acked[d]) + 1
      BY <1>1, <2>2, <3>1, <3>3
    <3> QED
      BY <2>2, <3>1, <3>2, <3>3
  <2> QED
    BY <1>3, <2>1, <2>2
<1> QED
  BY <1>5, <1>6 DEF LastRow, RowAppended

LEMMA CommandTypes ==
  ASSUME TypeInv, LastRow, OperationEnds \/ ClearMemory \/ SaveSettings \/ DateChanges \/ PowerCut
  PROVE  TypeInv' /\ LastRow'
<1>1. CASE OperationEnds
  BY <1>1, HeaderTypes DEF OperationEnds, TypeInv, LastRow, Phases
<1>2. CASE ClearMemory
  <2>1. todo' \in Seq(Writes)
    BY <1>2, FormatTypes DEF ClearMemory
  <2>2. acked' \in [Days -> Seq(Nat)] /\ \A d \in Days : Len(acked'[d]) = 0
    BY <1>2 DEF ClearMemory
  <2> QED
    BY <1>2, <2>1, <2>2 DEF ClearMemory, TypeInv, LastRow, Phases
<1>3. CASE SaveSettings
  <2>1. PutSettings("changed") \in Writes
    BY PutTypes DEF SettingsType
  <2>2. todo' \in Seq(Writes)
    BY <1>3, <2>1, Writings, Zenon DEF SaveSettings
  <2> QED
    BY <1>3, <2>2 DEF SaveSettings, TypeInv, LastRow, Phases
<1>4. CASE DateChanges
  BY <1>4 DEF DateChanges, TypeInv, LastRow
<1>5. CASE PowerCut
  <2>1. ctx' \in ContextType
    <3>1. Header(0, 0) \in HeaderType /\ MacHeader(0) \in MacHeaderType
      BY HeaderTypes, ChipAssumption
    <3> QED
      BY <1>5, <3>1 DEF PowerCut, ContextType, SettingsType, IndexType
  <2> QED
    BY <1>5, <2>1, HeaderTypes, Writings, FramBoundAssumption DEF PowerCut, TypeInv, LastRow, Phases
<1> QED
  BY <1>1, <1>2, <1>3, <1>4, <1>5

LEMMA CtxBeforeType ==
  ASSUME TypeInv, NEW w \in Writes
  PROVE  CtxBefore(w) \in ContextType
<1>1. CASE w.put = "header"
  <2>1. w.val \in HeaderType
    BY <1>1, PutKinds DEF Headers
  <2> QED
    BY <1>1, <2>1 DEF CtxBefore, TypeInv, ContextType
<1>2. CASE w.put = "entry"
  BY <1>2 DEF CtxBefore, TypeInv, ContextType, ChipType
<1>3. CASE w.put = "mac_header"
  <2>1. w.val \in MacHeaderType
    BY <1>3, PutKinds DEF MacHeaders
  <2> QED
    BY <1>3, <2>1 DEF CtxBefore, TypeInv, ContextType
<1>4. CASE w.put = "settings"
  <2>1. w.val \in SettingsType
    BY <1>4, PutKinds DEF SettingsPut
  <2> QED
    BY <1>4, <2>1 DEF CtxBefore, TypeInv, ContextType
<1>5. CASE w.put \in {"zero", "mac", "data"}
  BY <1>5 DEF CtxBefore, TypeInv
<1> QED
  BY <1>1, <1>2, <1>3, <1>4, <1>5, PutKinds

LEMMA ChipAfterType ==
  ASSUME TypeInv, NEW w \in Writes
  PROVE  ChipAfter(w) \in ChipType
<1>0. chip \in ChipType
  BY DEF TypeInv
<1>1. CASE w.put = "header"
  <2>1. w.val \in HeaderType
    BY <1>1, PutKinds DEF Headers
  <2> QED
    BY <1>0, <1>1, <2>1 DEF ChipAfter, ChipType
<1>2. CASE w.put = "entry"
  <2>1. w.val \in Entry
    BY <1>2, PutKinds DEF Entries
  <2>2. ChipAfter(w) = [chip EXCEPT !.entries = [chip.entries EXCEPT ![w.at] = w.val]]
    BY <1>2 DEF ChipAfter
  <2> QED
    BY <1>0, <2>1, <2>2 DEF ChipType
<1>3. CASE w.put = "zero" /\ w.at < MaxFiles - 1
  <2>1. ChipAfter(w) = [chip EXCEPT !.entries =
           [[chip.entries EXCEPT ![w.at] = Blank] EXCEPT ![w.at + 1].name = 0]]
    <3>1. ChipAfter(w) = [chip EXCEPT !.entries[w.at] = Blank, !.entries[w.at + 1].name = 0]
      <4>1. w.at \in Int /\ MaxFiles \in Int
        BY <1>3, PutKinds, ChipAssumption DEF Zeros, Slots
      <4> QED
        BY <1>3, <4>1 DEF ChipAfter
    <3> QED
      BY <1>0, <3>1 DEF ChipType
  <2>2. [chip.entries EXCEPT ![w.at] = Blank] \in [Slots -> Entry]
    BY <1>0, HeaderTypes DEF ChipType
  <2>3. \A f \in [Slots -> Entry], i \in Slots : [f EXCEPT ![i].name = 0] \in [Slots -> Entry]
    <3> SUFFICES ASSUME NEW f \in [Slots -> Entry], NEW i \in Slots
                 PROVE  [f EXCEPT ![i].name = 0] \in [Slots -> Entry]
      OBVIOUS
    <3>1. [f[i] EXCEPT !.name = 0] \in Entry
      BY FramBoundAssumption DEF Entry
    <3> QED
      BY <3>1
  <2>4. w.at + 1 \in Slots
    BY <1>3, PutKinds, ChipAssumption DEF Zeros, Slots
  <2> QED
    BY <1>0, <2>1, <2>2, <2>3, <2>4 DEF ChipType
<1>4. CASE w.put = "zero" /\ w.at = MaxFiles - 1
  <2>1. ChipAfter(w) = [chip EXCEPT !.entries = [chip.entries EXCEPT ![w.at] = Blank],
                                    !.macs = [chip.macs EXCEPT ![0] = NoMac],
                                    !.mac_header = [magic |-> FALSE, entry_count |-> 0]]
    BY <1>4, ChipAssumption DEF ChipAfter
  <2>2. [chip.entries EXCEPT ![w.at] = Blank] \in [Slots -> Entry]
    BY <1>0, HeaderTypes DEF ChipType
  <2>3. [chip.macs EXCEPT ![0] = NoMac] \in [MacIndices -> Macs \cup {NoMac}]
    BY <1>0 DEF ChipType
  <2>4. [magic |-> FALSE, entry_count |-> 0] \in MacHeaderType
    BY ChipAssumption DEF MacHeaderType
  <2> QED
    BY <1>0, <2>1, <2>2, <2>3, <2>4 DEF ChipType
<1>5. CASE w.put = "mac_header"
  <2>1. w.val \in MacHeaderType
    BY <1>5, PutKinds DEF MacHeaders
  <2> QED
    BY <1>0, <1>5, <2>1 DEF ChipAfter, ChipType
<1>6. CASE w.put = "mac"
  <2>1. w.val \in Macs \cup {NoMac}
    BY <1>6, PutKinds DEF MacEntries
  <2>2. ChipAfter(w) = [chip EXCEPT !.macs = [chip.macs EXCEPT ![w.at] = w.val]]
    BY <1>6 DEF ChipAfter
  <2> QED
    BY <1>0, <2>1, <2>2 DEF ChipType
<1>7. CASE w.put = "settings"
  <2>1. w.val \in SettingsType
    BY <1>7, PutKinds DEF SettingsPut
  <2> QED
    BY <1>0, <1>7, <2>1 DEF ChipAfter, ChipType
<1>8. CASE w.put = "data"
  <2>1. w.val \in CellType
    BY <1>8, PutKinds DEF DataPut
  <2>2. ChipAfter(w) = [chip EXCEPT !.data = [chip.data EXCEPT ![w.at] = w.val]]
    BY <1>8 DEF ChipAfter
  <2> QED
    BY <1>0, <2>1, <2>2 DEF ChipType
<1>9. w.put = "zero" => w.at < MaxFiles - 1 \/ w.at = MaxFiles - 1
  BY PutKinds, ChipAssumption DEF Zeros, Slots
<1> QED
  BY <1>1, <1>2, <1>3, <1>4, <1>5, <1>6, <1>7, <1>8, <1>9, PutKinds

LEMMA WriteTypes ==
  ASSUME TypeInv, LastRow, juxta_fram_write \/ WriteFails
  PROVE  TypeInv' /\ LastRow'
<1> DEFINE w == Head(todo)
<1>1. w \in Writes /\ Tail(todo) \in Seq(Writes)
  BY DEF juxta_fram_write, WriteFails, TypeInv
<1>2. CASE juxta_fram_write
  <2>1. chip' \in ChipType
    BY <1>1, <1>2, ChipAfterType DEF juxta_fram_write
  <2>2. ctx' \in ContextType
    <3>1. CtxBefore(w) \in ContextType
      BY <1>1, CtxBeforeType
    <3>2. w.put \in {"header", "entry"} => w.active \in IndexType
      BY <1>1, PutKinds DEF Headers, Entries
    <3>3. CASE w.put \in {"header", "entry"}
      <4>1. ctx' = [CtxBefore(w) EXCEPT !.active_file_index = w.active]
        BY <1>2, <3>3 DEF juxta_fram_write
      <4> HIDE DEF w
      <4> QED
        BY <3>1, <3>2, <3>3, <4>1 DEF ContextType
    <3>4. CASE w.put \notin {"header", "entry"} /\ w.put = "zero" /\ w.at = MaxFiles - 1
      <4>1. ctx' = [ctx EXCEPT !.active_file_index = None]
        BY <1>2, <3>4 DEF juxta_fram_write
      <4> QED
        BY <4>1 DEF TypeInv, ContextType, IndexType
    <3>5. CASE w.put \notin {"header", "entry"} /\ ~(w.put = "zero" /\ w.at = MaxFiles - 1)
      <4>1. ctx' = CtxBefore(w)
        BY <1>2, <3>5 DEF juxta_fram_write
      <4> QED
        BY <3>1, <4>1
    <3> QED
      BY <3>3, <3>4, <3>5
  <2>3. current_file_date' \in 0..MaxDay
    <3>1. w.put = "entry" => w.day \in 0..MaxDay
      BY <1>1, PutKinds DEF Entries
    <3> QED
      BY <1>2, <3>1 DEF juxta_fram_write, TypeInv
  <2>4. acked' \in [Days -> Seq(Nat)] /\ \A d \in Days : acked'[d] = acked[d] \/ acked'[d] = <<>>
    <3>1. acked' = acked \/ acked' = [acked EXCEPT ![w.val.name] = <<>>]
      BY <1>2 DEF juxta_fram_write
    <3>2. acked \in [Days -> Seq(Nat)] /\ <<>> \in Seq(Nat)
      BY DEF TypeInv
    <3> QED
      BY <3>1, <3>2
  <2>5. TypeInv'
    BY <1>1, <1>2, <2>1, <2>2, <2>3, <2>4 DEF juxta_fram_write, TypeInv
  <2> QED
    BY <1>2, <2>4, <2>5 DEF juxta_fram_write, LastRow
<1>3. CASE WriteFails
  <2>1. ctx' \in ContextType
    BY <1>1, <1>3, CtxBeforeType DEF WriteFails
  <2>2. spoilt' \in BOOLEAN /\ failed' \in Nat /\ phase' \in Phases
    BY <1>3 DEF WriteFails, TransferFails, TypeInv, Phases
  <2> QED
    BY <1>3, <2>1, <2>2, HeaderTypes, Writings DEF WriteFails, TypeInv, LastRow
<1> QED
  BY <1>2, <1>3

LEMMA FramTypesStep ==
  ASSUME TypeInv, LastRow, [FsNext]_fsVars
  PROVE  TypeInv' /\ LastRow'
<1>1. CASE Mounts
  BY <1>1, BootTypes
<1>2. CASE Operations
  <2>1. ASSUME NEW macs \in Lists, StartRow(1, macs) PROVE TypeInv' /\ LastRow'
    <3>1. macs \in Seq(Macs) /\ 1 \in 1..2
      BY ChipAssumption
    <3> QED
      BY <2>1, <3>1, StartRowTypes
  <2>2. CASE StartRow(2, <<>>)
    <3>1. <<>> \in Seq(Macs) /\ 2 \in 1..2
      OBVIOUS
    <3> QED
      BY <2>2, <3>1, StartRowTypes
  <2> QED
    BY <1>2, <2>1, <2>2, MacTypes, AppendRowTypes, RowAppendedTypes, CommandTypes DEF Operations
<1>3. CASE juxta_fram_write \/ WriteFails
  BY <1>3, WriteTypes
<1>4. CASE PowerCut \/ DateChanges
  BY <1>4, CommandTypes
<1>5. CASE UNCHANGED fsVars
  BY <1>5 DEF fsVars, TypeInv, LastRow
<1> QED
  BY <1>1, <1>2, <1>3, <1>4, <1>5 DEF FsNext

LEMMA TypeInvImplies == TypeInv => FsTypeOK
BY DEF TypeInv, FsTypeOK, ChipType, ContextType, HeaderType, MacHeaderType, CellType,
       SettingsType, IndexType, MacIndices, Phases

-----------------------------------------------------------------------------
(* FramFs: what the chip keeps. *)

Count    == chip.header.file_count
NextAddr == chip.header.next_data_addr
Used     == 0..Count - 1
InUse    == ctx.active_file_index
End(e)   == e.start + e.length
Nothing  == \A d \in Days : acked[d] = <<>>

\* The entries counted: valid, within the chip, of different days, one active at
\* most, whose end is where the next row goes, not before the end of data in the
\* header.
FilesApart ==
  /\ ~chip.header.magic => Count = 0 /\ NextAddr = 0
  /\ \A i \in Used : Valid(chip.entries[i]) /\ chip.entries[i].name \in Days
  /\ \A i \in Used : End(chip.entries[i]) <= Size
  /\ \A i, j \in Used : chip.entries[i].name = chip.entries[j].name => i = j
  /\ \A i, j \in Used : Active(chip.entries[i]) /\ Active(chip.entries[j]) => i = j
  /\ \A i \in Used : Active(chip.entries[i]) => End(chip.entries[i]) >= NextAddr

\* No part of a row is on the chip twice.
CellsApart ==
  /\ \A a, b \in Cells : chip.data[a] = chip.data[b] /\ chip.data[a].row # 0 => a = b
  /\ \A a \in Cells : chip.data[a].row <= Len(log)

At(n, a) == \A p \in 1..log[n].size :
  a + p - 1 \in Cells /\ chip.data[a + p - 1] = [row |-> n, part |-> p]

\* Row n is in file i, at a, in front of the end of data.
Holds(i, n, a) ==
  /\ chip.entries[i].start <= a /\ a + log[n].size <= End(chip.entries[i])
  /\ a + log[n].size <= NextAddr
  /\ At(n, a)

AckedPlaces ==
  \A d \in Days : \A k \in 1..Len(acked[d]) :
    \E i \in Used, a \in Cells : chip.entries[i].name = d /\ Holds(i, acked[d][k], a)

AckedInOrder ==
  \A d \in Days : \A j, k \in 1..Len(acked[d]) : j < k =>
    \A a, b \in Cells :
      /\ chip.data[a] = [row |-> acked[d][j], part |-> 1]
      /\ chip.data[b] = [row |-> acked[d][k], part |-> 1]
      => a < b

Kept == FilesApart /\ CellsApart /\ AckedPlaces /\ AckedInOrder

-----------------------------------------------------------------------------
(* FramFs: the context, and what is left of an operation. *)

InRam  == ctx.header.file_count = Count /\ ctx.header.next_data_addr >= NextAddr
Magic  == chip.header.magic /\ ctx.header.magic

\* The file in use is the active one.
Chosen ==
  /\ InUse # None => InUse \in Used /\ Active(chip.entries[InUse])
  /\ InUse = None => \A i \in Used : ~Active(chip.entries[i])

\* A write m before the end of a format, of the clearing of the addresses, of both.
IsFormat(w, m) ==
  /\ m = MaxFiles + 1 => w.put = "header" /\ w.val = Header(0, 0)
  /\ m <= MaxFiles => w = PutZero(MaxFiles - m)
IsMacClear(w, m) ==
  /\ m = MaxMacs + 1 => w = PutMacHeader(MacHeader(0))
  /\ m <= MaxMacs => w.put = "mac"
IsClear(w, m) ==
  /\ m = 1 => w.put = "settings"
  /\ m >= 2 /\ m <= MaxMacs + 2 => IsMacClear(w, m - 1)
  /\ m > MaxMacs + 2 => IsFormat(w, m - MaxMacs - 2)

Left == Len(todo)
Formatting ==
  /\ Left <= MaxFiles + 1 /\ \A k \in 1..Left : IsFormat(todo[k], Left - k + 1)
  /\ Left > 0 => Count = 0 /\ NextAddr = 0
  /\ Left <= MaxFiles => Magic
ClearingMacs == Left <= MaxMacs + 1 /\ \A k \in 1..Left : IsMacClear(todo[k], Left - k + 1)
ClearingSettings == \A k \in 1..Left : todo[k].put = "settings"
Clearing ==
  /\ Left <= MaxFiles + MaxMacs + 3 /\ \A k \in 1..Left : IsClear(todo[k], Left - k + 1)
  /\ Left < MaxFiles + MaxMacs + 3 => Count = 0 /\ NextAddr = 0
  /\ Left <= MaxMacs + 2 => InUse = None
  /\ Nothing

Seal == PutEntry(InUse, Sealed(chip.entries[InUse]), None, date, FALSE)
Make == PutEntry(Count, NewFile(date, ctx.header.next_data_addr), None, date, FALSE)
MakeHeader == PutHeader([ctx.header EXCEPT !.file_count = Count + 1], Count)
Begin(f) == PutEntry(f, NewFile(date, NextAddr), f, date, TRUE)

SealScript == InUse # None /\ todo = <<Seal>>
MakeScript ==
  /\ Count < MaxFiles /\ \A i \in Used : chip.entries[i].name # date
  /\ \/ InUse # None /\ todo = <<Seal, Make, MakeHeader>>
     \/ InUse = None /\ todo = <<Make, MakeHeader>>
     \/ InUse = None /\ chip.entries[Count] = NewFile(date, ctx.header.next_data_addr)
        /\ todo = <<MakeHeader>>
BeginScript == \E f \in Used :
  /\ chip.entries[f].name = date
  /\ \/ InUse # None /\ todo = <<Seal, Begin(f)>>
     \/ InUse = None /\ todo = <<Begin(f)>>
MacScript ==
  /\ Left >= 1 /\ Left <= 2 /\ \A k \in 1..Left : todo[k].put \in {"mac", "mac_header"}
RowScript == todo = <<>> \/ SealScript \/ MakeScript \/ BeginScript \/ MacScript

\* Where the row being appended starts; its entry is written two before the end.
RowStart == IF Left >= 2 THEN Behind ELSE Behind - row.size

IsAppend(w, m) ==
  /\ m = 1 => w = PutHeader([ctx.header EXCEPT !.next_data_addr = RowStart + row.size], InUse)
  /\ m = 2 => w = PutEntry(InUse, [chip.entries[InUse] EXCEPT !.length = @ + row.size],
                           InUse, current_file_date, FALSE)
  /\ m >= 3 => w = PutData(RowStart + row.size + 2 - m,
                           [row |-> Len(log), part |-> row.size + 3 - m])
Appending ==
  /\ InUse # None
  /\ Left <= row.size + 2 /\ \A k \in 1..Left : IsAppend(todo[k], Left - k + 1)
  /\ RowStart >= chip.entries[InUse].start /\ RowStart + row.size <= Size
  /\ Left >= 1 => RowStart >= NextAddr
  /\ Left = 0 => NextAddr = RowStart + row.size
  /\ \A p \in 1..row.size : p <= row.size + 2 - Left =>
       chip.data[RowStart + p - 1] = [row |-> Len(log), part |-> p]
  /\ \A a \in Cells : chip.data[a].row = Len(log) =>
       a >= RowStart /\ a < RowStart + row.size + 2 - Left
  /\ \A d \in Days : \A k \in 1..Len(acked[d]) : \A a \in Cells :
       chip.data[a] = [row |-> acked[d][k], part |-> 1] => a < RowStart

Running == {"idle", "row", "append", "refused", "save", "clear"}
Mounted == Running \cup {"macs", "settings", "active"}

PhaseInv ==
  /\ phase \in {"off", "dead", "header", "idle"} => todo = <<>>
  /\ phase \in Mounted => InRam
  /\ phase \in Mounted \ {"macs"} => Magic
  /\ phase \in Running \ {"clear"} => Chosen
  /\ phase = "macs" => Formatting
  /\ phase = "settings" => ClearingMacs
  /\ phase = "active" => ClearingSettings
  /\ phase = "save" => ClearingSettings
  /\ phase = "refused" => todo = <<>> \/ SealScript
  /\ phase = "row" => RowScript /\ \A a \in Cells : chip.data[a].row # Len(log)
  /\ phase = "append" => Appending
  /\ phase = "clear" => Clearing

FramInv == ~spoilt => Kept /\ PhaseInv

-----------------------------------------------------------------------------
(* FramFs: what a step leaves of what the chip keeps. *)

LEMMA ChipFacts ==
  ASSUME NEW c \in ChipType
  PROVE  /\ c.header.file_count \in 0..MaxFiles /\ c.header.file_count \in Nat
         /\ c.header.next_data_addr \in 0..Size /\ c.header.next_data_addr \in Nat
         /\ 0..c.header.file_count - 1 \subseteq Slots
         /\ \A i \in Slots : /\ c.entries[i] \in Entry
                             /\ c.entries[i].start \in Nat /\ c.entries[i].length \in Nat
                             /\ End(c.entries[i]) \in Nat
         /\ \A a \in Cells : c.data[a] \in CellType /\ c.data[a].row \in Nat
         /\ Cells \subseteq Nat /\ Slots \subseteq Nat
<1>1. c.header \in HeaderType
  BY DEF ChipType
<1>2. /\ c.header.file_count \in 0..MaxFiles /\ c.header.file_count \in Nat
      /\ c.header.next_data_addr \in 0..Size /\ c.header.next_data_addr \in Nat
  BY <1>1, ChipAssumption DEF HeaderType
<1>3. 0..c.header.file_count - 1 \subseteq Slots
  BY <1>2, ChipAssumption DEF Slots
<1>4. ASSUME NEW i \in Slots
      PROVE  /\ c.entries[i] \in Entry
             /\ c.entries[i].start \in Nat /\ c.entries[i].length \in Nat
             /\ End(c.entries[i]) \in Nat
  <2>1. c.entries[i] \in Entry
    BY DEF ChipType
  <2>2. c.entries[i].start \in Nat /\ c.entries[i].length \in Nat
    BY <2>1, ChipAssumption DEF Entry
  <2> QED
    BY <2>1, <2>2 DEF End
<1>5. ASSUME NEW a \in Cells
      PROVE  c.data[a] \in CellType /\ c.data[a].row \in Nat
  <2>1. c.data[a] \in CellType
    BY DEF ChipType
  <2> QED
    BY <2>1, FramBoundAssumption DEF CellType
<1>6. Cells \subseteq Nat /\ Slots \subseteq Nat
  BY DEF Cells, Slots
<1> QED
  BY <1>2, <1>3, <1>4, <1>5, <1>6

LEMMA LogFacts ==
  ASSUME TypeInv, LastRow
  PROVE  /\ Len(log) \in Nat /\ \A n \in 1..Len(log) : log[n].size \in 1..2
         /\ \A d \in Days : /\ acked[d] \in Seq(Nat) /\ Len(acked[d]) \in Nat
                            /\ \A k \in 1..Len(acked[d]) : acked[d][k] \in 1..Len(log)
<1>1. log \in Seq(LogType) /\ acked \in [Days -> Seq(Nat)]
  BY DEF TypeInv
<1>2. \A n \in 1..Len(log) : log[n] \in LogType
  BY <1>1
<1>3. \A n \in 1..Len(log) : log[n].size \in 1..2
  BY <1>2 DEF LogType
<1>4. \A d \in Days : acked[d] \in Seq(Nat) /\ Len(acked[d]) \in Nat
  BY <1>1
<1>5. \A d \in Days : \A k \in 1..Len(acked[d]) : acked[d][k] \in 1..Len(log)
  BY Zenon DEF LastRow
<1>6. Len(log) \in Nat
  BY <1>1
<1> QED
  BY <1>3, <1>4, <1>5, <1>6, Zenon

\* The log of a later state still has the rows of this one.
Grown == Len(log') \in Nat /\ Len(log') >= Len(log)
         /\ \A n \in 1..Len(log) : log'[n].size = log[n].size

LEMMA Beneath ==
  \A b, c \in Nat : c >= b => \A i \in 0..b - 1 : i \in 0..c - 1
OBVIOUS

LEMMA PlacesKept ==
  ASSUME TypeInv, TypeInv', LastRow, AckedPlaces, Grown, acked' = acked,
         Count' >= Count, NextAddr' >= NextAddr,
         \A i \in Used : /\ chip'.entries[i].name = chip.entries[i].name
                         /\ chip'.entries[i].start = chip.entries[i].start
                         /\ chip'.entries[i].length >= chip.entries[i].length,
         \A a \in Cells : a < NextAddr => chip'.data[a] = chip.data[a]
  PROVE  AckedPlaces'
<1> SUFFICES ASSUME NEW d \in Days, NEW k \in 1..Len(acked[d])
             PROVE  \E i \in Used', a \in Cells :
                      chip'.entries[i].name = d /\ Holds(i, acked[d][k], a)'
  BY DEF AckedPlaces
<1>0. PICK n : n = acked[d][k]
  OBVIOUS
<1>1. n \in 1..Len(log) /\ log'[n].size = log[n].size /\ log[n].size \in 1..2
  BY <1>0, LogFacts DEF Grown
<1>2. PICK i \in Used, a \in Cells : chip.entries[i].name = d /\ Holds(i, n, a)
  BY <1>0 DEF AckedPlaces
<1>3. chip \in ChipType /\ chip' \in ChipType
  BY DEF TypeInv
<1>4. i \in Used' /\ i \in Slots
  <2>1. Count \in Nat /\ Count' \in Nat /\ Used \subseteq Slots
    BY <1>3, ChipFacts DEF Used, Count
  <2>2. PICK b \in Nat, c \in Nat : b = Count /\ c = Count' /\ c >= b
    BY <2>1
  <2>3. i \in 0..b - 1
    BY <2>2 DEF Used
  <2>4. i \in 0..c - 1
    BY <2>2, <2>3, Beneath, Zenon
  <2> QED
    BY <2>1, <2>2, <2>4 DEF Used
<1>5. End(chip'.entries[i]) >= End(chip.entries[i])
  <2>1. PICK c \in ChipType, f \in ChipType : c = chip /\ f = chip'
    BY <1>3
  <2>2. c.entries[i].start \in Nat /\ c.entries[i].length \in Nat
    BY <1>4, ChipFacts
  <2>3. f.entries[i].length \in Nat
    BY <1>4, ChipFacts
  <2>4. f.entries[i].start = c.entries[i].start /\ f.entries[i].length >= c.entries[i].length
    BY <1>2, <2>1
  <2>5. f.entries[i].start + f.entries[i].length >= c.entries[i].start + c.entries[i].length
    BY <2>2, <2>3, <2>4
  <2> QED
    BY <2>1, <2>5 DEF End
<1>6. At(n, a)'
  <2> SUFFICES ASSUME NEW p \in 1..log[n].size
               PROVE  /\ a + p - 1 \in Cells
                      /\ chip'.data[a + p - 1] = [row |-> n, part |-> p]
    BY <1>1 DEF At
  <2>1. a + p - 1 \in Cells /\ chip.data[a + p - 1] = [row |-> n, part |-> p]
    BY <1>2 DEF Holds, At
  <2>2. a + p - 1 < NextAddr
    <3>1. a + log[n].size <= NextAddr
      BY <1>2 DEF Holds
    <3>2. a \in Nat /\ NextAddr \in Nat
      BY <1>3, ChipFacts DEF NextAddr
    <3> QED
      BY <1>1, <3>1, <3>2
  <2> QED
    BY <2>1, <2>2
<1>7. a + log[n].size <= NextAddr' /\ chip'.entries[i].start <= a
      /\ a + log[n].size <= End(chip'.entries[i])
  <2>1. /\ NextAddr \in Nat /\ NextAddr' \in Nat /\ a \in Nat
        /\ End(chip.entries[i]) \in Nat /\ End(chip'.entries[i]) \in Nat
    BY <1>3, <1>4, ChipFacts DEF NextAddr
  <2>2. /\ a + log[n].size <= NextAddr /\ chip.entries[i].start <= a
        /\ a + log[n].size <= End(chip.entries[i])
    BY <1>2 DEF Holds
  <2> QED
    BY <1>1, <1>5, <2>1, <2>2
<1>8. Holds(i, n, a)'
  BY <1>1, <1>6, <1>7 DEF Holds
<1>9. chip'.entries[i].name = d
  BY <1>2
<1> QED
  BY <1>0, <1>4, <1>8, <1>9

\* New cells are of rows not acknowledged.
LEMMA OrderKept ==
  ASSUME AckedInOrder, acked' = acked,
         \A a \in Cells : \/ chip'.data[a] = chip.data[a]
                          \/ \A d \in Days : \A k \in 1..Len(acked[d]) :
                               chip'.data[a].row # acked[d][k]
  PROVE  AckedInOrder'
<1> SUFFICES ASSUME NEW d \in Days, NEW j \in 1..Len(acked[d]), NEW k \in 1..Len(acked[d]), j < k,
                    NEW a \in Cells, NEW b \in Cells,
                    chip'.data[a] = [row |-> acked[d][j], part |-> 1],
                    chip'.data[b] = [row |-> acked[d][k], part |-> 1]
             PROVE  a < b
  BY DEF AckedInOrder
<1>1. chip'.data[a].row = acked[d][j] /\ chip'.data[b].row = acked[d][k]
  OBVIOUS
<1>2. chip'.data[a] = chip.data[a] /\ chip'.data[b] = chip.data[b]
  BY <1>1
<1> QED
  BY <1>2 DEF AckedInOrder

LEMMA CellsKept ==
  ASSUME TypeInv, TypeInv', CellsApart, chip'.data = chip.data, Grown
  PROVE  CellsApart'
<1>1. \A a \in Cells : chip.data[a].row \in Nat /\ chip.data[a].row <= Len(log)
  BY ChipFacts DEF TypeInv, CellsApart
<1>2. Len(log) \in Nat
  BY DEF TypeInv
<1> QED
  BY <1>1, <1>2 DEF CellsApart, Grown

\* Nothing that matters of the chip changes, the log only grows.
LEMMA KeptSame ==
  ASSUME TypeInv, TypeInv', LastRow, Kept, Grown, acked' = acked,
         chip'.header = chip.header, chip'.entries = chip.entries, chip'.data = chip.data
  PROVE  Kept'
<1>1. FilesApart'
  BY DEF Kept, FilesApart, Count, NextAddr, Used
<1>2. CellsApart'
  BY CellsKept DEF Kept
<1>3. AckedPlaces'
  <2>1. /\ \A i \in Used : chip.entries[i].length >= chip.entries[i].length
        /\ NextAddr >= NextAddr /\ Count >= Count
    <3>1. chip \in ChipType
      BY DEF TypeInv
    <3>2. Count \in Nat /\ NextAddr \in Nat /\ Used \subseteq Slots
      BY <3>1, ChipFacts DEF Used, Count, NextAddr
    <3>3. \A i \in Slots : chip.entries[i].length \in Nat
      BY <3>1, ChipFacts
    <3> QED
      BY <3>2, <3>3
  <2>2. Count' = Count /\ NextAddr' = NextAddr
    BY DEF Count, NextAddr
  <2> QED
    BY <2>1, <2>2, PlacesKept DEF Kept
<1>4. AckedInOrder'
  BY OrderKept DEF Kept
<1> QED
  BY <1>1, <1>2, <1>3, <1>4 DEF Kept

\* All rows are forgotten, the files stay.
LEMMA KeptCleared ==
  ASSUME TypeInv, TypeInv', Kept, Grown, chip' = chip, Nothing'
  PROVE  Kept'
<1>1. FilesApart'
  BY DEF Kept, FilesApart, Count, NextAddr, Used
<1>2. CellsApart'
  BY CellsKept DEF Kept
<1>3. \A d \in Days : Len(acked'[d]) = 0
  BY DEF Nothing
<1>4. AckedPlaces' /\ AckedInOrder'
  BY <1>3 DEF AckedPlaces, AckedInOrder
<1> QED
  BY <1>1, <1>2, <1>4 DEF Kept

\* No entry counts: entries and header may be anything.
LEMMA KeptEmpty ==
  ASSUME TypeInv, TypeInv', Kept, Nothing, acked' = acked, log' = log,
         Count' = 0, NextAddr' = 0, chip'.data = chip.data
  PROVE  Kept'
<1>1. Used' = {}
  BY DEF Used
<1>2. FilesApart'
  BY <1>1 DEF FilesApart
<1>3. CellsApart'
  BY DEF Kept, CellsApart
<1>4. \A d \in Days : Len(acked'[d]) = 0
  BY DEF Nothing
<1>5. AckedPlaces' /\ AckedInOrder'
  BY <1>4 DEF AckedPlaces, AckedInOrder
<1> QED
  BY <1>2, <1>3, <1>5 DEF Kept

\* Without files there are no rows.
LEMMA NoFilesNothing ==
  ASSUME TypeInv, LastRow, Kept, Count = 0
  PROVE  Nothing
<1>1. Used = {}
  BY DEF Used
<1>2. ASSUME NEW d \in Days PROVE acked[d] = <<>>
  <2>1. acked[d] \in Seq(Nat)
    BY DEF TypeInv
  <2>2. \A k \in 1..Len(acked[d]) : FALSE
    BY <1>1 DEF Kept, AckedPlaces
  <2> QED
    BY <2>1, <2>2
<1> QED
  BY <1>2 DEF Nothing

\* The entry of the file in use, sealed or longer, or one that does not count.
LEMMA KeptEntry ==
  ASSUME TypeInv, TypeInv', LastRow, Kept, acked' = acked, log' = log,
         chip'.header = chip.header, chip'.data = chip.data,
         \A i \in Used : LET e == chip.entries[i]
                             f == chip'.entries[i]
                         IN  /\ f.name = e.name /\ f.start = e.start /\ f.length >= e.length
                             /\ Valid(e) => Valid(f)
                             /\ Active(f) => Active(e)
                             /\ End(f) <= Size
  PROVE  Kept'
<1>1. Count' = Count /\ NextAddr' = NextAddr /\ Used' = Used
  BY DEF Count, NextAddr, Used
<1>2. Grown
  BY DEF Grown, TypeInv
<1>3. FilesApart'
  <2>1. ~chip'.header.magic => Count' = 0 /\ NextAddr' = 0
    BY <1>1 DEF Kept, FilesApart
  <2>2. \A i \in Used : Valid(chip'.entries[i]) /\ chip'.entries[i].name \in Days
    BY DEF Kept, FilesApart
  <2>3. \A i, j \in Used : chip'.entries[i].name = chip'.entries[j].name => i = j
    BY DEF Kept, FilesApart
  <2>4. \A i, j \in Used : Active(chip'.entries[i]) /\ Active(chip'.entries[j]) => i = j
    BY DEF Kept, FilesApart
  <2>5. ASSUME NEW i \in Used, Active(chip'.entries[i]) PROVE End(chip'.entries[i]) >= NextAddr
    <3>1. Active(chip.entries[i]) /\ chip'.entries[i].start = chip.entries[i].start
          /\ chip'.entries[i].length >= chip.entries[i].length
      BY <2>5
    <3>2. End(chip.entries[i]) >= NextAddr
      BY <3>1 DEF Kept, FilesApart
    <3>3. /\ chip.entries[i].start \in Nat /\ chip.entries[i].length \in Nat
          /\ chip'.entries[i].length \in Nat /\ NextAddr \in Nat
      BY ChipFacts DEF TypeInv, Used, Count, NextAddr
    <3> QED
      BY <3>1, <3>2, <3>3 DEF End
  <2>6. \A i \in Used : End(chip'.entries[i]) <= Size
    OBVIOUS
  <2> QED
    BY <1>1, <2>1, <2>2, <2>3, <2>4, <2>5, <2>6 DEF FilesApart
<1>4. CellsApart'
  BY <1>2, CellsKept DEF Kept
<1>5. AckedPlaces'
  <2>1. Count' >= Count /\ NextAddr' >= NextAddr
    BY <1>1, ChipFacts DEF TypeInv, Count, NextAddr
  <2> QED
    BY <1>2, <2>1, PlacesKept DEF Kept
<1>6. AckedInOrder'
  BY OrderKept DEF Kept
<1> QED
  BY <1>3, <1>4, <1>5, <1>6 DEF Kept

-----------------------------------------------------------------------------
(* FramFs: each action keeps the invariant. *)

Steady == TypeInv /\ LastRow /\ Kept /\ PhaseInv

LEMMA Joined ==
  ASSUME NEW S, NEW s \in Seq(S), NEW t \in Seq(S)
  PROVE  /\ s \o t \in Seq(S) /\ Len(s \o t) = Len(s) + Len(t)
         /\ Len(s) \in Nat /\ Len(t) \in Nat
         /\ \A k \in 1..Len(s) : (s \o t)[k] = s[k]
         /\ \A k \in Len(s) + 1..Len(s) + Len(t) : (s \o t)[k] = t[k - Len(s)]
         /\ Len(t) = 1 => (s \o t)[Len(s) + 1] = t[1]
OBVIOUS

Items(f) == {f[k] : k \in DOMAIN f}
LEMMA Listing ==
  ASSUME NEW n \in Nat, NEW f, f = [k \in 1..n |-> f[k]]
  PROVE  f \in Seq(Items(f)) /\ Len(f) = n /\ DOMAIN f = 1..n
<1>1. DOMAIN f = 1..n
  OBVIOUS
<1>2. \A k \in 1..n : f[k] \in Items(f)
  BY <1>1 DEF Items
<1> QED
  BY <1>1, <1>2

LEMMA FormatScript ==
  /\ Len(FormatWrites) = MaxFiles + 1
  /\ \A k \in 1..MaxFiles + 1 : IsFormat(FormatWrites[k], MaxFiles + 2 - k)
<1> DEFINE zeros == [i \in 1..MaxFiles |-> PutZero(i - 1)]
           first == PutHeader(Header(0, 0), ctx.active_file_index)
<1>1. MaxFiles \in Nat
  BY ChipAssumption
<1>2. zeros \in Seq(Items(zeros)) /\ Len(zeros) = MaxFiles
      /\ \A k \in 1..MaxFiles : zeros[k] = PutZero(k - 1)
  BY <1>1, Listing DEF Items
<1>3. FormatWrites = <<first>> \o zeros
  BY DEF FormatWrites
<1>4. first.put = "header" /\ first.val = Header(0, 0)
  BY DEF PutHeader
<1> HIDE DEF zeros, first
<1>5. /\ Len(FormatWrites) = MaxFiles + 1 /\ FormatWrites[1] = first
      /\ \A k \in 2..MaxFiles + 1 : FormatWrites[k] = zeros[k - 1]
  BY <1>1, <1>2, <1>3
<1>6. \A k \in 2..MaxFiles + 1 : FormatWrites[k] = PutZero(k - 2)
  <2> SUFFICES ASSUME NEW k \in 2..MaxFiles + 1 PROVE FormatWrites[k] = PutZero(k - 2)
    OBVIOUS
  <2>1. k - 1 \in 1..MaxFiles /\ (k - 1) - 1 = k - 2
    BY <1>1
  <2> QED
    BY <1>2, <1>5, <2>1
<1>7. ASSUME NEW k \in 1..MaxFiles + 1 PROVE IsFormat(FormatWrites[k], MaxFiles + 2 - k)
  <2>1. CASE k = 1
    BY <1>1, <1>4, <1>5, <2>1 DEF IsFormat
  <2>2. CASE k # 1
    <3>1. FormatWrites[k] = PutZero(k - 2) /\ MaxFiles - (MaxFiles + 2 - k) = k - 2
          /\ MaxFiles + 2 - k # MaxFiles + 1
      BY <1>1, <1>6, <2>2
    <3> QED
      BY <3>1 DEF IsFormat
  <2> QED
    BY <2>1, <2>2
<1> QED
  BY <1>5, <1>7

LEMMA MacClearScript ==
  /\ Len(MacClearWrites) = MaxMacs + 1
  /\ \A k \in 1..MaxMacs + 1 : IsMacClear(MacClearWrites[k], MaxMacs + 2 - k)
<1> DEFINE blanks == [i \in 1..MaxMacs |-> PutMac(i - 1, NoMac)]
           first == PutMacHeader(MacHeader(0))
<1>1. MaxMacs \in Nat
  BY ChipAssumption
<1>2. blanks \in Seq(Items(blanks)) /\ Len(blanks) = MaxMacs
      /\ \A k \in 1..MaxMacs : blanks[k] = PutMac(k - 1, NoMac)
  BY <1>1, Listing DEF Items
<1>3. MacClearWrites = <<first>> \o blanks
  BY DEF MacClearWrites
<1>4. \A k \in 1..MaxMacs : blanks[k].put = "mac"
  BY <1>2 DEF PutMac
<1> HIDE DEF blanks, first
<1>5. /\ Len(MacClearWrites) = MaxMacs + 1 /\ MacClearWrites[1] = first
      /\ \A k \in 2..MaxMacs + 1 : MacClearWrites[k] = blanks[k - 1]
  BY <1>1, <1>2, <1>3
<1>7. ASSUME NEW k \in 1..MaxMacs + 1 PROVE IsMacClear(MacClearWrites[k], MaxMacs + 2 - k)
  <2>1. CASE k = 1
    BY <1>1, <1>5, <2>1 DEF IsMacClear, first
  <2>2. CASE k # 1
    <3>1. k - 1 \in 1..MaxMacs /\ MaxMacs + 2 - k # MaxMacs + 1 /\ k \in 2..MaxMacs + 1
      BY <1>1, <2>2
    <3>2. MacClearWrites[k].put = "mac"
      BY <1>4, <1>5, <3>1
    <3> QED
      BY <3>1, <3>2 DEF IsMacClear
  <2> QED
    BY <2>1, <2>2
<1> QED
  BY <1>5, <1>7

LEMMA ClearScript ==
  ASSUME TypeInv
  PROVE  LET all == FormatWrites \o MacClearWrites \o SettingsClearWrites
         IN  /\ all \in Seq(Writes) /\ Len(all) = MaxFiles + MaxMacs + 3
             /\ \A k \in 1..Len(all) : IsClear(all[k], Len(all) - k + 1)
<1> DEFINE f == FormatWrites
           c == MacClearWrites
           s == SettingsClearWrites
           g == f \o c
           all == g \o s
<1>1. MaxFiles \in Nat /\ MaxMacs \in Nat
  BY ChipAssumption
<1>2. f \in Seq(Writes) /\ c \in Seq(Writes) /\ s \in Seq(Writes)
  BY FormatTypes
<1>3. Len(f) = MaxFiles + 1 /\ Len(c) = MaxMacs + 1
  BY FormatScript, MacClearScript
<1>4. Len(s) = 1 /\ s[1].put = "settings"
  BY DEF SettingsClearWrites, PutSettings
<1>5. \A k \in 1..MaxFiles + 1 : IsFormat(f[k], MaxFiles + 2 - k)
  BY FormatScript
<1>6. \A k \in 1..MaxMacs + 1 : IsMacClear(c[k], MaxMacs + 2 - k)
  BY MacClearScript
<1> HIDE DEF f, c, s
<1>71. /\ g \in Seq(Writes) /\ Len(g) = MaxFiles + MaxMacs + 2
       /\ \A k \in 1..MaxFiles + 1 : g[k] = f[k]
       /\ \A k \in MaxFiles + 2..MaxFiles + MaxMacs + 2 : g[k] = c[k - (MaxFiles + 1)]
  <2> HIDE DEF g
  <2>1. /\ g \in Seq(Writes) /\ Len(g) = Len(f) + Len(c)
        /\ \A k \in 1..Len(f) : g[k] = f[k]
        /\ \A k \in Len(f) + 1..Len(f) + Len(c) : g[k] = c[k - Len(f)]
    BY <1>2, Joined DEF g
  <2> QED
    BY <1>1, <1>3, <2>1
<1> HIDE DEF g
<1>7. all \in Seq(Writes) /\ Len(all) = MaxFiles + MaxMacs + 3
  <2>1. all \in Seq(Writes) /\ Len(all) = Len(g) + Len(s)
    BY <1>2, <1>71, Joined
  <2> QED
    BY <1>1, <1>4, <1>71, <2>1
<1>8. /\ \A k \in 1..MaxFiles + 1 : all[k] = f[k]
      /\ \A k \in MaxFiles + 2..MaxFiles + MaxMacs + 2 : all[k] = c[k - (MaxFiles + 1)]
      /\ all[MaxFiles + MaxMacs + 3] = s[1]
  <2>1. /\ \A k \in 1..Len(g) : all[k] = g[k]
        /\ all[Len(g) + 1] = s[1]
    BY <1>2, <1>4, <1>71, Joined
  <2> HIDE DEF all
  <2>2. \A k \in 1..MaxFiles + MaxMacs + 2 : all[k] = g[k]
    BY <1>71, <2>1
  <2>3. Len(g) + 1 = MaxFiles + MaxMacs + 3
    BY <1>1, <1>71
  <2>4. all[MaxFiles + MaxMacs + 3] = s[1]
    BY <2>1, <2>3
  <2>5. ASSUME NEW k \in 1..MaxFiles + 1 PROVE all[k] = f[k]
    BY <1>1, <1>71, <2>2
  <2>6. ASSUME NEW k \in MaxFiles + 2..MaxFiles + MaxMacs + 2
        PROVE  all[k] = c[k - (MaxFiles + 1)]
    BY <1>1, <1>71, <2>2
  <2> QED
    BY <2>4, <2>5, <2>6
<1>9. ASSUME NEW k \in 1..MaxFiles + MaxMacs + 3
      PROVE  IsClear(all[k], MaxFiles + MaxMacs + 4 - k)
  <2> DEFINE m == MaxFiles + MaxMacs + 4 - k
  <2> HIDE DEF all
  <2>1. CASE k \in 1..MaxFiles + 1
    <3>1. m > MaxMacs + 2 /\ m # 1 /\ ~(m <= MaxMacs + 2) /\ m - MaxMacs - 2 = MaxFiles + 2 - k
      BY <1>1, <2>1
    <3>2. IsFormat(all[k], m - MaxMacs - 2)
      BY <1>5, <1>8, <2>1, <3>1
    <3> QED
      BY <3>1, <3>2 DEF IsClear
  <2>2. CASE k \in MaxFiles + 2..MaxFiles + MaxMacs + 2
    <3>1. /\ ~(m > MaxMacs + 2) /\ m # 1 /\ k - (MaxFiles + 1) \in 1..MaxMacs + 1
          /\ m - 1 = MaxMacs + 2 - (k - (MaxFiles + 1))
      BY <1>1, <2>2
    <3>2. IsMacClear(all[k], m - 1)
      BY <1>6, <1>8, <2>2, <3>1
    <3> QED
      BY <3>1, <3>2 DEF IsClear
  <2>3. CASE k = MaxFiles + MaxMacs + 3
    <3>1. m = 1 /\ ~(m >= 2) /\ ~(m > MaxMacs + 2)
      BY <1>1, <2>3
    <3> QED
      BY <1>4, <1>8, <2>3, <3>1 DEF IsClear
  <2> QED
    BY <1>1, <2>1, <2>2, <2>3
<1>10. \A k \in 1..Len(all) : IsClear(all[k], Len(all) - k + 1)
  <2> SUFFICES ASSUME NEW k \in 1..MaxFiles + MaxMacs + 3
               PROVE  IsClear(all[k], Len(all) - k + 1)
    BY <1>7
  <2>1. Len(all) - k + 1 = MaxFiles + MaxMacs + 4 - k
    BY <1>1, <1>7
  <2> QED
    BY <1>9, <2>1
<1> QED
  BY <1>7, <1>10 DEF f, c, s, g

LEMMA GrownSame ==
  ASSUME TypeInv, log' = log
  PROVE  Grown
BY DEF TypeInv, Grown

LEMMA BootSteady ==
  ASSUME Steady, TypeInv', ~spoilt', Mounts
  PROVE  (Kept /\ PhaseInv)'
<1>0. TypeInv /\ LastRow /\ Kept /\ PhaseInv
  BY DEF Steady
<1>1. Kept'
  <2>1. chip' = chip /\ acked' = acked /\ log' = log
    BY DEF Mounts, PowerUp, InitHeader, InitMacs, InitSettings, InitWithTime
  <2> QED
    BY <1>0, <2>1, GrownSame, KeptSame
<1>2. MaxFiles \in Nat /\ MaxMacs \in Nat
  BY ChipAssumption
<1>3. CASE PowerUp
  BY <1>0, <1>1, <1>3 DEF PowerUp, PhaseInv, Running, Mounted
<1>4. CASE InitHeader
  <2>1. /\ phase = "header" /\ phase' = "macs" /\ chip' = chip /\ acked' = acked
        /\ ctx' = [ctx EXCEPT !.header = chip.header]
        /\ todo' = IF chip.header.magic THEN <<>> ELSE FormatWrites
    BY <1>4 DEF InitHeader
  <2>2. ctx'.header = chip.header
    BY <1>0, <2>1 DEF TypeInv, ContextType
  <2>3. InRam'
    <3>1. NextAddr \in Nat
      BY <1>0, ChipFacts DEF TypeInv, NextAddr
    <3> QED
      BY <2>1, <2>2, <3>1 DEF InRam, Count, NextAddr
  <2>4. CASE chip.header.magic
    <3>1. todo' = <<>> /\ Left' = 0
      BY <2>1, <2>4 DEF Left
    <3>2. Magic'
      BY <2>1, <2>2, <2>4 DEF Magic
    <3>3. Formatting'
      BY <1>2, <3>1, <3>2 DEF Formatting
    <3> QED
      BY <1>1, <2>1, <2>3, <3>3 DEF PhaseInv, Running, Mounted
  <2>5. CASE ~chip.header.magic
    <3>1. Count' = 0 /\ NextAddr' = 0
      BY <1>0, <2>1, <2>5 DEF Kept, FilesApart, Count, NextAddr
    <3>2. Left' = MaxFiles + 1 /\ todo' = FormatWrites
      BY <2>1, <2>5, FormatScript DEF Left
    <3>3. \A k \in 1..Left' : IsFormat(todo'[k], Left' - k + 1)
      <4> SUFFICES ASSUME NEW k \in 1..MaxFiles + 1
                   PROVE  IsFormat(FormatWrites[k], Left' - k + 1)
        BY <3>2
      <4>1. Left' - k + 1 = MaxFiles + 2 - k
        BY <1>2, <3>2
      <4> QED
        BY <4>1, FormatScript
    <3>4. Formatting'
      BY <1>2, <3>1, <3>2, <3>3 DEF Formatting
    <3> QED
      BY <1>1, <2>1, <2>3, <3>4 DEF PhaseInv, Running, Mounted
  <2> QED
    BY <2>4, <2>5
<1>5. CASE InitMacs
  <2>1. /\ phase = "macs" /\ phase' = "settings" /\ chip' = chip /\ acked' = acked /\ todo = <<>>
        /\ ctx' = [ctx EXCEPT !.mac_header = chip.mac_header]
        /\ todo' = IF chip.mac_header.magic THEN <<>> ELSE MacClearWrites
    BY <1>5 DEF InitMacs
  <2>2. ctx'.header = ctx.header
    BY <1>0, <2>1 DEF TypeInv, ContextType
  <2>3. Left = 0
    BY <2>1 DEF Left
  <2>4. InRam' /\ Magic'
    BY <1>0, <1>2, <2>1, <2>2, <2>3 DEF PhaseInv, Mounted, Formatting, InRam, Magic, Count, NextAddr
  <2>5. ClearingMacs'
    <3>1. CASE todo' = <<>>
      BY <1>2, <3>1 DEF ClearingMacs, Left
    <3>2. CASE todo' = MacClearWrites
      <4>1. Left' = MaxMacs + 1
        BY <3>2, MacClearScript DEF Left
      <4>2. \A k \in 1..Left' : IsMacClear(todo'[k], Left' - k + 1)
        <5> SUFFICES ASSUME NEW k \in 1..MaxMacs + 1
                     PROVE  IsMacClear(MacClearWrites[k], Left' - k + 1)
          BY <3>2, <4>1
        <5>1. Left' - k + 1 = MaxMacs + 2 - k
          BY <1>2, <4>1
        <5> QED
          BY <5>1, MacClearScript
      <4> QED
        BY <1>2, <4>1, <4>2 DEF ClearingMacs
    <3> QED
      BY <2>1, <3>1, <3>2
  <2> QED
    BY <1>1, <2>1, <2>4, <2>5 DEF PhaseInv, Running, Mounted
<1>6. CASE InitSettings
  <2>1. /\ phase = "settings" /\ phase' = "active" /\ chip' = chip
        /\ ctx' = [ctx EXCEPT !.settings = chip.settings] \/ ctx' = ctx
        /\ todo' = <<>> \/ todo' = SettingsClearWrites
    BY <1>6 DEF InitSettings
  <2>2. ctx'.header = ctx.header
    BY <1>0, <2>1 DEF TypeInv, ContextType
  <2>3. InRam' /\ Magic'
    BY <1>0, <2>1, <2>2 DEF PhaseInv, Mounted, Running, InRam, Magic, Count, NextAddr
  <2>4. ClearingSettings'
    BY <2>1 DEF ClearingSettings, Left, SettingsClearWrites, PutSettings
  <2> QED
    BY <1>1, <2>1, <2>3, <2>4 DEF PhaseInv, Running, Mounted
<1>7. CASE InitWithTime
  <2>1. /\ phase = "active" /\ phase' = "idle" /\ chip' = chip /\ todo = <<>> /\ todo' = <<>>
        /\ ctx' = [ctx EXCEPT !.active_file_index = framfs_find_active_file]
    BY <1>7 DEF InitWithTime
  <2>2. ctx'.header = ctx.header /\ InUse' = framfs_find_active_file
    BY <1>0, <2>1 DEF TypeInv, ContextType, InUse
  <2>3. InRam' /\ Magic'
    BY <1>0, <2>1, <2>2 DEF PhaseInv, Mounted, Running, InRam, Magic, Count, NextAddr
  <2>4. ctx.header.file_count = Count
    BY <1>0, <2>1 DEF PhaseInv, Mounted, Running, InRam
  <2> DEFINE S == {i \in ListedEntries : Active(chip.entries[i])}
  <2>5. S = {i \in Used : Active(chip.entries[i])}
    <3>1. Used \subseteq Slots /\ Count \in Nat
      BY <1>0, ChipFacts DEF TypeInv, Used, Count
    <3>2. \A i \in Slots : i < Count <=> i \in Used
      BY <3>1 DEF Slots, Used
    <3>3. \A i \in Used : Valid(chip.entries[i])
      BY <1>0 DEF Kept, FilesApart
    <3> QED
      BY <2>4, <3>1, <3>2, <3>3 DEF ListedEntries
  <2>6. S \in SUBSET Nat
    BY DEF ListedEntries, Slots
  <2>7. Chosen'
    <3>1. (S = {} => InUse' = None) /\ (S # {} => InUse' \in S /\ InUse' # None)
      BY <2>2, <2>6, FirstOf DEF framfs_find_active_file
    <3> QED
      BY <2>1, <2>5, <3>1 DEF Chosen, Used, Count
  <2> QED
    BY <1>1, <2>1, <2>3, <2>7 DEF PhaseInv, Running, Mounted
<1> QED
  BY <1>3, <1>4, <1>5, <1>6, <1>7 DEF Mounts

LEMMA CommandSteady ==
  ASSUME Steady, TypeInv', ~spoilt', ClearMemory \/ SaveSettings \/ DateChanges \/ PowerCut
  PROVE  (Kept /\ PhaseInv)'
<1>0. TypeInv /\ LastRow /\ Kept /\ PhaseInv
  BY DEF Steady
<1>1. MaxFiles \in Nat /\ MaxMacs \in Nat
  BY ChipAssumption
<1>2. CASE ClearMemory
  <2>1. /\ phase = "idle" /\ phase' = "clear" /\ chip' = chip /\ ctx' = ctx /\ log' = log
        /\ todo' = FormatWrites \o MacClearWrites \o SettingsClearWrites
        /\ acked' = [d \in Days |-> <<>>]
    BY <1>2 DEF ClearMemory
  <2>2. Nothing'
    BY <2>1 DEF Nothing
  <2>3. Kept'
    BY <1>0, <2>1, <2>2, GrownSame, KeptCleared
  <2>4. InRam' /\ Magic'
    BY <1>0, <2>1 DEF PhaseInv, Mounted, Running, InRam, Magic, Count, NextAddr
  <2>5. Left' = MaxFiles + MaxMacs + 3 /\ \A k \in 1..Left' : IsClear(todo'[k], Left' - k + 1)
    BY <1>0, <2>1, ClearScript DEF Left
  <2>6. Clearing'
    BY <1>1, <2>2, <2>5 DEF Clearing
  <2> QED
    BY <2>1, <2>3, <2>4, <2>6 DEF PhaseInv, Running, Mounted
<1>3. CASE SaveSettings
  <2>1. /\ phase = "idle" /\ phase' = "save" /\ chip' = chip /\ ctx' = ctx /\ acked' = acked
        /\ log' = log /\ todo' = <<PutSettings("changed")>>
    BY <1>3 DEF SaveSettings
  <2>2. Kept'
    BY <1>0, <2>1, GrownSame, KeptSame
  <2>3. InRam' /\ Magic' /\ Chosen'
    BY <1>0, <2>1 DEF PhaseInv, Mounted, Running, InRam, Magic, Chosen, InUse, Used, Count, NextAddr
  <2>4. ClearingSettings'
    BY <2>1 DEF ClearingSettings, Left, PutSettings
  <2> QED
    BY <2>1, <2>2, <2>3, <2>4 DEF PhaseInv, Running, Mounted
<1>4. CASE DateChanges
  <2>1. /\ phase = "idle" /\ phase' = "idle" /\ chip' = chip /\ ctx' = ctx /\ acked' = acked
        /\ log' = log /\ todo' = todo
    BY <1>4 DEF DateChanges
  <2>2. Kept'
    BY <1>0, <2>1, GrownSame, KeptSame
  <2>3. InRam' /\ Magic' /\ Chosen'
    BY <1>0, <2>1 DEF PhaseInv, Mounted, Running, InRam, Magic, Chosen, InUse, Used, Count, NextAddr
  <2> QED
    BY <1>0, <2>1, <2>2, <2>3 DEF PhaseInv, Running, Mounted
<1>5. CASE PowerCut
  <2>1. phase' = "off" /\ todo' = <<>> /\ chip' = chip /\ acked' = acked /\ log' = log
    BY <1>5 DEF PowerCut
  <2>2. Kept'
    BY <1>0, <2>1, GrownSame, KeptSame
  <2> QED
    BY <2>1, <2>2 DEF PhaseInv, Running, Mounted
<1> QED
  BY <1>2, <1>3, <1>4, <1>5

LEMMA EndSteady ==
  ASSUME Steady, TypeInv', OperationEnds
  PROVE  (Kept /\ PhaseInv)'
<1>0. TypeInv /\ LastRow /\ Kept /\ PhaseInv
  BY DEF Steady
<1>1. /\ phase \in {"refused", "clear", "save"} /\ phase' = "idle" /\ todo = <<>> /\ todo' = <<>>
      /\ chip' = chip /\ ctx' = ctx /\ acked' = acked /\ log' = log
  BY DEF OperationEnds
<1>2. Kept'
  BY <1>0, <1>1, GrownSame, KeptSame
<1>3. InRam' /\ Magic'
  BY <1>0, <1>1 DEF PhaseInv, Mounted, Running, InRam, Magic, Count, NextAddr
<1>4. Chosen
  <2>1. CASE phase = "clear"
    <3>1. Left = 0 /\ MaxFiles \in Nat /\ MaxMacs \in Nat
      BY <1>1, ChipAssumption DEF Left
    <3>2. Count = 0 /\ InUse = None
      BY <1>0, <2>1, <3>1 DEF PhaseInv, Clearing
    <3> QED
      BY <3>2 DEF Chosen, Used
  <2>2. CASE phase # "clear"
    BY <1>0, <1>1, <2>2 DEF PhaseInv, Running
  <2> QED
    BY <2>1, <2>2
<1>5. Chosen'
  BY <1>1, <1>4 DEF Chosen, InUse, Used, Count
<1> QED
  BY <1>1, <1>2, <1>3, <1>5 DEF PhaseInv, Running, Mounted

\* framfs_find_file, while the context knows how many entries count.
LEMMA FoundToday ==
  ASSUME TypeInv, Kept, InRam, NEW name
  PROVE  LET f == framfs_find_file(name)
         IN  \/ f = None /\ \A i \in Used : chip.entries[i].name # name
             \/ f # None /\ f \in Used /\ chip.entries[f].name = name
<1> DEFINE S == {i \in ListedEntries : chip.entries[i].name = name}
<1>1. S \in SUBSET Nat
  BY DEF ListedEntries, Slots
<1>2. S = {i \in Used : chip.entries[i].name = name}
  <2>1. Used \subseteq Slots /\ Count \in Nat
    BY ChipFacts DEF TypeInv, Used, Count
  <2>2. \A i \in Slots : i < Count <=> i \in Used
    BY <2>1 DEF Slots, Used
  <2>3. \A i \in Used : Valid(chip.entries[i])
    BY DEF Kept, FilesApart
  <2> QED
    BY <2>1, <2>2, <2>3 DEF ListedEntries, InRam
<1>3. framfs_find_file(name) = First(S)
  BY DEF framfs_find_file
<1> QED
  BY <1>1, <1>2, <1>3, FirstOf

LEMMA NothingReused ==
  ASSUME TypeInv, Kept, InRam, Chosen
  PROVE  ~Reused
<1> SUFFICES ASSUME Reused PROVE FALSE
  OBVIOUS
<1>1. PICK f : f = framfs_find_file(date)
  OBVIOUS
<1>2. f # None /\ f # InUse /\ Active(chip.entries[f])
  BY <1>1 DEF Reused, InUse
<1>3. f \in Used
  BY <1>1, <1>2, FoundToday
<1> QED
  BY <1>2, <1>3 DEF Chosen, Kept, FilesApart

LEMMA Concatenations ==
  /\ \A a, b : <<a>> \o <<b>> = <<a, b>>
  /\ \A a, b, c : <<a>> \o <<b, c>> = <<a, b, c>>
  /\ \A a : <<a>> \o <<>> = <<a>> /\ <<>> \o <<a>> = <<a>>
  /\ \A a, b : <<>> \o <<a, b>> = <<a, b>>
<1>1. ASSUME NEW a, NEW b PROVE <<a>> \o <<b>> = <<a, b>>
  <2>1. <<a>> \o <<b>> \in Seq({a, b}) /\ <<a, b>> \in Seq({a, b}) /\ Len(<<a>> \o <<b>>) = 2
    OBVIOUS
  <2>2. \A i \in 1..2 : (<<a>> \o <<b>>)[i] = <<a, b>>[i]
    OBVIOUS
  <2> QED
    BY <2>1, <2>2, SeqEqual
<1>2. ASSUME NEW a, NEW b, NEW c PROVE <<a>> \o <<b, c>> = <<a, b, c>>
  <2>1. /\ <<a>> \o <<b, c>> \in Seq({a, b, c}) /\ <<a, b, c>> \in Seq({a, b, c})
        /\ Len(<<a>> \o <<b, c>>) = 3
    OBVIOUS
  <2>2. \A i \in 1..3 : (<<a>> \o <<b, c>>)[i] = <<a, b, c>>[i]
    OBVIOUS
  <2> QED
    BY <2>1, <2>2, SeqEqual
<1>3. ASSUME NEW a PROVE <<a>> \o <<>> = <<a>> /\ <<>> \o <<a>> = <<a>>
  OBVIOUS
<1>4. ASSUME NEW a, NEW b PROVE <<>> \o <<a, b>> = <<a, b>>
  OBVIOUS
<1> QED
  BY <1>1, <1>2, <1>3, <1>4, Zenon

LEMMA EnsureCases ==
  ASSUME TypeInv, Kept, InRam, Chosen
  PROVE  \/ ~NoFile /\ EnsureWrites = <<>>
         \/ NoFile /\ EnsureWrites = IF InUse = None THEN <<>> ELSE <<Seal>>
         \/ /\ ~NoFile /\ Count < MaxFiles /\ \A i \in Used : chip.entries[i].name # date
            /\ EnsureWrites = IF InUse = None THEN <<Make, MakeHeader>>
                              ELSE <<Seal, Make, MakeHeader>>
         \/ ~NoFile /\ \E f \in Used :
              /\ chip.entries[f].name = date
              /\ EnsureWrites = IF InUse = None THEN <<Begin(f)>> ELSE <<Seal, Begin(f)>>
<1>1. PICK f : f = framfs_find_file(date)
  OBVIOUS
<1>2. CASE ~Stale
  BY <1>2 DEF EnsureWrites, NoFile
<1>3. CASE Stale
  <2>1. SealWrites(date, IF Reused THEN f ELSE None) = IF InUse = None THEN <<>> ELSE <<Seal>>
    BY NothingReused DEF SealWrites, Seal, Sealed, InUse
  <2> DEFINE made == <<Make, MakeHeader>>
             begun == <<Begin(f)>>
             rest == CASE f = None /\ Count < MaxFiles -> made
                     [] f # None /\ (f = ctx.active_file_index \/ ~Active(chip.entries[f])) -> begun
                     [] OTHER -> <<>>
  <2>2. EnsureWrites = SealWrites(date, IF Reused THEN f ELSE None) \o rest
    BY <1>1, <1>3 DEF EnsureWrites, InRam, Make, MakeHeader, Begin, NextAddr
  <2>3. NoFile <=> f = None /\ Count >= MaxFiles
    BY <1>1, <1>3 DEF NoFile, InRam
  <2>4. Count \in Nat /\ MaxFiles \in Nat
    BY ChipFacts, ChipAssumption DEF TypeInv, Count
  <2> HIDE DEF made, begun
  <2>5. CASE f = None /\ Count < MaxFiles
    <3>1. rest = made
      BY <2>5
    <3>2. EnsureWrites = IF InUse = None THEN <<Make, MakeHeader>> ELSE <<Seal, Make, MakeHeader>>
      <4>1. ASSUME InUse = None PROVE EnsureWrites = <<Make, MakeHeader>>
        <5>1. EnsureWrites = <<>> \o <<Make, MakeHeader>>
          BY <2>1, <2>2, <3>1, <4>1 DEF made
        <5> QED
          BY <5>1, Concatenations, Zenon
      <4>2. ASSUME InUse # None PROVE EnsureWrites = <<Seal, Make, MakeHeader>>
        <5>1. EnsureWrites = <<Seal>> \o <<Make, MakeHeader>>
          BY <2>1, <2>2, <3>1, <4>2 DEF made
        <5> QED
          BY <5>1, Concatenations, Zenon
      <4> QED
        BY <4>1, <4>2
    <3>3. \A i \in Used : chip.entries[i].name # date
      BY <1>1, <2>5, FoundToday
    <3> QED
      BY <2>3, <2>4, <2>5, <3>2, <3>3
  <2>6. CASE f # None
    <3>1. f = ctx.active_file_index \/ ~Active(chip.entries[f])
      BY <1>1, <1>3, <2>6, NothingReused DEF Reused
    <3>2. rest = begun
      BY <2>6, <3>1
    <3>3. EnsureWrites = IF InUse = None THEN <<Begin(f)>> ELSE <<Seal, Begin(f)>>
      BY <2>1, <2>2, <3>2, Concatenations, Zenon DEF begun
    <3>4. f \in Used /\ chip.entries[f].name = date
      BY <1>1, <2>6, FoundToday
    <3> QED
      BY <2>3, <2>6, <3>3, <3>4
  <2>7. CASE f = None /\ ~(Count < MaxFiles)
    <3>1. rest = <<>>
      BY <2>7
    <3>2. EnsureWrites = IF InUse = None THEN <<>> ELSE <<Seal>>
      <4>1. <<>> \o <<>> = <<>>
        OBVIOUS
      <4> QED
        BY <2>1, <2>2, <3>1, <4>1, Concatenations, Zenon
    <3> QED
      BY <2>3, <2>4, <2>7, <3>2
  <2> QED
    BY <2>5, <2>6, <2>7
<1> QED
  BY <1>2, <1>3

LEMMA StartSteady ==
  ASSUME Steady, TypeInv', NEW size \in 1..2, NEW macs \in Seq(Macs), StartRow(size, macs)
  PROVE  (Kept /\ PhaseInv)'
<1>0. TypeInv /\ LastRow /\ Kept /\ PhaseInv
  BY DEF Steady
<1>1. /\ phase = "idle" /\ phase' = IF NoFile THEN "refused" ELSE "row"
      /\ log' = Append(log, [day |-> date, size |-> size, macs |-> macs, indices |-> <<>>])
      /\ todo' = EnsureWrites /\ chip' = chip /\ date' = date /\ acked' = acked
  BY DEF StartRow
<1>2. InRam /\ Magic /\ Chosen
  BY <1>0, <1>1 DEF PhaseInv, Mounted, Running
<1>3. ctx' = ctx
  BY <1>0, <1>2, NothingReused DEF StartRow
<1>4. log \in Seq(LogType) /\ Len(log) \in Nat
  BY <1>0 DEF TypeInv
<1>5. Grown /\ Len(log') = Len(log) + 1
  BY <1>1, <1>4 DEF Grown
<1>6. Kept'
  BY <1>0, <1>1, <1>5, KeptSame
<1>7. InRam' /\ Magic' /\ Chosen'
  BY <1>1, <1>2, <1>3 DEF InRam, Magic, Chosen, InUse, Used, Count, NextAddr
<1>8. /\ Seal' = Seal /\ Make' = Make /\ MakeHeader' = MakeHeader /\ Count' = Count
      /\ Used' = Used /\ InUse' = InUse /\ \A f : Begin(f)' = Begin(f)
  BY <1>1, <1>3 DEF Seal, Make, MakeHeader, Begin, Count, InUse, Used, NextAddr
<1>9. \A a \in Cells : chip'.data[a].row # Len(log')
  <2>1. \A a \in Cells : chip.data[a].row \in Nat /\ chip.data[a].row <= Len(log)
    BY <1>0, ChipFacts DEF TypeInv, Kept, CellsApart
  <2> QED
    BY <1>1, <1>4, <1>5, <2>1
<1>10. CASE ~NoFile /\ EnsureWrites = <<>>
  BY <1>1, <1>6, <1>7, <1>9, <1>10 DEF PhaseInv, Mounted, Running, RowScript
<1>11. CASE NoFile /\ EnsureWrites = IF InUse = None THEN <<>> ELSE <<Seal>>
  <2>1. todo' = <<>> \/ SealScript'
    BY <1>1, <1>8, <1>11 DEF SealScript
  <2> QED
    BY <1>1, <1>6, <1>7, <1>11, <2>1 DEF PhaseInv, Mounted, Running
<1>12. CASE /\ ~NoFile /\ Count < MaxFiles /\ \A i \in Used : chip.entries[i].name # date
            /\ EnsureWrites = IF InUse = None THEN <<Make, MakeHeader>>
                              ELSE <<Seal, Make, MakeHeader>>
  <2>1. MakeScript'
    BY <1>1, <1>8, <1>12 DEF MakeScript
  <2> QED
    BY <1>1, <1>6, <1>7, <1>9, <1>12, <2>1 DEF PhaseInv, Mounted, Running, RowScript
<1>13. CASE ~NoFile /\ \E f \in Used :
              /\ chip.entries[f].name = date
              /\ EnsureWrites = IF InUse = None THEN <<Begin(f)>> ELSE <<Seal, Begin(f)>>
  <2>1. BeginScript'
    BY <1>1, <1>8, <1>13 DEF BeginScript
  <2> QED
    BY <1>1, <1>6, <1>7, <1>9, <1>13, <2>1 DEF PhaseInv, Mounted, Running, RowScript
<1> QED
  BY <1>0, <1>2, <1>10, <1>11, <1>12, <1>13, EnsureCases

LEMMA MacSteady ==
  ASSUME Steady, TypeInv', FindOrAddMac
  PROVE  (Kept /\ PhaseInv)'
<1>0. TypeInv /\ LastRow /\ Kept /\ PhaseInv
  BY DEF Steady
<1>1. /\ phase = "row" /\ chip' = chip /\ ctx' = ctx /\ log' = log /\ acked' = acked
  BY DEF FindOrAddMac
<1>2. \/ phase' = "idle" /\ todo' = <<>>
      \/ phase' = "row" /\ \E i, m : todo' = <<PutMac(i, m)>>
      \/ phase' = "row" /\ \E i, m, h : todo' = <<PutMac(i, m), PutMacHeader(h)>>
  BY DEF FindOrAddMac
<1>3. Kept'
  BY <1>0, <1>1, GrownSame, KeptSame
<1>4. InRam' /\ Magic' /\ Chosen'
  BY <1>0, <1>1 DEF PhaseInv, Mounted, Running, InRam, Magic, Chosen, InUse, Used, Count, NextAddr
<1>5. CASE phase' = "idle" /\ todo' = <<>>
  BY <1>3, <1>4, <1>5 DEF PhaseInv, Mounted, Running
<1>6. CASE phase' = "row"
  <2>1. MacScript'
    <3>1. ASSUME NEW i, NEW m, todo' = <<PutMac(i, m)>> PROVE MacScript'
      BY <3>1 DEF MacScript, Left, PutMac
    <3>2. ASSUME NEW i, NEW m, NEW h, todo' = <<PutMac(i, m), PutMacHeader(h)>> PROVE MacScript'
      BY <3>2 DEF MacScript, Left, PutMac, PutMacHeader
    <3> QED
      BY <1>2, <1>6, <3>1, <3>2
  <2>2. \A a \in Cells : chip'.data[a].row # Len(log')
    BY <1>0, <1>1 DEF PhaseInv
  <2> QED
    BY <1>3, <1>4, <1>6, <2>1, <2>2 DEF PhaseInv, Mounted, Running, RowScript
<1> QED
  BY <1>2, <1>5, <1>6

LEMMA RowWritesScript ==
  ASSUME TypeInv, RowFits, row.size \in 1..2, Len(log) >= 1
  PROVE  /\ Len(RowWrites(Behind)) = row.size + 2
         /\ RowWrites(Behind)[row.size + 2] =
              PutHeader([ctx.header EXCEPT !.next_data_addr = Behind + row.size], InUse)
         /\ RowWrites(Behind)[row.size + 1] =
              PutEntry(InUse, [chip.entries[InUse] EXCEPT !.length = @ + row.size],
                       InUse, current_file_date, FALSE)
         /\ \A p \in 1..row.size : RowWrites(Behind)[p] =
              PutData(Behind + p - 1, [row |-> Len(log), part |-> p])
<1> DEFINE h == PutHeader([ctx.header EXCEPT !.next_data_addr = Behind + row.size], InUse)
           e == PutEntry(InUse, [chip.entries[InUse] EXCEPT !.length = @ + row.size],
                         InUse, current_file_date, FALSE)
           cell(p) == PutData(Behind + p - 1, [row |-> Len(log), part |-> p])
           cells == [p \in 1..row.size |-> cell(p)]
<1>1. RowWrites(Behind) = cells \o <<e, h>>
  BY DEF RowWrites, InUse
<1>2. row.size \in Nat
  OBVIOUS
<1> HIDE DEF h, e, cell
<1>3. cells \in Seq(Items(cells)) /\ Len(cells) = row.size /\ \A p \in 1..row.size : cells[p] = cell(p)
  BY <1>2, Listing
<1> HIDE DEF cells
<1>4. /\ Len(cells \o <<e, h>>) = row.size + 2
      /\ (cells \o <<e, h>>)[row.size + 1] = e /\ (cells \o <<e, h>>)[row.size + 2] = h
      /\ \A p \in 1..row.size : (cells \o <<e, h>>)[p] = cells[p]
  <2>1. \A S : \A s \in Seq(S) :
          /\ Len(s \o <<e, h>>) = Len(s) + 2
          /\ (s \o <<e, h>>)[Len(s) + 1] = e /\ (s \o <<e, h>>)[Len(s) + 2] = h
          /\ \A p \in 1..Len(s) : (s \o <<e, h>>)[p] = s[p]
    OBVIOUS
  <2>2. /\ Len(cells \o <<e, h>>) = Len(cells) + 2
        /\ (cells \o <<e, h>>)[Len(cells) + 1] = e /\ (cells \o <<e, h>>)[Len(cells) + 2] = h
        /\ \A p \in 1..Len(cells) : (cells \o <<e, h>>)[p] = cells[p]
    BY <1>3, <2>1, Zenon
  <2> QED
    BY <1>3, <2>2
<1> QED
  BY <1>1, <1>3, <1>4 DEF h, e, cell

\* A row acknowledged begins in front of what is written next.
LEMMA AckedInFront ==
  ASSUME TypeInv, LastRow, Kept,
         NEW d \in Days, NEW k \in 1..Len(acked[d]), NEW a \in Cells,
         chip.data[a] = [row |-> acked[d][k], part |-> 1]
  PROVE  a < NextAddr
<1>0. PICK n : n = acked[d][k]
  OBVIOUS
<1>1. n \in 1..Len(log) /\ log[n].size \in 1..2 /\ Len(log) \in Nat
  BY <1>0, LogFacts
<1>2. PICK i \in Used, b \in Cells : Holds(i, n, b)
  BY <1>0 DEF Kept, AckedPlaces
<1>3. b + log[n].size <= NextAddr /\ b \in Nat /\ NextAddr \in Nat
  BY <1>2, ChipFacts DEF Holds, TypeInv, NextAddr
<1>4. chip.data[b] = [row |-> n, part |-> 1]
  <2>1. chip.data[b + 1 - 1] = [row |-> n, part |-> 1]
    BY <1>1, <1>2 DEF Holds, At
  <2> QED
    BY <1>3, <2>1
<1>5. chip.data[a] = chip.data[b] /\ chip.data[a].row # 0
  BY <1>0, <1>1, <1>4
<1>6. a = b
  BY <1>5 DEF Kept, CellsApart
<1> QED
  BY <1>1, <1>3, <1>6

LEMMA AppendSteady ==
  ASSUME Steady, TypeInv', AppendRow
  PROVE  (Kept /\ PhaseInv)'
<1>0. TypeInv /\ LastRow /\ Kept /\ PhaseInv
  BY DEF Steady
<1>1. /\ phase = "row" /\ todo = <<>> /\ chip' = chip /\ ctx' = ctx /\ acked' = acked
      /\ log' = [log EXCEPT ![Len(log)].indices = row.indices]
      /\ current_file_date' = current_file_date
  BY AppendRowCases
<1>2. log \in Seq(LogType) /\ Len(log) \in Nat /\ Len(log) >= 1 /\ row.size \in 1..2
  BY <1>0, <1>1 DEF TypeInv, LastRow
<1>3. Len(log') = Len(log) /\ Grown
  <2>1. Len(log') = Len(log)
    BY <1>1, <1>2
  <2>2. \A n \in 1..Len(log) : log'[n].size = log[n].size
    BY <1>1, <1>2 DEF LogType
  <2> QED
    BY <1>2, <2>1, <2>2 DEF Grown
<1>4. Kept'
  BY <1>0, <1>1, <1>3, KeptSame
<1>5. InRam /\ Magic /\ Chosen
  BY <1>0, <1>1 DEF PhaseInv, Mounted, Running
<1>6. InRam' /\ Magic' /\ Chosen'
  BY <1>1, <1>5 DEF InRam, Magic, Chosen, InUse, Used, Count, NextAddr
<1>7. CASE ~RowFits /\ todo' = <<>> /\ phase' = "idle" /\ row' = NoRow
  BY <1>4, <1>6, <1>7 DEF PhaseInv, Mounted, Running
<1>8. CASE RowFits /\ todo' = RowWrites(Behind) /\ phase' = "append" /\ row' = row
  <2>1. InUse # None /\ InUse' = InUse /\ InUse \in Used /\ InUse \in Slots
    BY <1>0, <1>1, <1>5, <1>8, ChipFacts DEF RowFits, InUse, Chosen, TypeInv, Used, Count
  <2>2. Left' = row.size + 2
    BY <1>0, <1>2, <1>8, RowWritesScript DEF Left
  <2>3. RowStart' = Behind
    BY <1>1, <1>2, <2>2 DEF RowStart, Behind
  <2>4. Behind \in Nat
    BY <1>0, <1>2, <1>8, RowWritesTypes
  <2>5. ASSUME NEW k \in 1..Left' PROVE IsAppend(todo[k], Left - k + 1)'
    <3>1. PICK m : m = Left' - k + 1
      OBVIOUS
    <3>2. k \in 1..row.size + 2 /\ m = row.size + 3 - k
      BY <1>2, <2>2, <3>1
    <3>3. CASE k = row.size + 2
      <4>1. m = 1 /\ ~(m >= 3) /\ m # 2
        BY <1>2, <3>2, <3>3
      <4>2. todo'[k] = PutHeader([ctx.header EXCEPT !.next_data_addr = Behind + row.size], InUse)
        BY <1>0, <1>2, <1>8, <3>3, RowWritesScript
      <4> QED
        BY <1>1, <1>8, <2>1, <2>3, <3>1, <4>1, <4>2 DEF IsAppend
    <3>4. CASE k = row.size + 1
      <4>1. m = 2 /\ ~(m >= 3) /\ m # 1
        BY <1>2, <3>2, <3>4
      <4>2. todo'[k] = PutEntry(InUse, [chip.entries[InUse] EXCEPT !.length = @ + row.size],
                       InUse, current_file_date, FALSE)
        BY <1>0, <1>2, <1>8, <3>4, RowWritesScript
      <4> QED
        BY <1>1, <1>8, <2>1, <3>1, <4>1, <4>2 DEF IsAppend
    <3>5. CASE k \in 1..row.size
      <4>1. m # 1 /\ m # 2 /\ row.size + 2 - m = k - 1 /\ row.size + 3 - m = k
        BY <1>2, <3>2, <3>5
      <4>2. todo'[k] = PutData(Behind + k - 1, [row |-> Len(log), part |-> k])
        BY <1>0, <1>2, <1>8, <3>5, RowWritesScript
      <4>3. Behind + row.size + 2 - m = Behind + k - 1
        <5>1. PICK s \in Int : s = row.size
          BY <1>2
        <5>2. PICK b \in Int : b = Behind
          BY <2>4
        <5>3. m = s + 3 - k /\ k \in Int
          BY <3>2, <5>1
        <5>4. b + s + 2 - m = b + k - 1
          BY <5>3
        <5> QED
          BY <5>1, <5>2, <5>4
      <4> QED
        BY <1>3, <1>8, <2>3, <3>1, <4>1, <4>2, <4>3 DEF IsAppend
    <3> QED
      BY <1>2, <3>2, <3>3, <3>4, <3>5
  <2>6. /\ RowStart' >= chip'.entries[InUse'].start /\ RowStart' + row'.size <= Size
        /\ RowStart' >= NextAddr'
    <3>1. chip.entries[InUse].start \in Nat /\ chip.entries[InUse].length \in Nat
      BY <1>0, <2>1, ChipFacts DEF TypeInv
    <3>2. Behind = End(chip.entries[InUse]) /\ Behind >= chip.entries[InUse].start
      BY <3>1 DEF Behind, End, InUse
    <3>3. Behind >= NextAddr
      BY <1>0, <1>8, <2>1, <3>2 DEF Kept, FilesApart, RowFits, InUse
    <3> QED
      BY <1>1, <1>8, <2>1, <2>3, <3>2, <3>3 DEF RowFits, NextAddr
  <2>7. \A a \in Cells : chip'.data[a].row # Len(log')
    BY <1>0, <1>1, <1>3 DEF PhaseInv
  <2>8. ASSUME NEW d \in Days, NEW k \in 1..Len(acked[d]), NEW a \in Cells,
               chip.data[a] = [row |-> acked[d][k], part |-> 1]
        PROVE  a < Behind
    <3>1. a < NextAddr
      BY <1>0, <2>8, AckedInFront
    <3>2. a \in Nat /\ NextAddr \in Nat
      BY <1>0, ChipFacts DEF TypeInv, NextAddr
    <3>3. Behind >= NextAddr
      BY <1>1, <2>3, <2>6 DEF NextAddr
    <3> QED
      BY <2>4, <3>1, <3>2, <3>3
  <2>9. Appending'
    <3>1. \A p \in 1..row'.size : ~(p <= row'.size + 2 - Left')
      BY <1>2, <1>8, <2>2
    <3>2. Left' <= row'.size + 2 /\ Left' # 0
      BY <1>2, <1>8, <2>2
    <3>3. \A k \in 1..Left' : IsAppend(todo[k], Left - k + 1)'
      BY <2>5
    <3>4. \A d \in Days : \A k \in 1..Len(acked'[d]) : \A a \in Cells :
            chip'.data[a] = [row |-> acked'[d][k], part |-> 1] => a < RowStart'
      BY <1>1, <2>3, <2>8
    <3> QED
      BY <2>1, <2>6, <2>7, <3>1, <3>2, <3>3, <3>4 DEF Appending
  <2> QED
    BY <1>4, <1>6, <1>8, <2>9 DEF PhaseInv, Mounted, Running
<1> QED
  BY <1>7, <1>8, AppendRowCases

LEMMA RowAppendedSteady ==
  ASSUME Steady, TypeInv', RowAppended
  PROVE  (Kept /\ PhaseInv)'
<1>0. TypeInv /\ LastRow /\ Kept /\ PhaseInv
  BY DEF Steady
<1> DEFINE n == Len(log)
           name == chip.entries[InUse].name
<1>1. /\ phase = "append" /\ todo = <<>> /\ phase' = "idle" /\ todo' = <<>>
      /\ chip' = chip /\ ctx' = ctx /\ log' = log
      /\ acked' = IF name = 0 THEN acked ELSE [acked EXCEPT ![name] = Append(@, n)]
  BY DEF RowAppended, InUse
<1>2. InRam /\ Magic /\ Chosen /\ Appending
  BY <1>0, <1>1 DEF PhaseInv, Mounted, Running
<1>3. InRam' /\ Magic' /\ Chosen'
  BY <1>1, <1>2 DEF InRam, Magic, Chosen, InUse, Used, Count, NextAddr
<1>4. Left = 0
  BY <1>1 DEF Left
<1>5. /\ n \in Nat /\ n >= 1 /\ row.size \in 1..2 /\ log[n].size = row.size
  BY <1>0, <1>1 DEF LastRow, TypeInv
<1>6. InUse \in Used /\ InUse \in Slots /\ name \in Days /\ name # 0
  <2>1. InUse \in Used /\ name \in Days
    BY <1>0, <1>2 DEF Appending, Chosen, Kept, FilesApart
  <2>2. InUse \in Slots
    BY <1>0, <2>1, ChipFacts DEF TypeInv, Used, Count
  <2>3. name # 0
    BY <2>1 DEF Days
  <2> QED
    BY <2>1, <2>2, <2>3
<1>7. acked' = [acked EXCEPT ![name] = Append(@, n)] /\ acked \in [Days -> Seq(Nat)]
  BY <1>0, <1>1, <1>6 DEF TypeInv
<1>8. PICK s \in Nat : s = RowStart
  <2>1. chip.entries[InUse].start \in Nat /\ chip.entries[InUse].length \in Nat
    BY <1>0, <1>6, ChipFacts DEF TypeInv
  <2>2. RowStart = Behind - row.size /\ Behind \in Nat
    BY <1>4, <2>1 DEF RowStart, Behind, InUse
  <2>3. RowStart >= chip.entries[InUse].start
    BY <1>2 DEF Appending
  <2> QED
    BY <1>5, <2>1, <2>2, <2>3
<1>9. /\ s >= chip.entries[InUse].start /\ s + row.size <= Size
      /\ NextAddr = s + row.size /\ End(chip.entries[InUse]) = s + row.size
      /\ \A p \in 1..row.size : chip.data[s + p - 1] = [row |-> n, part |-> p]
      /\ \A a \in Cells : chip.data[a].row = n => a >= s
      /\ \A d \in Days : \A k \in 1..Len(acked[d]) : \A a \in Cells :
           chip.data[a] = [row |-> acked[d][k], part |-> 1] => a < s
  <2>1. \A p \in 1..row.size : p <= row.size + 2 - Left
    BY <1>4, <1>5
  <2>2. End(chip.entries[InUse]) = s + row.size
    <3>1. chip.entries[InUse].start \in Nat /\ chip.entries[InUse].length \in Nat
      BY <1>0, <1>6, ChipFacts DEF TypeInv
    <3>2. RowStart = Behind - row.size /\ Behind = End(chip.entries[InUse]) /\ Behind \in Nat
      BY <1>4, <3>1 DEF RowStart, Behind, InUse, End
    <3> QED
      BY <1>5, <1>8, <3>2
  <2> QED
    BY <1>2, <1>4, <1>8, <2>1, <2>2 DEF Appending
<1>10. Size \in Nat
  BY ChipAssumption
<1>11. At(n, s) /\ s \in Cells
  <2>1. \A p \in 1..row.size : s + p - 1 \in Cells
    BY <1>5, <1>9, <1>10 DEF Cells
  <2>2. s \in Cells
    BY <1>5, <1>9, <1>10 DEF Cells
  <2> QED
    BY <1>5, <1>9, <2>1, <2>2 DEF At
<1>12. Holds(InUse, n, s)
  BY <1>5, <1>9, <1>11 DEF Holds
<1>13. ASSUME NEW d \in Days, NEW k \in 1..Len(acked'[d])
       PROVE  \/ k \in 1..Len(acked[d]) /\ acked'[d][k] = acked[d][k]
              \/ k = Len(acked[d]) + 1 /\ acked'[d][k] = n /\ d = name
  <2>1. CASE d = name
    <3>1. acked'[d] = Append(acked[d], n) /\ acked[d] \in Seq(Nat)
      BY <1>7, <2>1
    <3> QED
      BY <2>1, <3>1
  <2>2. CASE d # name
    BY <1>7, <2>2
  <2> QED
    BY <2>1, <2>2
<1>14. FilesApart' /\ CellsApart'
  <2>1. FilesApart'
    BY <1>0, <1>1 DEF Kept, FilesApart, Count, NextAddr, Used
  <2>2. CellsApart'
    BY <1>0, <1>1 DEF Kept, CellsApart
  <2> QED
    BY <2>1, <2>2
<1>15. AckedPlaces'
  <2> SUFFICES ASSUME NEW d \in Days, NEW k \in 1..Len(acked'[d])
               PROVE  \E i \in Used', a \in Cells :
                        chip'.entries[i].name = d /\ Holds(i, acked[d][k], a)'
    BY DEF AckedPlaces
  <2>0. PICK m : m = acked'[d][k]
    OBVIOUS
  <2>1. PICK i \in Used, a \in Cells : chip.entries[i].name = d /\ Holds(i, m, a)
    <3>1. CASE k \in 1..Len(acked[d]) /\ acked'[d][k] = acked[d][k]
      BY <1>0, <2>0, <3>1 DEF Kept, AckedPlaces
    <3>2. CASE k = Len(acked[d]) + 1 /\ acked'[d][k] = n /\ d = name
      BY <1>6, <1>11, <1>12, <2>0, <3>2
    <3> QED
      BY <1>13, <3>1, <3>2
  <2>2. Holds(i, m, a)' /\ i \in Used'
    BY <1>1, <2>1 DEF Holds, At, Used, Count, NextAddr
  <2> QED
    BY <1>1, <2>0, <2>1, <2>2
<1>16. AckedInOrder'
  <2> SUFFICES ASSUME NEW d \in Days, NEW j \in 1..Len(acked'[d]), NEW k \in 1..Len(acked'[d]),
                      j < k, NEW a \in Cells, NEW b \in Cells,
                      chip'.data[a] = [row |-> acked'[d][j], part |-> 1],
                      chip'.data[b] = [row |-> acked'[d][k], part |-> 1]
               PROVE  a < b
    BY DEF AckedInOrder
  <2>3. /\ chip.data[a] = [row |-> acked'[d][j], part |-> 1]
        /\ chip.data[b] = [row |-> acked'[d][k], part |-> 1]
    BY <1>1
  <2>0. Len(acked[d]) \in Nat /\ a \in Nat /\ b \in Nat
    BY <1>7 DEF Cells
  <2>1. CASE k \in 1..Len(acked[d]) /\ acked'[d][k] = acked[d][k]
    <3>1. j \in 1..Len(acked[d])
      BY <2>0, <2>1
    <3>2. acked'[d][j] = acked[d][j]
      BY <1>13, <2>0, <3>1
    <3> QED
      BY <1>0, <2>1, <2>3, <3>1, <3>2 DEF Kept, AckedInOrder
  <2>2. CASE k = Len(acked[d]) + 1 /\ acked'[d][k] = n /\ d = name
    <3>1. j \in 1..Len(acked[d])
      BY <2>0, <2>2
    <3>2. acked'[d][j] = acked[d][j]
      BY <1>13, <2>0, <3>1
    <3>3. a < s
      BY <1>9, <2>3, <3>1, <3>2
    <3>4. b >= s
      BY <1>9, <2>2, <2>3
    <3> QED
      BY <2>0, <3>3, <3>4
  <2> QED
    BY <1>13, <2>1, <2>2
<1>17. Kept'
  BY <1>14, <1>15, <1>16 DEF Kept
<1> QED
  BY <1>1, <1>3, <1>17 DEF PhaseInv, Mounted, Running

LEMMA ContextBefore ==
  ASSUME TypeInv, NEW w \in Writes
  PROVE  /\ CtxBefore(w).active_file_index = InUse
         /\ w.put = "header" => CtxBefore(w).header = w.val
         /\ w.put = "entry" /\ w.fresh => CtxBefore(w).header = chip.header
         /\ w.put = "entry" /\ ~w.fresh => CtxBefore(w).header = ctx.header
         /\ w.put \notin {"header", "entry"} => CtxBefore(w).header = ctx.header
<1>1. ctx \in ContextType
  BY DEF TypeInv
<1>2. w.put = "entry" => w.fresh \in BOOLEAN
  BY PutKinds DEF Entries
<1>3. CASE w.put = "header"
  BY <1>1, <1>3 DEF CtxBefore, ContextType, InUse
<1>4. CASE w.put = "entry" /\ w.fresh
  BY <1>1, <1>4 DEF CtxBefore, ContextType, InUse
<1>5. CASE w.put = "entry" /\ ~w.fresh
  BY <1>1, <1>5 DEF CtxBefore, ContextType, InUse
<1>6. CASE w.put \notin {"header", "entry"}
  BY <1>1, <1>6 DEF CtxBefore, ContextType, InUse
<1> QED
  BY <1>2, <1>3, <1>4, <1>5, <1>6

LEMMA NextWrite ==
  ASSUME TypeInv, todo # <<>>
  PROVE  /\ Head(todo) = todo[1] /\ todo[1] \in Writes /\ Left \in Nat /\ Left >= 1
         /\ Tail(todo) \in Seq(Writes) /\ Len(Tail(todo)) = Left - 1
         /\ \A k \in 1..Left - 1 : Tail(todo)[k] = todo[k + 1] /\ k + 1 \in 1..Left
BY DEF TypeInv, Left

LEMMA StartKnown ==
  ASSUME TypeInv, InUse # None
  PROVE  RowStart \in Int /\ Behind = End(chip.entries[InUse]) /\ Behind \in Nat /\ InUse \in Slots
<1>1. InUse \in Slots
  BY DEF TypeInv, ContextType, IndexType, InUse
<1>2. chip.entries[InUse].start \in Nat /\ chip.entries[InUse].length \in Nat
  BY <1>1, ChipFacts DEF TypeInv
<1>3. Behind = End(chip.entries[InUse]) /\ Behind \in Nat
  BY <1>2 DEF Behind, End, InUse
<1>4. row.size \in Nat
  BY DEF TypeInv, RowType
<1> QED
  BY <1>1, <1>3, <1>4 DEF RowStart

LEMMA FailSteady ==
  ASSUME Steady, TypeInv', ~spoilt', WriteFails
  PROVE  (Kept /\ PhaseInv)'
<1>0. TypeInv /\ LastRow /\ Kept /\ PhaseInv
  BY DEF Steady
<1>1. PICK w \in Writes : w = Head(todo) /\ w = todo[1]
  BY <1>0, NextWrite DEF WriteFails
<1>2. /\ todo # <<>> /\ todo' = <<>> /\ ctx' = CtxBefore(w)
      /\ chip' = chip /\ log' = log /\ acked' = acked
      /\ phase' = IF phase \in {"macs", "settings", "active"} THEN "dead" ELSE "idle"
      /\ phase # "clear" /\ ~(phase = "row" /\ w.put = "header")
  BY <1>1 DEF WriteFails
<1>3. Kept'
  BY <1>0, <1>2, GrownSame, KeptSame
<1>4. CASE phase \in {"macs", "settings", "active"}
  BY <1>2, <1>3, <1>4 DEF PhaseInv, Running, Mounted
<1>5. CASE phase \notin {"macs", "settings", "active"}
  <2>1. phase' = "idle" /\ phase \in {"row", "append", "refused", "save"}
    BY <1>0, <1>2, <1>5 DEF PhaseInv, TypeInv, Phases
  <2>2. InRam /\ Magic /\ Chosen
    BY <1>0, <2>1 DEF PhaseInv, Mounted, Running
  <2>3. Chosen'
    BY <1>0, <1>2, <2>2, ContextBefore DEF Chosen, InUse, Used, Count
  <2>4. InRam' /\ Magic'
    <3>1. CASE w.put = "header"
      <4>1. phase = "append"
        <5>1. phase = "refused" => w.put = "entry"
          BY <1>0, <1>1, <1>2 DEF PhaseInv, SealScript, Seal, PutEntry
        <5>2. phase = "save" => w.put = "settings"
          BY <1>0, <1>1, <1>2, NextWrite DEF PhaseInv, ClearingSettings
        <5> QED
          BY <1>2, <2>1, <3>1, <5>1, <5>2
      <4>2. Appending /\ IsAppend(w, Left) /\ Left \in Nat /\ Left >= 1
        <5>1. Appending /\ Left \in Nat /\ Left >= 1
          BY <1>0, <1>2, <4>1, NextWrite DEF PhaseInv
        <5>2. IsAppend(todo[1], Left - 1 + 1) /\ Left - 1 + 1 = Left
          BY <5>1 DEF Appending
        <5> QED
          BY <1>1, <5>1, <5>2
      <4>3. Left = 1
        BY <3>1, <4>2 DEF IsAppend, PutEntry, PutData
      <4>4. w.val = [ctx.header EXCEPT !.next_data_addr = RowStart + row.size]
        BY <4>2, <4>3 DEF IsAppend, PutHeader
      <4>5. ctx'.header = [ctx.header EXCEPT !.next_data_addr = RowStart + row.size]
        BY <1>0, <1>2, <3>1, <4>4, ContextBefore
      <4>6. RowStart + row.size >= NextAddr
        <5>1. RowStart >= NextAddr
          BY <4>2 DEF Appending
        <5>2. row.size \in Nat /\ NextAddr \in Nat
          <6>1. row \in RowType /\ chip \in ChipType
            BY <1>0 DEF TypeInv
          <6>2. row.size \in Nat
            BY <6>1 DEF RowType
          <6>3. chip.header.next_data_addr \in Nat
            BY <6>1, ChipFacts, Zenon
          <6> QED
            BY <6>2, <6>3 DEF NextAddr
        <5>3. RowStart \in Int
          BY <1>0, <4>2, StartKnown DEF Appending
        <5> QED
          BY <5>1, <5>2, <5>3
      <4> QED
        BY <1>0, <1>2, <2>2, <4>5, <4>6
           DEF InRam, Magic, Count, NextAddr, TypeInv, ContextType, HeaderType
    <3>2. CASE w.put = "entry" /\ w.fresh
      <4>1. ctx'.header = chip.header
        BY <1>0, <1>2, <3>2, ContextBefore
      <4>2. NextAddr \in Nat
        <5>1. chip \in ChipType
          BY <1>0 DEF TypeInv
        <5>2. chip.header.next_data_addr \in Nat
          BY <5>1, ChipFacts, Zenon
        <5> QED
          BY <5>2 DEF NextAddr
      <4> QED
        BY <1>2, <2>2, <4>1, <4>2 DEF InRam, Magic, Count, NextAddr
    <3>3. CASE w.put \notin {"header", "entry"} \/ (w.put = "entry" /\ ~w.fresh)
      <4>1. ctx'.header = ctx.header
        BY <1>0, <1>2, <3>3, ContextBefore
      <4> QED
        BY <1>2, <2>2, <4>1 DEF InRam, Magic, Count, NextAddr
    <3> QED
      BY <3>1, <3>2, <3>3
  <2> QED
    BY <1>2, <1>3, <2>1, <2>3, <2>4 DEF PhaseInv, Running, Mounted
<1> QED
  BY <1>4, <1>5

-----------------------------------------------------------------------------
(* FramFs: a write that succeeds. *)

LEMMA Writing ==
  ASSUME TypeInv, juxta_fram_write
  PROVE  /\ todo[1] \in Writes /\ todo # <<>> /\ Left \in Nat /\ Left >= 1 /\ Left' = Left - 1
         /\ todo' = Tail(todo) /\ \A k \in 1..Left - 1 : todo'[k] = todo[k + 1] /\ k + 1 \in 1..Left
         /\ chip' = ChipAfter(todo[1])
         /\ date' = date /\ phase' = phase /\ row' = row /\ log' = log /\ Grown
<1>1. todo # <<>>
  BY DEF juxta_fram_write
<1>2. Left' = Len(Tail(todo))
  BY DEF Left, juxta_fram_write
<1> QED
  BY <1>1, <1>2, NextWrite, GrownSame DEF juxta_fram_write

LEMMA PutsHeader ==
  ASSUME TypeInv, juxta_fram_write, todo[1].put = "header"
  PROVE  /\ chip'.header = todo[1].val /\ chip'.entries = chip.entries /\ chip'.data = chip.data
         /\ Count' = todo[1].val.file_count /\ NextAddr' = todo[1].val.next_data_addr
         /\ ctx'.header = todo[1].val /\ InUse' = todo[1].active
         /\ acked' = acked /\ current_file_date' = current_file_date
<1>1. PICK w \in Writes : w = todo[1] /\ w = Head(todo)
  BY NextWrite DEF juxta_fram_write
<1>2. chip' = [chip EXCEPT !.header = w.val]
  BY <1>1 DEF juxta_fram_write, ChipAfter
<1>3. ctx' = [CtxBefore(w) EXCEPT !.active_file_index = w.active]
  BY <1>1 DEF juxta_fram_write
<1>4. CtxBefore(w) \in ContextType /\ CtxBefore(w).header = w.val
  BY <1>1, CtxBeforeType, ContextBefore
<1>5. acked' = acked /\ current_file_date' = current_file_date
  BY <1>1 DEF juxta_fram_write
<1> QED
  BY <1>1, <1>2, <1>3, <1>4, <1>5 DEF TypeInv, ChipType, ContextType, InUse, Count, NextAddr

LEMMA PutsEntry ==
  ASSUME TypeInv, juxta_fram_write, todo[1].put = "entry"
  PROVE  /\ chip'.header = chip.header /\ chip'.data = chip.data
         /\ chip'.entries = [chip.entries EXCEPT ![todo[1].at] = todo[1].val]
         /\ Count' = Count /\ NextAddr' = NextAddr /\ Used' = Used
         /\ InUse' = todo[1].active
         /\ todo[1].fresh => /\ ctx'.header = chip.header
                             /\ acked' = [acked EXCEPT ![todo[1].val.name] = <<>>]
         /\ ~todo[1].fresh => ctx'.header = ctx.header /\ acked' = acked
         /\ current_file_date' = todo[1].day
<1>1. PICK w \in Writes : w = todo[1] /\ w = Head(todo)
  BY NextWrite DEF juxta_fram_write
<1>2. chip' = [chip EXCEPT !.entries = [chip.entries EXCEPT ![w.at] = w.val]]
  BY <1>1 DEF juxta_fram_write, ChipAfter
<1>3. ctx' = [CtxBefore(w) EXCEPT !.active_file_index = w.active]
  BY <1>1 DEF juxta_fram_write
<1>4. /\ CtxBefore(w) \in ContextType
      /\ w.fresh => CtxBefore(w).header = chip.header
      /\ ~w.fresh => CtxBefore(w).header = ctx.header
  BY <1>1, CtxBeforeType, ContextBefore
<1>5. /\ current_file_date' = w.day
      /\ w.fresh => acked' = [acked EXCEPT ![w.val.name] = <<>>]
      /\ ~w.fresh => acked' = acked
  BY <1>1 DEF juxta_fram_write
<1>6. ctx'.header = CtxBefore(w).header /\ InUse' = w.active
  BY <1>3, <1>4 DEF ContextType, InUse
<1>7. /\ chip'.header = chip.header /\ chip'.data = chip.data
      /\ chip'.entries = [chip.entries EXCEPT ![w.at] = w.val]
  BY <1>2 DEF TypeInv, ChipType
<1>8. Count' = Count /\ NextAddr' = NextAddr /\ Used' = Used
  BY <1>7 DEF Count, NextAddr, Used
<1> QED
  BY <1>1, <1>4, <1>5, <1>6, <1>7, <1>8

LEMMA PutsZero ==
  ASSUME TypeInv, juxta_fram_write, todo[1].put = "zero"
  PROVE  /\ chip'.header = chip.header /\ chip'.data = chip.data
         /\ Count' = Count /\ NextAddr' = NextAddr
         /\ ctx'.header = ctx.header /\ acked' = acked
         /\ InUse' = IF todo[1].at = MaxFiles - 1 THEN None ELSE InUse
<1>1. PICK w \in Writes : w = todo[1] /\ w = Head(todo)
  BY NextWrite DEF juxta_fram_write
<1>2. w.at \in Slots
  BY <1>1, PutKinds DEF Zeros
<1>3. chip'.header = chip.header /\ chip'.data = chip.data
  <2>1. chip' = ChipAfter(w)
    BY <1>1 DEF juxta_fram_write
  <2>2. CASE w.at < MaxFiles - 1
    <3>1. chip' = [chip EXCEPT !.entries[w.at] = Blank, !.entries[w.at + 1].name = 0]
      <4>1. w.at \in Int /\ MaxFiles \in Int
        BY <1>2, ChipAssumption DEF Slots
      <4> QED
        BY <1>1, <2>1, <2>2, <4>1 DEF ChipAfter
    <3> QED
      BY <3>1 DEF TypeInv, ChipType
  <2>3. CASE w.at = MaxFiles - 1
    <3>0. ~(w.at < MaxFiles - 1)
      BY <2>3, ChipAssumption
    <3>1. chip' = [chip EXCEPT !.entries[w.at] = Blank, !.macs[0] = NoMac,
                      !.mac_header = [magic |-> FALSE, entry_count |-> 0]]
      BY <1>1, <2>1, <2>3, <3>0 DEF ChipAfter
    <3> QED
      BY <3>1 DEF TypeInv, ChipType
  <2>4. w.at < MaxFiles - 1 \/ w.at = MaxFiles - 1
    BY <1>2, ChipAssumption DEF Slots
  <2> QED
    BY <2>2, <2>3, <2>4
<1>4. ctx' = IF w.at = MaxFiles - 1 THEN [ctx EXCEPT !.active_file_index = None] ELSE CtxBefore(w)
  BY <1>1 DEF juxta_fram_write
<1>5. CtxBefore(w).header = ctx.header /\ CtxBefore(w).active_file_index = InUse
  BY <1>1, ContextBefore
<1>6. acked' = acked
  BY <1>1 DEF juxta_fram_write
<1> QED
  BY <1>1, <1>3, <1>4, <1>5, <1>6 DEF TypeInv, ContextType, InUse, Count, NextAddr

Quiet == {"mac", "mac_header", "settings"}
LEMMA PutsQuiet ==
  ASSUME TypeInv, juxta_fram_write, todo[1].put \in Quiet
  PROVE  /\ chip'.header = chip.header /\ chip'.entries = chip.entries /\ chip'.data = chip.data
         /\ Count' = Count /\ NextAddr' = NextAddr /\ Used' = Used
         /\ ctx'.header = ctx.header /\ InUse' = InUse /\ acked' = acked
<1>1. PICK w \in Writes : w = todo[1] /\ w = Head(todo)
  BY NextWrite DEF juxta_fram_write
<1>2. chip'.header = chip.header /\ chip'.entries = chip.entries /\ chip'.data = chip.data
  BY <1>1 DEF juxta_fram_write, ChipAfter, TypeInv, ChipType, Quiet
<1>3. ctx' = CtxBefore(w) /\ acked' = acked
  BY <1>1 DEF juxta_fram_write, Quiet
<1>4. CtxBefore(w).header = ctx.header /\ CtxBefore(w).active_file_index = InUse
  BY <1>1, ContextBefore DEF Quiet
<1> QED
  BY <1>2, <1>3, <1>4 DEF InUse, Count, NextAddr, Used

LEMMA PutsData ==
  ASSUME TypeInv, juxta_fram_write, todo[1].put = "data"
  PROVE  /\ chip'.header = chip.header /\ chip'.entries = chip.entries
         /\ chip'.data = [chip.data EXCEPT ![todo[1].at] = todo[1].val]
         /\ Count' = Count /\ NextAddr' = NextAddr /\ Used' = Used
         /\ ctx' = ctx /\ InUse' = InUse /\ acked' = acked
         /\ current_file_date' = current_file_date
<1>1. PICK w \in Writes : w = todo[1] /\ w = Head(todo)
  BY NextWrite DEF juxta_fram_write
<1>2. chip' = [chip EXCEPT !.data = [chip.data EXCEPT ![w.at] = w.val]]
  BY <1>1 DEF juxta_fram_write, ChipAfter
<1>3. ctx' = ctx /\ acked' = acked /\ current_file_date' = current_file_date
  BY <1>1 DEF juxta_fram_write, CtxBefore
<1> QED
  BY <1>1, <1>2, <1>3 DEF TypeInv, ChipType, InUse, Count, NextAddr, Used

\* A write to the table of addresses or the settings.
LEMMA QuietSteady ==
  ASSUME Steady, TypeInv', juxta_fram_write, todo[1].put \in Quiet
  PROVE  Kept' /\ (InRam => InRam') /\ (Magic => Magic') /\ (Chosen => Chosen')
<1>1. Kept'
  BY PutsQuiet, Writing, KeptSame DEF Steady
<1> QED
  BY <1>1, PutsQuiet DEF Steady, InRam, Magic, Chosen

LEMMA BootWriteSteady ==
  ASSUME Steady, TypeInv', juxta_fram_write, phase \in {"macs", "settings", "active", "save"}
  PROVE  (Kept /\ PhaseInv)'
<1>0. TypeInv /\ LastRow /\ Kept /\ PhaseInv
  BY DEF Steady
<1>1. MaxFiles \in Nat /\ MaxFiles >= 1 /\ MaxMacs \in Nat
  BY ChipAssumption
<1>2. phase' = phase /\ Left \in Nat /\ Left >= 1 /\ Left' = Left - 1
      /\ \A k \in 1..Left - 1 : todo'[k] = todo[k + 1] /\ k + 1 \in 1..Left
  BY <1>0, Writing
<1>3. CASE phase = "macs"
  <2>1. InRam /\ Formatting
    BY <1>0, <1>3 DEF PhaseInv, Mounted
  <2>2. Count = 0 /\ NextAddr = 0 /\ Left <= MaxFiles + 1 /\ Nothing
    BY <1>0, <1>2, <2>1, NoFilesNothing DEF Formatting
  <2>3. IsFormat(todo[1], Left)
    <3>1. IsFormat(todo[1], Left - 1 + 1) /\ Left - 1 + 1 = Left
      BY <1>2, <2>1 DEF Formatting
    <3> QED
      BY <3>1
  <2>4. \A k \in 1..Left' : IsFormat(todo[k], Left - k + 1)'
    <3> SUFFICES ASSUME NEW k \in 1..Left - 1 PROVE IsFormat(todo[k], Left - k + 1)'
      BY <1>2
    <3>1. IsFormat(todo[k + 1], Left - (k + 1) + 1)
      BY <1>2, <2>1 DEF Formatting
    <3>2. todo'[k] = todo[k + 1] /\ Left' - k + 1 = Left - (k + 1) + 1
      BY <1>2
    <3> QED
      BY <3>1, <3>2 DEF IsFormat
  <2>5. CASE Left = MaxFiles + 1
    <3>1. todo[1].put = "header" /\ todo[1].val = Header(0, 0)
      BY <2>3, <2>5 DEF IsFormat
    <3>2. /\ chip'.data = chip.data /\ acked' = acked /\ chip'.header = Header(0, 0)
          /\ ctx'.header = Header(0, 0)
      BY <1>0, <3>1, PutsHeader
    <3>3. Count' = 0 /\ NextAddr' = 0 /\ InRam' /\ Magic'
      BY <3>2 DEF Count, NextAddr, InRam, Magic, Header
    <3>4. Kept'
      BY <1>0, <2>2, <3>2, <3>3, KeptEmpty, Writing
    <3>5. Formatting'
      BY <1>1, <1>2, <2>2, <2>4, <3>3 DEF Formatting
    <3> QED
      BY <1>2, <1>3, <3>3, <3>4, <3>5 DEF PhaseInv, Mounted, Running
  <2>6. CASE Left # MaxFiles + 1
    <3>1. Left <= MaxFiles
      BY <1>1, <1>2, <2>2, <2>6
    <3>2. todo[1].put = "zero"
      BY <2>3, <3>1 DEF IsFormat, PutZero
    <3>3. /\ chip'.data = chip.data /\ acked' = acked /\ chip'.header = chip.header
          /\ ctx'.header = ctx.header
      BY <1>0, <3>2, PutsZero
    <3>4. Magic
      BY <2>1, <3>1 DEF Formatting
    <3>5. Count' = 0 /\ NextAddr' = 0 /\ InRam' /\ Magic'
      BY <2>1, <2>2, <3>3, <3>4 DEF Count, NextAddr, InRam, Magic
    <3>6. Kept'
      BY <1>0, <2>2, <3>3, <3>5, KeptEmpty, Writing
    <3>7. Formatting'
      BY <1>1, <1>2, <2>2, <2>4, <3>5 DEF Formatting
    <3> QED
      BY <1>2, <1>3, <3>5, <3>6, <3>7 DEF PhaseInv, Mounted, Running
  <2> QED
    BY <2>5, <2>6
<1>4. CASE phase = "settings"
  <2>1. InRam /\ Magic /\ ClearingMacs
    BY <1>0, <1>4 DEF PhaseInv, Mounted
  <2>2. IsMacClear(todo[1], Left) /\ Left <= MaxMacs + 1
    <3>1. IsMacClear(todo[1], Left - 1 + 1) /\ Left - 1 + 1 = Left
      BY <1>2, <2>1 DEF ClearingMacs
    <3> QED
      BY <2>1, <3>1 DEF ClearingMacs
  <2>3. todo[1].put \in Quiet
    BY <1>1, <1>2, <2>2 DEF IsMacClear, PutMacHeader, Quiet
  <2>4. ClearingMacs'
    <3>1. ASSUME NEW k \in 1..Left - 1 PROVE IsMacClear(todo[k], Left - k + 1)'
      <4>1. IsMacClear(todo[k + 1], Left - (k + 1) + 1)
        BY <1>2, <2>1 DEF ClearingMacs
      <4>2. todo'[k] = todo[k + 1] /\ Left' - k + 1 = Left - (k + 1) + 1
        BY <1>2
      <4> QED
        BY <4>1, <4>2 DEF IsMacClear
    <3>2. Left' <= MaxMacs + 1
      BY <1>1, <1>2, <2>2
    <3>3. \A k \in 1..Left' : IsMacClear(todo[k], Left - k + 1)'
      BY <1>2, <3>1
    <3> QED
      BY <3>2, <3>3 DEF ClearingMacs
  <2> QED
    BY <1>2, <1>4, <2>1, <2>3, <2>4, QuietSteady DEF PhaseInv, Mounted, Running
<1>5. CASE phase \in {"active", "save"}
  <2>1. InRam /\ Magic /\ ClearingSettings /\ (phase = "save" => Chosen)
    BY <1>0, <1>5 DEF PhaseInv, Mounted, Running
  <2>2. todo[1].put \in Quiet
    BY <1>2, <2>1 DEF ClearingSettings, Quiet
  <2>3. ClearingSettings'
    BY <1>2, <2>1 DEF ClearingSettings
  <2> QED
    BY <1>2, <1>5, <2>1, <2>2, <2>3, QuietSteady DEF PhaseInv, Mounted, Running
<1> QED
  BY <1>3, <1>4, <1>5

-----------------------------------------------------------------------------
(* FramFs: the writes before a row. *)

LEMMA SealedFacts ==
  ASSUME NEW e \in Entry
  PROVE  /\ Sealed(e).name = e.name /\ Sealed(e).start = e.start /\ Sealed(e).length = e.length
         /\ Valid(e) => Valid(Sealed(e))
         /\ ~Active(Sealed(e))
BY DEF Entry, Sealed, Valid, Active

LEMMA SealWritten ==
  ASSUME Steady, TypeInv', juxta_fram_write, todo[1] = Seal, InUse # None,
         InRam, Magic, Chosen
  PROVE  /\ Kept' /\ InRam' /\ Magic' /\ Chosen' /\ InUse' = None
         /\ Count' = Count /\ NextAddr' = NextAddr /\ Used' = Used
         /\ ctx'.header = ctx.header /\ chip'.data = chip.data
         /\ \A i \in Used : chip'.entries[i].name = chip.entries[i].name
<1>0. TypeInv /\ LastRow /\ Kept /\ PhaseInv
  BY DEF Steady
<1>1. /\ todo[1].put = "entry" /\ todo[1].at = InUse /\ todo[1].active = None
      /\ todo[1].val = Sealed(chip.entries[InUse]) /\ ~todo[1].fresh
  BY DEF Seal, PutEntry
<1>2. /\ chip'.header = chip.header /\ chip'.data = chip.data
      /\ chip'.entries = [chip.entries EXCEPT ![InUse] = Sealed(chip.entries[InUse])]
      /\ Count' = Count /\ NextAddr' = NextAddr /\ Used' = Used
      /\ InUse' = None /\ ctx'.header = ctx.header /\ acked' = acked
  BY <1>0, <1>1, PutsEntry
<1>3. InUse \in Used /\ Used \subseteq Slots /\ chip.entries \in [Slots -> Entry]
  BY <1>0, ChipFacts DEF TypeInv, ChipType, Chosen, Used, Count
<1>4. ASSUME NEW i \in Used
      PROVE  LET e == chip.entries[i]
                 f == chip'.entries[i]
             IN  /\ f.name = e.name /\ f.start = e.start /\ f.length >= e.length
                 /\ Valid(e) => Valid(f)
                 /\ Active(f) => Active(e)
                 /\ ~Active(f)
                 /\ End(f) <= Size
  <2>0. chip.entries[i] \in Entry /\ chip.entries[i].length \in Nat /\ End(chip.entries[i]) <= Size
    BY <1>0, <1>3, ChipFacts DEF TypeInv, Kept, FilesApart
  <2>1. CASE i = InUse
    <3>1. chip'.entries[i] = Sealed(chip.entries[i])
      BY <1>2, <1>3, <2>1
    <3> QED
      BY <2>0, <3>1, SealedFacts DEF End
  <2>2. CASE i # InUse
    <3>1. chip'.entries[i] = chip.entries[i]
      BY <1>2, <1>3, <2>2
    <3>2. ~Active(chip.entries[i])
      BY <1>0, <1>3, <2>2 DEF Chosen, Kept, FilesApart
    <3> QED
      BY <2>0, <3>1, <3>2
  <2> QED
    BY <2>1, <2>2
<1>5. Kept'
  <2>1. log' = log
    BY <1>0, Writing
  <2> QED
    BY <1>0, <1>2, <1>4, <2>1, KeptEntry
<1>6. InRam' /\ Magic' /\ Chosen'
  <2>1. InRam' /\ Magic'
    BY <1>2 DEF InRam, Magic
  <2>2. Chosen'
    BY <1>2, <1>4 DEF Chosen
  <2> QED
    BY <2>1, <2>2
<1>7. \A i \in Used : chip'.entries[i].name = chip.entries[i].name
  BY <1>4
<1> QED
  BY <1>2, <1>5, <1>6, <1>7

LEMMA RefusedWriteSteady ==
  ASSUME Steady, TypeInv', juxta_fram_write, phase = "refused"
  PROVE  (Kept /\ PhaseInv)'
<1>0. TypeInv /\ LastRow /\ Kept /\ PhaseInv
  BY DEF Steady
<1>1. phase' = "refused" /\ todo # <<>> /\ todo' = Tail(todo)
  BY <1>0, Writing
<1>2. InRam /\ Magic /\ Chosen /\ SealScript
  BY <1>0, <1>1 DEF PhaseInv, Mounted, Running
<1>3. todo[1] = Seal /\ InUse # None /\ todo' = <<>>
  BY <1>1, <1>2 DEF SealScript
<1> QED
  BY <1>1, <1>2, <1>3, SealWritten DEF PhaseInv, Mounted, Running

\* The entry of a new file, which does not count yet.
LEMMA MakeWritten ==
  ASSUME Steady, TypeInv', juxta_fram_write, todo[1] = Make, InUse = None, Count < MaxFiles,
         InRam, Magic, Chosen
  PROVE  /\ Kept' /\ InRam' /\ Magic' /\ Chosen' /\ InUse' = None
         /\ Count' = Count /\ Used' = Used
         /\ ctx'.header = ctx.header /\ chip'.data = chip.data
         /\ \A i \in Used : chip'.entries[i].name = chip.entries[i].name
         /\ chip'.entries[Count] = NewFile(date, ctx.header.next_data_addr)
<1>0. TypeInv /\ LastRow /\ Kept /\ PhaseInv
  BY DEF Steady
<1>1. /\ todo[1].put = "entry" /\ todo[1].at = Count /\ todo[1].active = None
      /\ todo[1].val = NewFile(date, ctx.header.next_data_addr) /\ ~todo[1].fresh
  BY DEF Make, PutEntry
<1>2. /\ chip'.header = chip.header /\ chip'.data = chip.data
      /\ chip'.entries = [chip.entries EXCEPT ![Count] = NewFile(date, ctx.header.next_data_addr)]
      /\ Count' = Count /\ NextAddr' = NextAddr /\ Used' = Used
      /\ InUse' = None /\ ctx'.header = ctx.header /\ acked' = acked
  BY <1>0, <1>1, PutsEntry
<1>3. /\ Count \in Slots /\ Count \notin Used /\ Used \subseteq Slots
      /\ chip.entries \in [Slots -> Entry]
  <2>1. Count \in Nat /\ Used \subseteq Slots /\ chip.entries \in [Slots -> Entry]
    BY <1>0, ChipFacts DEF TypeInv, ChipType, Used, Count
  <2>2. Count \in Slots /\ Count \notin Used
    BY <2>1, ChipAssumption DEF Slots, Used
  <2> QED
    BY <2>1, <2>2
<1>4. \A i \in Used : /\ chip'.entries[i] = chip.entries[i]
                      /\ chip.entries[i].length >= chip.entries[i].length
                      /\ End(chip.entries[i]) <= Size
  <2>1. \A i \in Used : chip.entries[i].length \in Nat /\ End(chip.entries[i]) <= Size
    BY <1>0, <1>3, ChipFacts DEF TypeInv, Kept, FilesApart
  <2> QED
    BY <1>2, <1>3, <2>1
<1>5. chip'.entries[Count] = NewFile(date, ctx.header.next_data_addr)
  BY <1>2, <1>3
<1>6. Kept'
  <2>1. log' = log
    BY <1>0, Writing
  <2> QED
    BY <1>0, <1>2, <1>4, <2>1, KeptEntry
<1>7. InRam' /\ Magic' /\ Chosen'
  <2>1. InRam' /\ Magic'
    BY <1>2 DEF InRam, Magic
  <2>2. Chosen'
    BY <1>2, <1>4 DEF Chosen
  <2> QED
    BY <2>1, <2>2
<1> QED
  BY <1>2, <1>4, <1>5, <1>6, <1>7

NewFileFacts(e, next) ==
  /\ e.name = date /\ e.start = next /\ e.length = 0 /\ Valid(e) /\ Active(e) /\ End(e) = next
LEMMA NewFiles ==
  ASSUME NEW next \in Int
  PROVE  NewFileFacts(NewFile(date, next), next)
BY DEF NewFile, Valid, Active, End, NewFileFacts

\* The header that counts it.
LEMMA MakeHeaderWritten ==
  ASSUME Steady, TypeInv', juxta_fram_write, todo[1] = MakeHeader, InUse = None,
         Count < MaxFiles, \A i \in Used : chip.entries[i].name # date,
         chip.entries[Count] = NewFile(date, ctx.header.next_data_addr),
         InRam, Magic, Chosen
  PROVE  Kept' /\ InRam' /\ Magic' /\ Chosen' /\ chip'.data = chip.data
<1>0. TypeInv /\ LastRow /\ Kept /\ PhaseInv
  BY DEF Steady
<1> DEFINE next == ctx.header.next_data_addr
           c == Count
<1>1. /\ todo[1].put = "header" /\ todo[1].active = Count
      /\ todo[1].val = [ctx.header EXCEPT !.file_count = Count + 1]
  BY DEF MakeHeader, PutHeader
<1>2. /\ chip'.header = todo[1].val /\ chip'.entries = chip.entries /\ chip'.data = chip.data
      /\ ctx'.header = todo[1].val /\ InUse' = Count /\ acked' = acked
  BY <1>0, <1>1, PutsHeader
<1>3. /\ todo[1].val.file_count = Count + 1 /\ todo[1].val.next_data_addr = next
      /\ todo[1].val.magic
  BY <1>0, <1>1 DEF TypeInv, ContextType, HeaderType, Magic
<1>4. Count' = Count + 1 /\ NextAddr' = next
  BY <1>2, <1>3 DEF Count, NextAddr
<1>5. Count \in Nat /\ next \in Nat /\ NextAddr \in Nat /\ next >= NextAddr /\ Used \subseteq Slots
  BY <1>0, ChipFacts DEF TypeInv, ContextType, HeaderType, Used, Count, NextAddr, InRam
<1>6. Used' = Used \cup {Count} /\ Count \notin Used
  BY <1>4, <1>5 DEF Used
<1>7. NewFileFacts(chip.entries[Count], next) /\ date \in Days
  BY <1>0, <1>5, NewFiles DEF TypeInv
<1>8. \A i \in Used : ~Active(chip.entries[i])
  BY DEF Chosen
<1>9. FilesApart'
  <2>1. chip'.header.magic
    BY <1>2, <1>3
  <2>2. \A i \in Used' : Valid(chip'.entries[i]) /\ chip'.entries[i].name \in Days
    BY <1>0, <1>2, <1>6, <1>7 DEF Kept, FilesApart, NewFileFacts
  <2>3. \A i, j \in Used' : chip'.entries[i].name = chip'.entries[j].name => i = j
    BY <1>0, <1>2, <1>6, <1>7 DEF Kept, FilesApart, NewFileFacts
  <2>4. \A i \in Used' : Active(chip'.entries[i]) => i = Count
    BY <1>2, <1>6, <1>8
  <2>5. \A i, j \in Used' : Active(chip'.entries[i]) /\ Active(chip'.entries[j]) => i = j
    BY <2>4
  <2>6. \A i \in Used' : Active(chip'.entries[i]) => End(chip'.entries[i]) >= NextAddr'
    BY <1>2, <1>4, <1>5, <1>7, <2>4 DEF NewFileFacts
  <2>7. \A i \in Used' : End(chip'.entries[i]) <= Size
    <3>1. next <= Size
      BY <1>0, ChipAssumption DEF TypeInv, ContextType, HeaderType
    <3> QED
      BY <1>0, <1>2, <1>6, <1>7, <3>1 DEF Kept, FilesApart, NewFileFacts
  <2> QED
    BY <2>1, <2>2, <2>3, <2>5, <2>6, <2>7 DEF FilesApart
<1>10. Grown /\ log' = log
  BY <1>0, Writing
<1>11. CellsApart'
  BY <1>0, <1>2, <1>10, CellsKept DEF Kept
<1>12. AckedPlaces'
  <2>1. \A i \in Used : chip.entries[i].length \in Nat
    BY <1>0, <1>5, ChipFacts DEF TypeInv
  <2>2. \A i \in Used : /\ chip'.entries[i].name = chip.entries[i].name
                        /\ chip'.entries[i].start = chip.entries[i].start
                        /\ chip'.entries[i].length >= chip.entries[i].length
    BY <1>2, <2>1
  <2>3. Count' >= Count /\ NextAddr' >= NextAddr
    BY <1>4, <1>5
  <2> QED
    BY <1>0, <1>2, <1>10, <2>2, <2>3, PlacesKept DEF Kept
<1>13. AckedInOrder'
  BY <1>0, <1>2, OrderKept DEF Kept
<1>14. Kept'
  BY <1>9, <1>11, <1>12, <1>13 DEF Kept
<1>15. InRam' /\ Magic'
  BY <1>2, <1>3, <1>4, <1>5 DEF InRam, Magic
<1>16. Chosen'
  <2>1. Count \in Used' /\ Active(chip'.entries[Count])
    BY <1>2, <1>6, <1>7 DEF NewFileFacts
  <2>2. Count # None
    BY <1>5 DEF None
  <2> QED
    BY <1>2, <2>1, <2>2 DEF Chosen
<1> QED
  BY <1>2, <1>14, <1>15, <1>16

\* A file of today that was sealed begins afresh.
LEMMA BeginWritten ==
  ASSUME Steady, TypeInv', juxta_fram_write, NEW f \in Used, chip.entries[f].name = date,
         todo[1] = Begin(f), InUse = None, InRam, Magic, Chosen
  PROVE  Kept' /\ InRam' /\ Magic' /\ Chosen' /\ chip'.data = chip.data
<1>0. TypeInv /\ LastRow /\ Kept /\ PhaseInv
  BY DEF Steady
<1>1. /\ todo[1].put = "entry" /\ todo[1].at = f /\ todo[1].active = f
      /\ todo[1].val = NewFile(date, NextAddr) /\ todo[1].fresh
  BY DEF Begin, PutEntry
<1>2. /\ chip'.header = chip.header /\ chip'.data = chip.data
      /\ chip'.entries = [chip.entries EXCEPT ![f] = NewFile(date, NextAddr)]
      /\ Count' = Count /\ NextAddr' = NextAddr /\ Used' = Used
      /\ InUse' = f /\ ctx'.header = chip.header
      /\ acked' = [acked EXCEPT ![todo[1].val.name] = <<>>]
  BY <1>0, <1>1, PutsEntry
<1>3. /\ f \in Slots /\ Used \subseteq Slots /\ chip.entries \in [Slots -> Entry] /\ NextAddr \in Nat
  BY <1>0, ChipFacts DEF TypeInv, ChipType, Used, Count, NextAddr
<1>4. NewFileFacts(NewFile(date, NextAddr), NextAddr) /\ date \in Days
  BY <1>0, <1>3, NewFiles DEF TypeInv
<1>5. acked' = [acked EXCEPT ![date] = <<>>] /\ acked \in [Days -> Seq(Nat)]
  BY <1>0, <1>1, <1>2, <1>4 DEF NewFileFacts, TypeInv
<1>6. /\ chip'.entries[f] = NewFile(date, NextAddr)
      /\ \A i \in Used : i # f => chip'.entries[i] = chip.entries[i]
      /\ \A i \in Used : chip'.entries[i].name = chip.entries[i].name
  BY <1>2, <1>3, <1>4 DEF NewFileFacts
<1>7. \A i \in Used : ~Active(chip.entries[i])
  BY DEF Chosen
<1>8. FilesApart'
  <2>1. ~chip'.header.magic => Count' = 0 /\ NextAddr' = 0
    BY <1>0, <1>2 DEF Kept, FilesApart
  <2>2. \A i \in Used : Valid(chip'.entries[i]) /\ chip'.entries[i].name \in Days
    BY <1>0, <1>4, <1>6 DEF Kept, FilesApart, NewFileFacts
  <2>3. \A i, j \in Used : chip'.entries[i].name = chip'.entries[j].name => i = j
    BY <1>0, <1>6 DEF Kept, FilesApart
  <2>4. \A i \in Used : Active(chip'.entries[i]) => i = f
    BY <1>6, <1>7
  <2>5. End(chip'.entries[f]) >= NextAddr
    BY <1>3, <1>4, <1>6 DEF NewFileFacts
  <2>6. \A i \in Used : End(chip'.entries[i]) <= Size
    <3>1. NextAddr <= Size
      BY <1>0, ChipFacts, ChipAssumption DEF TypeInv, NextAddr
    <3> QED
      BY <1>0, <1>4, <1>6, <3>1 DEF Kept, FilesApart, NewFileFacts
  <2> QED
    BY <1>2, <2>1, <2>2, <2>3, <2>4, <2>5, <2>6 DEF FilesApart
<1>9. log' = log /\ Grown
  BY <1>0, Writing
<1>10. CellsApart'
  BY <1>0, <1>2, <1>9, CellsKept DEF Kept
<1>11. \A d \in Days : d # date => acked'[d] = acked[d]
  BY <1>5
<1>12. Len(acked'[date]) = 0
  BY <1>4, <1>5
<1>13. AckedPlaces'
  <2> SUFFICES ASSUME NEW d \in Days, NEW k \in 1..Len(acked'[d])
               PROVE  \E i \in Used', a \in Cells :
                        chip'.entries[i].name = d /\ Holds(i, acked[d][k], a)'
    BY DEF AckedPlaces
  <2>1. d # date /\ acked'[d] = acked[d]
    BY <1>11, <1>12
  <2>2. PICK m : m = acked[d][k]
    OBVIOUS
  <2>3. PICK i \in Used, a \in Cells : chip.entries[i].name = d /\ Holds(i, m, a)
    BY <1>0, <2>1, <2>2 DEF Kept, AckedPlaces
  <2>4. i # f /\ chip'.entries[i] = chip.entries[i]
    BY <1>6, <2>1, <2>3
  <2>5. Holds(i, m, a)'
    BY <1>2, <1>9, <2>3, <2>4 DEF Holds, At
  <2> QED
    BY <1>2, <2>1, <2>2, <2>3, <2>4, <2>5
<1>14. AckedInOrder'
  <2> SUFFICES ASSUME NEW d \in Days, NEW j \in 1..Len(acked'[d]), NEW k \in 1..Len(acked'[d]),
                      j < k, NEW a \in Cells, NEW b \in Cells,
                      chip'.data[a] = [row |-> acked'[d][j], part |-> 1],
                      chip'.data[b] = [row |-> acked'[d][k], part |-> 1]
               PROVE  a < b
    BY DEF AckedInOrder
  <2>1. acked'[d] = acked[d]
    BY <1>11, <1>12
  <2> QED
    BY <1>0, <1>2, <2>1 DEF Kept, AckedInOrder
<1>15. Kept'
  BY <1>8, <1>10, <1>13, <1>14 DEF Kept
<1>16. InRam' /\ Magic'
  <2>1. chip.header.next_data_addr \in Nat
    BY <1>3 DEF NextAddr
  <2> QED
    BY <1>2, <2>1 DEF InRam, Magic, Count, NextAddr
<1>17. Chosen'
  <2>1. f \in Used' /\ Active(chip'.entries[f]) /\ f # None
    BY <1>2, <1>3, <1>4, <1>6 DEF NewFileFacts, None, Slots
  <2> QED
    BY <1>2, <2>1 DEF Chosen
<1> QED
  BY <1>2, <1>15, <1>16, <1>17

LEMMA Tails ==
  /\ \A a, b, c : Tail(<<a, b, c>>) = <<b, c>>
  /\ \A a, b : Tail(<<a, b>>) = <<b>>
OBVIOUS

LEMMA RowWriteSteady ==
  ASSUME Steady, TypeInv', juxta_fram_write, phase = "row"
  PROVE  (Kept /\ PhaseInv)'
<1>0. TypeInv /\ LastRow /\ Kept /\ PhaseInv
  BY DEF Steady
<1>1. phase' = "row" /\ todo # <<>> /\ todo' = Tail(todo) /\ log' = log /\ date' = date
  BY <1>0, Writing
<1>2. InRam /\ Magic /\ Chosen /\ RowScript /\ \A a \in Cells : chip.data[a].row # Len(log)
  BY <1>0 DEF PhaseInv, Mounted, Running
<1> SUFFICES Kept' /\ InRam' /\ Magic' /\ Chosen' /\ RowScript' /\ chip'.data = chip.data
  BY <1>1, <1>2 DEF PhaseInv, Mounted, Running
<1>3. CASE MacScript
  <2>1. todo[1].put \in Quiet /\ Left \in Nat
    BY <1>0, <1>3, Writing DEF MacScript, Quiet
  <2>2. chip'.data = chip.data
    BY <1>0, <2>1, PutsQuiet
  <2>3. RowScript'
    <3>1. CASE Left = 1
      <4>1. todo' = <<>>
        BY <1>0, <1>1, <3>1 DEF TypeInv, Left
      <4> QED
        BY <4>1 DEF RowScript
    <3>2. CASE Left = 2
      <4>1. Left' = 1 /\ todo'[1] = todo[2]
        BY <1>0, <3>2, Writing
      <4>2. todo[2].put \in {"mac", "mac_header"}
        BY <1>3, <3>2 DEF MacScript
      <4>3. MacScript'
        BY <4>1, <4>2 DEF MacScript
      <4> QED
        BY <4>3 DEF RowScript
    <3> QED
      BY <1>3, <2>1, <3>1, <3>2 DEF MacScript
  <2> QED
    BY <1>2, <2>1, <2>2, <2>3, QuietSteady
<1>4. CASE SealScript
  <2>1. todo[1] = Seal /\ InUse # None /\ todo' = <<>>
    BY <1>1, <1>4 DEF SealScript
  <2> QED
    BY <1>2, <2>1, SealWritten DEF RowScript
<1>5. CASE MakeScript
  <2>0. Count < MaxFiles /\ \A i \in Used : chip.entries[i].name # date
    BY <1>5 DEF MakeScript
  <2>1. CASE InUse # None /\ todo = <<Seal, Make, MakeHeader>>
    <3>1. todo[1] = Seal /\ todo' = <<Make, MakeHeader>>
      <4>1. Tail(<<Seal, Make, MakeHeader>>) = <<Make, MakeHeader>>
        BY Tails
      <4> QED
        BY <1>1, <2>1, <4>1
    <3>2. /\ Kept' /\ InRam' /\ Magic' /\ Chosen' /\ InUse' = None
          /\ Count' = Count /\ Used' = Used
          /\ ctx'.header = ctx.header /\ chip'.data = chip.data
          /\ \A i \in Used : chip'.entries[i].name = chip.entries[i].name
      BY <1>2, <2>1, <3>1, SealWritten
    <3>3. Make' = Make /\ MakeHeader' = MakeHeader
      BY <1>1, <3>2 DEF Make, MakeHeader
    <3>4. MakeScript'
      BY <1>1, <2>0, <3>1, <3>2, <3>3 DEF MakeScript
    <3> QED
      BY <3>2, <3>4 DEF RowScript
  <2>2. CASE InUse = None /\ todo = <<Make, MakeHeader>>
    <3>1. todo[1] = Make /\ todo' = <<MakeHeader>>
      <4>1. Tail(<<Make, MakeHeader>>) = <<MakeHeader>>
        BY Tails
      <4> QED
        BY <1>1, <2>2, <4>1
    <3>2. /\ Kept' /\ InRam' /\ Magic' /\ Chosen' /\ InUse' = None
          /\ Count' = Count /\ Used' = Used
          /\ ctx'.header = ctx.header /\ chip'.data = chip.data
          /\ \A i \in Used : chip'.entries[i].name = chip.entries[i].name
          /\ chip'.entries[Count] = NewFile(date, ctx.header.next_data_addr)
      BY <1>2, <2>0, <2>2, <3>1, MakeWritten
    <3>3. MakeHeader' = MakeHeader
      BY <3>2 DEF MakeHeader
    <3>4. MakeScript'
      BY <1>1, <2>0, <3>1, <3>2, <3>3 DEF MakeScript
    <3> QED
      BY <3>2, <3>4 DEF RowScript
  <2>3. CASE InUse = None /\ chip.entries[Count] = NewFile(date, ctx.header.next_data_addr)
             /\ todo = <<MakeHeader>>
    <3>1. todo[1] = MakeHeader /\ todo' = <<>>
      BY <1>1, <2>3
    <3> QED
      BY <1>2, <2>0, <2>3, <3>1, MakeHeaderWritten DEF RowScript
  <2> QED
    BY <1>5, <2>1, <2>2, <2>3 DEF MakeScript
<1>6. CASE BeginScript
  <2>1. PICK f \in Used :
          /\ chip.entries[f].name = date
          /\ \/ InUse # None /\ todo = <<Seal, Begin(f)>>
             \/ InUse = None /\ todo = <<Begin(f)>>
    BY <1>6 DEF BeginScript
  <2>2. CASE InUse # None /\ todo = <<Seal, Begin(f)>>
    <3>1. todo[1] = Seal /\ todo' = <<Begin(f)>>
      <4>1. Tail(<<Seal, Begin(f)>>) = <<Begin(f)>>
        BY Tails
      <4> QED
        BY <1>1, <2>2, <4>1
    <3>2. /\ Kept' /\ InRam' /\ Magic' /\ Chosen' /\ InUse' = None
          /\ NextAddr' = NextAddr /\ Used' = Used /\ chip'.data = chip.data
          /\ \A i \in Used : chip'.entries[i].name = chip.entries[i].name
      BY <1>2, <2>2, <3>1, SealWritten
    <3>3. Begin(f)' = Begin(f)
      BY <1>1, <3>2 DEF Begin
    <3>4. BeginScript'
      BY <1>1, <2>1, <3>1, <3>2, <3>3 DEF BeginScript
    <3> QED
      BY <3>2, <3>4 DEF RowScript
  <2>3. CASE InUse = None /\ todo = <<Begin(f)>>
    <3>1. todo[1] = Begin(f) /\ todo' = <<>>
      BY <1>1, <2>3
    <3> QED
      BY <1>2, <2>1, <2>3, <3>1, BeginWritten DEF RowScript
  <2> QED
    BY <2>1, <2>2, <2>3
<1> QED
  BY <1>1, <1>2, <1>3, <1>4, <1>5, <1>6 DEF RowScript

-----------------------------------------------------------------------------
(* FramFs: the writes of a row, and of a clearing. *)

\* What is written next of the row, by how much is left.
LEMMA AppendNext ==
  ASSUME Steady, juxta_fram_write, phase = "append"
  PROVE  /\ InRam /\ Magic /\ Chosen /\ Appending /\ InUse # None
         /\ IsAppend(todo[1], Left) /\ Left \in 1..row.size + 2 /\ row.size \in 1..2
         /\ RowStart \in Nat /\ InUse \in Used /\ InUse \in Slots
         /\ \A k \in 1..Left - 1 : IsAppend(todo[k + 1], Left - k)
<1>0. TypeInv /\ LastRow /\ Kept /\ PhaseInv
  BY DEF Steady
<1>1. InRam /\ Magic /\ Chosen /\ Appending
  BY <1>0 DEF PhaseInv, Mounted, Running
<1>2. Left \in Nat /\ Left >= 1 /\ row.size \in 1..2
  BY <1>0, Writing DEF LastRow
<1>3. IsAppend(todo[1], Left)
  <2>1. IsAppend(todo[1], Left - 1 + 1) /\ Left - 1 + 1 = Left
    BY <1>1, <1>2 DEF Appending
  <2> QED
    BY <2>1
<1>4. \A k \in 1..Left - 1 : IsAppend(todo[k + 1], Left - k)
  <2> SUFFICES ASSUME NEW k \in 1..Left - 1 PROVE IsAppend(todo[k + 1], Left - k)
    OBVIOUS
  <2>1. k + 1 \in 1..Left /\ Left - (k + 1) + 1 = Left - k
    BY <1>2
  <2>2. IsAppend(todo[k + 1], Left - (k + 1) + 1)
    BY <1>1, <2>1 DEF Appending
  <2> QED
    BY <2>1, <2>2
<1>5. InUse # None /\ InUse \in Used /\ InUse \in Slots
  BY <1>0, <1>1, StartKnown DEF Appending, Chosen
<1>6. RowStart \in Nat
  <2>1. chip.entries[InUse].start \in Nat
    BY <1>0, <1>5, ChipFacts DEF TypeInv
  <2> QED
    BY <1>0, <1>1, <1>5, <2>1, StartKnown DEF Appending
<1>7. Left \in 1..row.size + 2
  BY <1>1, <1>2 DEF Appending
<1> QED
  BY <1>1, <1>2, <1>3, <1>4, <1>5, <1>6, <1>7

\* What Appending says, from the facts that a write leaves.
LEMMA StillAppending ==
  ASSUME TypeInv, juxta_fram_write, row' = row, log' = log,
         InUse' # None, RowStart' = RowStart,
         \A k \in 1..Left - 1 : IsAppend(todo[k], Left - k + 1)',
         Left \in 1..row.size + 2, row.size \in 1..2, Appending,
         chip'.entries[InUse'].start = chip.entries[InUse].start,
         Left >= 2 => NextAddr' = NextAddr,
         Left = 1 => NextAddr' = RowStart + row.size,
         \A p \in 1..row.size : p <= row.size + 3 - Left =>
           chip'.data[RowStart + p - 1] = [row |-> Len(log), part |-> p],
         \A a \in Cells : chip'.data[a].row = Len(log) =>
           a >= RowStart /\ a < RowStart + row.size + 3 - Left,
         \A d \in Days : \A k \in 1..Len(acked'[d]) : \A a \in Cells :
           chip'.data[a] = [row |-> acked'[d][k], part |-> 1] => a < RowStart
  PROVE  Appending'
<1>1. Left' = Left - 1 /\ row.size + 2 - Left' = row.size + 3 - Left /\ RowStart \in Int
  <2>1. Left' = Left - 1
    BY Writing
  <2>2. RowStart \in Int
    BY StartKnown DEF Appending
  <2> QED
    BY <2>1, <2>2
<1>2. Left' <= row.size + 2 /\ \A k \in 1..Left' : IsAppend(todo[k], Left - k + 1)'
  BY <1>1
<1>3. RowStart' >= chip'.entries[InUse'].start /\ RowStart' + row.size <= Size
  BY DEF Appending
<1>4. Left' >= 1 => RowStart' >= NextAddr'
  BY <1>1 DEF Appending
<1>5. Left' = 0 => NextAddr' = RowStart' + row.size
  BY <1>1
<1>6. \A p \in 1..row'.size : p <= row'.size + 2 - Left' =>
        chip'.data[RowStart' + p - 1] = [row |-> Len(log'), part |-> p]
  BY <1>1
<1>7. \A a \in Cells : chip'.data[a].row = Len(log') =>
        a >= RowStart' /\ a < RowStart' + row'.size + 2 - Left'
  <2>1. RowStart' + row'.size + 2 - Left' = RowStart + row.size + 3 - Left
    BY <1>1
  <2> QED
    BY <2>1
<1> QED
  BY <1>2, <1>3, <1>4, <1>5, <1>6, <1>7 DEF Appending

LEMMA DataWritten ==
  ASSUME Steady, TypeInv', juxta_fram_write, phase = "append", Left >= 3
  PROVE  Kept' /\ InRam' /\ Magic' /\ Chosen' /\ Appending'
<1>0. TypeInv /\ LastRow /\ Kept /\ PhaseInv
  BY DEF Steady
<1>1. /\ InRam /\ Magic /\ Chosen /\ Appending /\ InUse # None
      /\ IsAppend(todo[1], Left) /\ Left \in 1..row.size + 2 /\ row.size \in 1..2
      /\ RowStart \in Nat /\ InUse \in Used /\ InUse \in Slots
      /\ \A k \in 1..Left - 1 : IsAppend(todo[k + 1], Left - k)
  BY AppendNext
<1>2. PICK s \in Nat, p \in 1..2, n \in Nat :
        s = RowStart /\ p = row.size + 3 - Left /\ n = Len(log)
  <2>1. Len(log) \in Nat
    BY <1>0 DEF TypeInv
  <2>2. row.size + 3 - Left \in 1..2
    BY <1>1
  <2> QED
    BY <1>1, <2>1, <2>2
<1>3. p \in 1..row.size /\ s + p - 1 \in Cells /\ row.size + 2 - Left = p - 1
  <2>1. s + row.size <= Size /\ Size \in Nat
    BY <1>1, <1>2, ChipAssumption DEF Appending
  <2>2. p \in 1..row.size /\ row.size + 2 - Left = p - 1
    BY <1>1, <1>2
  <2>3. PICK z \in 1..2 : z = row.size
    BY <1>1
  <2>4. s + z <= Size /\ p <= z
    BY <2>1, <2>2, <2>3
  <2>5. s + p - 1 \in Cells
    BY <2>1, <2>4 DEF Cells
  <2> QED
    BY <2>2, <2>5
<1>4. todo[1] = PutData(s + p - 1, [row |-> n, part |-> p])
  <2>1. todo[1] = PutData(RowStart + row.size + 2 - Left,
                           [row |-> Len(log), part |-> row.size + 3 - Left])
    BY <1>1 DEF IsAppend
  <2>2. RowStart + row.size + 2 - Left = s + p - 1
    BY <1>1, <1>2
  <2> QED
    BY <1>2, <2>1, <2>2
<1>5. /\ todo[1].put = "data" /\ todo[1].at = s + p - 1 /\ todo[1].val = [row |-> n, part |-> p]
  BY <1>4 DEF PutData
<1>6. /\ chip'.header = chip.header /\ chip'.entries = chip.entries
      /\ chip'.data = [chip.data EXCEPT ![s + p - 1] = [row |-> n, part |-> p]]
      /\ Count' = Count /\ NextAddr' = NextAddr /\ Used' = Used
      /\ ctx' = ctx /\ InUse' = InUse /\ acked' = acked
      /\ current_file_date' = current_file_date
  BY <1>0, <1>5, PutsData
<1>7. row' = row /\ log' = log /\ Grown /\ Left' = Left - 1
  BY <1>0, Writing
<1>8. chip.data \in [Cells -> CellType]
  BY <1>0 DEF TypeInv, ChipType
<1>9. /\ chip'.data[s + p - 1] = [row |-> n, part |-> p]
      /\ \A a \in Cells : a # s + p - 1 => chip'.data[a] = chip.data[a]
  BY <1>3, <1>6, <1>8
<1>10. /\ \A q \in 1..row.size : q <= p - 1 => chip.data[s + q - 1] = [row |-> n, part |-> q]
       /\ \A a \in Cells : chip.data[a].row = n => a >= s /\ a < s + p - 1
       /\ s >= NextAddr
       /\ \A d \in Days : \A k \in 1..Len(acked[d]) : \A a \in Cells :
            chip.data[a] = [row |-> acked[d][k], part |-> 1] => a < s
  <2>1. RowStart + row.size + 2 - Left = s + p - 1
    BY <1>1, <1>2
  <2>2. \A q \in 1..row.size : q <= p - 1 => chip.data[s + q - 1] = [row |-> n, part |-> q]
    BY <1>1, <1>2, <1>3 DEF Appending
  <2>3. \A a \in Cells : chip.data[a].row = n => a >= s /\ a < s + p - 1
    BY <1>1, <1>2, <2>1 DEF Appending
  <2>4. s >= NextAddr
    BY <1>1, <1>2 DEF Appending
  <2> QED
    BY <1>1, <1>2, <2>2, <2>3, <2>4 DEF Appending
<1>11. FilesApart'
  BY <1>0, <1>6 DEF Kept, FilesApart
<1>12. CellsApart'
  <2>1. ASSUME NEW a \in Cells, chip.data[a] = [row |-> n, part |-> p] PROVE FALSE
    <3>1. a >= s /\ a < s + p - 1 /\ a \in Nat
      BY <1>10, <2>1 DEF Cells
    <3>2. PICK q \in 1..row.size : q = a - s + 1 /\ q <= p - 1
      BY <1>1, <1>3, <3>1
    <3>3. chip.data[s + q - 1] = [row |-> n, part |-> q] /\ s + q - 1 = a
      BY <1>10, <3>1, <3>2
    <3>4. chip.data[a].part = p /\ chip.data[a].part = q
      BY <2>1, <3>3
    <3> QED
      BY <3>2, <3>4
  <2>2. ASSUME NEW a \in Cells, NEW b \in Cells, chip'.data[a] = chip'.data[b], chip'.data[a].row # 0
        PROVE  a = b
    <3>1. CASE a = s + p - 1 /\ b # s + p - 1
      BY <1>9, <2>1, <2>2, <3>1
    <3>2. CASE b = s + p - 1 /\ a # s + p - 1
      BY <1>9, <2>1, <2>2, <3>2
    <3>3. CASE a # s + p - 1 /\ b # s + p - 1
      BY <1>0, <1>9, <2>2, <3>3 DEF Kept, CellsApart
    <3> QED
      BY <3>1, <3>2, <3>3
  <2>3. \A a \in Cells : chip'.data[a].row <= Len(log')
    <3>1. \A a \in Cells : chip.data[a].row <= Len(log)
      BY <1>0 DEF Kept, CellsApart
    <3> QED
      BY <1>2, <1>7, <1>9, <3>1
  <2> QED
    BY <2>2, <2>3 DEF CellsApart
<1>13. AckedPlaces'
  <2>1. \A i \in Used : chip.entries[i].length >= chip.entries[i].length
    <3>1. Used \subseteq Slots /\ \A i \in Slots : chip.entries[i].length \in Nat
      BY <1>0, ChipFacts DEF TypeInv, Used, Count
    <3>2. \A x \in Nat : x >= x
      OBVIOUS
    <3> QED
      BY <3>1, <3>2
  <2>2. NextAddr \in Nat /\ Count \in Nat
    BY <1>0, ChipFacts DEF TypeInv, NextAddr, Count
  <2>3. \A a \in Cells : a < NextAddr => chip'.data[a] = chip.data[a]
    BY <1>3, <1>9, <1>10, <2>2 DEF Cells
  <2> QED
    BY <1>0, <1>6, <1>7, <2>1, <2>2, <2>3, PlacesKept DEF Kept
<1>14. \A d \in Days : \A k \in 1..Len(acked[d]) : acked[d][k] # n
  BY <1>0, <1>2 DEF LastRow
<1>15. AckedInOrder'
  <2>1. \A a \in Cells : \/ chip'.data[a] = chip.data[a]
                         \/ \A d \in Days : \A k \in 1..Len(acked[d]) :
                              chip'.data[a].row # acked[d][k]
    BY <1>9, <1>14
  <2> QED
    BY <1>0, <1>6, <2>1, OrderKept DEF Kept
<1>16. Kept'
  BY <1>11, <1>12, <1>13, <1>15 DEF Kept
<1>17. InRam' /\ Magic' /\ Chosen'
  BY <1>1, <1>6 DEF InRam, Magic, Chosen
<1>18. RowStart' = RowStart
  <2>1. Left' >= 2 /\ Left >= 2
    BY <1>1, <1>7
  <2> QED
    BY <1>6, <1>7, <2>1 DEF RowStart, Behind
<1>19. \A k \in 1..Left - 1 : IsAppend(todo[k], Left - k + 1)'
  <2> SUFFICES ASSUME NEW k \in 1..Left - 1 PROVE IsAppend(todo[k], Left - k + 1)'
    OBVIOUS
  <2>1. IsAppend(todo[k + 1], Left - k) /\ todo'[k] = todo[k + 1] /\ Left' - k + 1 = Left - k
    BY <1>0, <1>1, <1>7, Writing
  <2> QED
    BY <1>6, <1>7, <1>18, <2>1 DEF IsAppend
<1>20. Appending'
  <2>1. \A q \in 1..row.size : q <= row.size + 3 - Left =>
           chip'.data[RowStart + q - 1] = [row |-> Len(log), part |-> q]
    <3> SUFFICES ASSUME NEW q \in 1..row.size, q <= p
                 PROVE  chip'.data[s + q - 1] = [row |-> n, part |-> q]
      BY <1>2
    <3>1. CASE q = p
      BY <1>9, <3>1
    <3>2. CASE q # p
      <4>1. q <= p - 1 /\ s + q - 1 # s + p - 1 /\ s + q - 1 \in Cells
        <5>1. Size \in Nat /\ s + p - 1 <= Size - 1
          BY <1>3, ChipAssumption DEF Cells
        <5> QED
          BY <1>2, <3>2, <5>1 DEF Cells
      <4> QED
        BY <1>9, <1>10, <4>1
    <3> QED
      BY <3>1, <3>2
  <2>2. \A a \in Cells : chip'.data[a].row = Len(log) =>
           a >= RowStart /\ a < RowStart + row.size + 3 - Left
    <3> SUFFICES ASSUME NEW a \in Cells, chip'.data[a].row = n
                 PROVE  a >= s /\ a < s + p
      <4>1. RowStart + row.size + 3 - Left = s + p
        BY <1>1, <1>2
      <4> QED
        BY <1>2, <4>1
    <3>1. a \in Nat
      BY DEF Cells
    <3>2. CASE a = s + p - 1
      BY <1>2, <3>2
    <3>3. CASE a # s + p - 1
      BY <1>2, <1>9, <1>10, <3>1, <3>3
    <3> QED
      BY <3>2, <3>3
  <2>3. \A d \in Days : \A k \in 1..Len(acked'[d]) : \A a \in Cells :
           chip'.data[a] = [row |-> acked'[d][k], part |-> 1] => a < RowStart
    <3> SUFFICES ASSUME NEW d \in Days, NEW k \in 1..Len(acked[d]), NEW a \in Cells,
                        chip'.data[a] = [row |-> acked[d][k], part |-> 1]
                 PROVE  a < s
      BY <1>2, <1>6
    <3>1. chip'.data[a].row # n
      BY <1>14
    <3>2. chip'.data[a] = chip.data[a]
      BY <1>9, <3>1
    <3> QED
      BY <1>10, <3>2
  <2>4. chip'.entries[InUse'].start = chip.entries[InUse].start
    BY <1>6
  <2> QED
    BY <1>0, <1>1, <1>6, <1>7, <1>18, <1>19, <2>1, <2>2, <2>3, <2>4, StillAppending
<1> QED
  BY <1>16, <1>17, <1>20

LEMMA LengthWritten ==
  ASSUME Steady, TypeInv', juxta_fram_write, phase = "append", Left = 2
  PROVE  Kept' /\ InRam' /\ Magic' /\ Chosen' /\ Appending'
<1>0. TypeInv /\ LastRow /\ Kept /\ PhaseInv
  BY DEF Steady
<1>1. /\ InRam /\ Magic /\ Chosen /\ Appending /\ InUse # None
      /\ IsAppend(todo[1], Left) /\ Left \in 1..row.size + 2 /\ row.size \in 1..2
      /\ RowStart \in Nat /\ InUse \in Used /\ InUse \in Slots
      /\ \A k \in 1..Left - 1 : IsAppend(todo[k + 1], Left - k)
  BY AppendNext
<1> DEFINE e == chip.entries[InUse]
           longer == [e EXCEPT !.length = @ + row.size]
<1>2. todo[1] = PutEntry(InUse, longer, InUse, current_file_date, FALSE)
  BY <1>1 DEF IsAppend
<1>3. /\ todo[1].put = "entry" /\ todo[1].at = InUse /\ todo[1].active = InUse
      /\ todo[1].val = longer /\ ~todo[1].fresh /\ todo[1].day = current_file_date
  BY <1>2 DEF PutEntry
<1>4. /\ chip'.header = chip.header /\ chip'.data = chip.data
      /\ chip'.entries = [chip.entries EXCEPT ![InUse] = longer]
      /\ Count' = Count /\ NextAddr' = NextAddr /\ Used' = Used
      /\ InUse' = InUse /\ ctx'.header = ctx.header /\ acked' = acked
      /\ current_file_date' = current_file_date
  BY <1>0, <1>3, PutsEntry
<1>5. row' = row /\ log' = log /\ Grown /\ Left' = 1 /\ todo'[1] = todo[2]
  BY <1>0, Writing
<1>6. /\ chip.entries \in [Slots -> Entry] /\ Used \subseteq Slots
      /\ \A i \in Slots : chip.entries[i].length \in Nat /\ chip.entries[i].start \in Nat
  BY <1>0, ChipFacts DEF TypeInv, ChipType, Used, Count
<1>7. /\ longer.name = e.name /\ longer.start = e.start /\ longer.length = e.length + row.size
      /\ longer.flags = e.flags
  <2>1. e \in Entry
    BY <1>1, <1>6
  <2> QED
    BY <2>1 DEF Entry
<1>8. /\ chip'.entries[InUse] = longer
      /\ \A i \in Slots : i # InUse => chip'.entries[i] = chip.entries[i]
  BY <1>1, <1>4, <1>6
<1> HIDE DEF longer
<1>9. ASSUME NEW i \in Used
      PROVE  LET a == chip.entries[i]
                 b == chip'.entries[i]
             IN  /\ b.name = a.name /\ b.start = a.start /\ b.length >= a.length
                 /\ Valid(a) => Valid(b)
                 /\ Active(b) => Active(a)
                 /\ End(b) <= Size
  <2>1. CASE i = InUse
    <3>1. longer.length >= e.length
      BY <1>1, <1>6, <1>7
    <3>2. End(longer) <= Size
      <4>1. RowStart = e.start + e.length
        BY <1>1 DEF RowStart, Behind, InUse
      <4>2. RowStart + row.size <= Size
        BY <1>1 DEF Appending
      <4>3. e.start \in Nat /\ e.length \in Nat /\ row.size \in Nat
        BY <1>1, <1>6
      <4>4. End(longer) = e.start + (e.length + row.size)
        BY <1>7 DEF End
      <4> HIDE DEF e
      <4>5. e.start + (e.length + row.size) = e.start + e.length + row.size
        BY <4>3
      <4> QED
        BY <4>1, <4>2, <4>4, <4>5
    <3> QED
      BY <1>7, <1>8, <2>1, <3>1, <3>2 DEF Valid, Active
  <2>2. CASE i # InUse
    <3>1. chip'.entries[i] = chip.entries[i] /\ chip.entries[i].length \in Nat
          /\ End(chip.entries[i]) <= Size
      BY <1>0, <1>6, <1>8, <2>2 DEF Kept, FilesApart
    <3> QED
      BY <3>1
  <2> QED
    BY <2>1, <2>2
<1>10. Kept'
  BY <1>0, <1>4, <1>5, <1>9, KeptEntry
<1>11. InRam' /\ Magic' /\ Chosen'
  <2>1. InRam' /\ Magic'
    BY <1>1, <1>4 DEF InRam, Magic
  <2>2. Active(chip'.entries[InUse])
    BY <1>1, <1>7, <1>8 DEF Chosen, Active
  <2>3. Chosen'
    BY <1>1, <1>4, <2>2 DEF Chosen
  <2> QED
    BY <2>1, <2>3
<1>12. RowStart' = RowStart
  <2>1. RowStart = e.start + e.length
    BY <1>1 DEF RowStart, Behind, InUse
  <2>2. RowStart' = (chip'.entries[InUse'].start + chip'.entries[InUse'].length) - row'.size
    <3>1. RowStart' = Behind' - row'.size
      BY <1>5 DEF RowStart
    <3>2. Behind' = chip'.entries[InUse'].start + chip'.entries[InUse'].length
      BY DEF Behind, InUse
    <3> QED
      BY <3>1, <3>2
  <2>3. chip'.entries[InUse'].start = e.start /\ chip'.entries[InUse'].length = e.length + row.size
    BY <1>4, <1>7, <1>8
  <2>4. e.start \in Nat /\ e.length \in Nat /\ row.size \in Nat
    BY <1>1, <1>6
  <2> HIDE DEF e
  <2> QED
    BY <1>5, <2>1, <2>2, <2>3, <2>4
<1>13. \A k \in 1..Left - 1 : IsAppend(todo[k], Left - k + 1)'
  <2> SUFFICES ASSUME NEW k \in 1..Left - 1 PROVE IsAppend(todo[k], Left - k + 1)'
    OBVIOUS
  <2>1. k = 1 /\ Left' - k + 1 = 1
    BY <1>5
  <2>2. IsAppend(todo[1 + 1], Left - 1)
    BY <1>1
  <2>3. todo[2] = PutHeader([ctx.header EXCEPT !.next_data_addr = RowStart + row.size], InUse)
    BY <2>2 DEF IsAppend
  <2> QED
    BY <1>4, <1>5, <1>12, <2>1, <2>3 DEF IsAppend
<1>14. Appending'
  <2>1. \A q \in 1..row.size : q <= row.size + 3 - Left =>
           chip'.data[RowStart + q - 1] = [row |-> Len(log), part |-> q]
    <3>1. \A q \in 1..row.size : q <= row.size + 2 - Left
      BY <1>1
    <3> QED
      BY <1>1, <1>4, <3>1 DEF Appending
  <2>2. \A a \in Cells : chip'.data[a].row = Len(log) =>
           a >= RowStart /\ a < RowStart + row.size + 3 - Left
    <3>1. \A a \in Cells : chip'.data[a].row = Len(log) =>
             a >= RowStart /\ a < RowStart + row.size + 2 - Left
      BY <1>1, <1>4 DEF Appending
    <3>2. RowStart + row.size + 2 - Left < RowStart + row.size + 3 - Left
          /\ RowStart + row.size + 2 - Left \in Int /\ RowStart + row.size + 3 - Left \in Int
      BY <1>1
    <3>3. \A a \in Cells : a \in Int
      BY DEF Cells
    <3> QED
      BY <3>1, <3>2, <3>3
  <2>3. \A d \in Days : \A k \in 1..Len(acked'[d]) : \A a \in Cells :
           chip'.data[a] = [row |-> acked'[d][k], part |-> 1] => a < RowStart
    BY <1>1, <1>4 DEF Appending
  <2>4. chip'.entries[InUse'].start = chip.entries[InUse].start
    BY <1>4, <1>7, <1>8
  <2> QED
    BY <1>0, <1>1, <1>4, <1>5, <1>12, <1>13, <2>1, <2>2, <2>3, <2>4, StillAppending
<1> QED
  BY <1>10, <1>11, <1>14

LEMMA RowHeaderWritten ==
  ASSUME Steady, TypeInv', juxta_fram_write, phase = "append", Left = 1
  PROVE  Kept' /\ InRam' /\ Magic' /\ Chosen' /\ Appending'
<1>0. TypeInv /\ LastRow /\ Kept /\ PhaseInv
  BY DEF Steady
<1>1. /\ InRam /\ Magic /\ Chosen /\ Appending /\ InUse # None
      /\ IsAppend(todo[1], Left) /\ Left \in 1..row.size + 2 /\ row.size \in 1..2
      /\ RowStart \in Nat /\ InUse \in Used /\ InUse \in Slots
      /\ \A k \in 1..Left - 1 : IsAppend(todo[k + 1], Left - k)
  BY AppendNext
<1> DEFINE end == RowStart + row.size
<1>2. todo[1] = PutHeader([ctx.header EXCEPT !.next_data_addr = end], InUse)
  BY <1>1 DEF IsAppend
<1>3. todo[1].put = "header" /\ todo[1].active = InUse
      /\ todo[1].val = [ctx.header EXCEPT !.next_data_addr = end]
  BY <1>2 DEF PutHeader
<1>4. /\ chip'.header = todo[1].val /\ chip'.entries = chip.entries /\ chip'.data = chip.data
      /\ ctx'.header = todo[1].val /\ InUse' = InUse
      /\ acked' = acked /\ current_file_date' = current_file_date
  BY <1>0, <1>3, PutsHeader
<1>5. /\ todo[1].val.file_count = Count /\ todo[1].val.next_data_addr = end /\ todo[1].val.magic
  BY <1>0, <1>1, <1>3 DEF TypeInv, ContextType, HeaderType, Magic, InRam
<1>6. Count' = Count /\ NextAddr' = end /\ Used' = Used
  BY <1>4, <1>5 DEF Count, NextAddr, Used
<1>7. row' = row /\ log' = log /\ Grown /\ Left' = 0
  BY <1>0, Writing
<1>8. /\ Used \subseteq Slots /\ Count \in Nat /\ NextAddr \in Nat
      /\ \A i \in Slots : chip.entries[i].length \in Nat /\ chip.entries[i].start \in Nat
  BY <1>0, ChipFacts DEF TypeInv, Used, Count, NextAddr
<1>9. end = End(chip.entries[InUse]) /\ end \in Nat /\ end >= NextAddr
  <2>1. Behind = End(chip.entries[InUse]) /\ Behind \in Nat
    BY <1>0, <1>1, StartKnown
  <2>2. RowStart = Behind - row.size
    BY DEF RowStart
  <2>3. RowStart >= NextAddr
    BY <1>1 DEF Appending
  <2> QED
    BY <1>1, <1>8, <2>1, <2>2, <2>3
<1> HIDE DEF end
<1>10. FilesApart'
  <2>1. chip'.header.magic
    BY <1>4, <1>5
  <2>2. \A i \in Used : Active(chip.entries[i]) => i = InUse
    BY <1>0, <1>1 DEF Chosen, Kept, FilesApart
  <2>3. \A i \in Used : Active(chip.entries[i]) => End(chip.entries[i]) >= end
    BY <1>9, <2>2
  <2> QED
    BY <1>0, <1>4, <1>6, <2>1, <2>3 DEF Kept, FilesApart
<1>11. CellsApart'
  BY <1>0, <1>4, <1>7, CellsKept DEF Kept
<1>12. AckedPlaces'
  <2>1. \A i \in Used : chip.entries[i].length >= chip.entries[i].length
    <3>1. \A x \in Nat : x >= x
      OBVIOUS
    <3> QED
      BY <1>8, <3>1
  <2>2. Count' >= Count /\ NextAddr' >= NextAddr
    BY <1>6, <1>8, <1>9
  <2> QED
    BY <1>0, <1>4, <1>7, <2>1, <2>2, PlacesKept DEF Kept
<1>13. AckedInOrder'
  BY <1>0, <1>4, OrderKept DEF Kept
<1>14. Kept'
  BY <1>10, <1>11, <1>12, <1>13 DEF Kept
<1>15. InRam' /\ Magic' /\ Chosen'
  BY <1>1, <1>4, <1>5, <1>6, <1>9 DEF InRam, Magic, Chosen
<1>16. RowStart' = RowStart
  <2>1. RowStart = Behind - row.size /\ RowStart' = Behind' - row'.size
    BY <1>7 DEF RowStart
  <2>2. Behind' = Behind
    BY <1>4 DEF Behind, InUse
  <2> QED
    BY <1>7, <2>1, <2>2
<1>17. Appending'
  <2>1. \A q \in 1..row.size : q <= row.size + 3 - Left =>
           chip'.data[RowStart + q - 1] = [row |-> Len(log), part |-> q]
    <3>1. \A q \in 1..row.size : q <= row.size + 2 - Left
      BY <1>1
    <3> QED
      BY <1>1, <1>4, <3>1 DEF Appending
  <2>2. \A a \in Cells : chip'.data[a].row = Len(log) =>
           a >= RowStart /\ a < RowStart + row.size + 3 - Left
    <3>1. \A a \in Cells : chip'.data[a].row = Len(log) =>
             a >= RowStart /\ a < RowStart + row.size + 2 - Left
      BY <1>1, <1>4 DEF Appending
    <3>2. RowStart + row.size + 2 - Left < RowStart + row.size + 3 - Left
          /\ RowStart + row.size + 2 - Left \in Int /\ RowStart + row.size + 3 - Left \in Int
      BY <1>1
    <3>3. \A a \in Cells : a \in Int
      BY DEF Cells
    <3> QED
      BY <3>1, <3>2, <3>3
  <2>3. \A d \in Days : \A k \in 1..Len(acked'[d]) : \A a \in Cells :
           chip'.data[a] = [row |-> acked'[d][k], part |-> 1] => a < RowStart
    BY <1>1, <1>4 DEF Appending
  <2>4. chip'.entries[InUse'].start = chip.entries[InUse].start
    BY <1>4
  <2>5. \A k \in 1..Left - 1 : IsAppend(todo[k], Left - k + 1)'
    OBVIOUS
  <2>6. NextAddr' = RowStart + row.size
    BY <1>6 DEF end
  <2> QED
    BY <1>0, <1>1, <1>4, <1>7, <1>16, <2>1, <2>2, <2>3, <2>4, <2>5, <2>6, StillAppending
<1> QED
  BY <1>14, <1>15, <1>17

LEMMA AppendWriteSteady ==
  ASSUME Steady, TypeInv', juxta_fram_write, phase = "append"
  PROVE  (Kept /\ PhaseInv)'
<1>1. phase' = "append" /\ Left \in Nat /\ Left >= 1
  BY Writing DEF Steady
<1>2. Left = 1 \/ Left = 2 \/ Left >= 3
  BY <1>1
<1>3. Kept' /\ InRam' /\ Magic' /\ Chosen' /\ Appending'
  BY <1>2, DataWritten, LengthWritten, RowHeaderWritten
<1> QED
  BY <1>1, <1>3 DEF PhaseInv, Mounted, Running

LEMMA ClearWriteSteady ==
  ASSUME Steady, TypeInv', juxta_fram_write, phase = "clear"
  PROVE  (Kept /\ PhaseInv)'
<1>0. TypeInv /\ LastRow /\ Kept /\ PhaseInv
  BY DEF Steady
<1>1. MaxFiles \in Nat /\ MaxFiles >= 1 /\ MaxMacs \in Nat /\ MaxMacs >= 1
  BY ChipAssumption
<1>2. InRam /\ Magic /\ Clearing
  BY <1>0 DEF PhaseInv, Mounted, Running
<1>3. phase' = "clear" /\ Left \in Nat /\ Left >= 1 /\ Left' = Left - 1 /\ log' = log
      /\ \A k \in 1..Left - 1 : todo'[k] = todo[k + 1] /\ k + 1 \in 1..Left
  BY <1>0, Writing
<1> DEFINE all == MaxFiles + MaxMacs + 3
<1>4. IsClear(todo[1], Left) /\ Left <= all /\ Nothing
  <2>1. IsClear(todo[1], Left - 1 + 1) /\ Left - 1 + 1 = Left
    BY <1>2, <1>3 DEF Clearing
  <2> QED
    BY <1>2, <2>1 DEF Clearing
<1>5. \A k \in 1..Left' : IsClear(todo[k], Left - k + 1)'
  <2> SUFFICES ASSUME NEW k \in 1..Left - 1 PROVE IsClear(todo[k], Left - k + 1)'
    BY <1>3
  <2>1. IsClear(todo[k + 1], Left - (k + 1) + 1)
    BY <1>2, <1>3 DEF Clearing
  <2>2. todo'[k] = todo[k + 1] /\ Left' - k + 1 = Left - (k + 1) + 1
    BY <1>3
  <2> QED
    BY <2>1, <2>2 DEF IsClear, IsMacClear, IsFormat
<1> SUFFICES /\ Kept' /\ InRam' /\ Magic' /\ acked' = acked /\ Count' = 0 /\ NextAddr' = 0
             /\ Left' <= MaxMacs + 2 => InUse' = None
  <2>1. Nothing' /\ Left' <= all
    BY <1>1, <1>3, <1>4 DEF Nothing
  <2>2. Clearing'
    BY <1>5, <2>1 DEF Clearing
  <2> QED
    BY <1>3, <2>2 DEF PhaseInv, Mounted, Running
<1>6. CASE Left = all
  <2>1. IsFormat(todo[1], MaxFiles + 1)
    <3>1. Left > MaxMacs + 2 /\ Left - MaxMacs - 2 = MaxFiles + 1
      BY <1>1, <1>6
    <3> QED
      BY <1>4, <3>1 DEF IsClear
  <2>2. todo[1].put = "header" /\ todo[1].val = Header(0, 0)
    BY <2>1 DEF IsFormat
  <2>3. /\ chip'.data = chip.data /\ acked' = acked /\ chip'.header = Header(0, 0)
        /\ ctx'.header = Header(0, 0)
    BY <1>0, <2>2, PutsHeader
  <2>4. Count' = 0 /\ NextAddr' = 0 /\ InRam' /\ Magic'
    BY <2>3 DEF Count, NextAddr, InRam, Magic, Header
  <2>5. Kept'
    BY <1>0, <1>3, <1>4, <2>3, <2>4, KeptEmpty
  <2>6. ~(Left' <= MaxMacs + 2)
    BY <1>1, <1>3, <1>6
  <2> QED
    BY <2>3, <2>4, <2>5, <2>6
<1>7. CASE Left < all /\ Left > MaxMacs + 2
  <2>0. Count = 0 /\ NextAddr = 0
    BY <1>2, <1>7 DEF Clearing
  <2>1. todo[1] = PutZero(MaxFiles - (Left - MaxMacs - 2))
    <3>1. Left - MaxMacs - 2 <= MaxFiles
      BY <1>1, <1>3, <1>7
    <3>2. IsFormat(todo[1], Left - MaxMacs - 2)
      BY <1>4, <1>7 DEF IsClear
    <3> QED
      BY <3>1, <3>2 DEF IsFormat
  <2>2. todo[1].put = "zero" /\ todo[1].at = MaxFiles - (Left - MaxMacs - 2)
    BY <2>1 DEF PutZero
  <2>3. /\ chip'.header = chip.header /\ chip'.data = chip.data /\ Count' = 0 /\ NextAddr' = 0
        /\ ctx'.header = ctx.header /\ acked' = acked
        /\ InUse' = IF todo[1].at = MaxFiles - 1 THEN None ELSE InUse
    BY <1>0, <2>0, <2>2, PutsZero
  <2>4. InRam' /\ Magic'
    BY <1>2, <2>0, <2>3 DEF InRam, Magic
  <2>5. Kept'
    BY <1>0, <1>3, <1>4, <2>3, KeptEmpty
  <2>6. Left' <= MaxMacs + 2 => todo[1].at = MaxFiles - 1
    BY <1>1, <1>3, <1>7, <2>2
  <2> QED
    BY <2>3, <2>4, <2>5, <2>6
<1>8. CASE Left <= MaxMacs + 2
  <2>1. todo[1].put \in Quiet
    <3>1. CASE Left = 1
      BY <1>4, <3>1 DEF IsClear, Quiet
    <3>2. CASE Left # 1
      <4>1. IsMacClear(todo[1], Left - 1) /\ (Left - 1 = MaxMacs + 1 \/ Left - 1 <= MaxMacs)
        BY <1>1, <1>3, <1>4, <1>8, <3>2 DEF IsClear
      <4> QED
        BY <4>1 DEF IsMacClear, PutMacHeader, Quiet
    <3> QED
      BY <3>1, <3>2
  <2>2. Count = 0 /\ NextAddr = 0 /\ InUse = None
    <3>1. Left < all
      BY <1>1, <1>3, <1>8
    <3> QED
      BY <1>2, <1>8, <3>1 DEF Clearing
  <2>3. Kept' /\ InRam' /\ Magic'
    BY <1>2, <2>1, QuietSteady
  <2>4. acked' = acked /\ Count' = Count /\ NextAddr' = NextAddr /\ InUse' = InUse
    BY <1>0, <2>1, PutsQuiet
  <2> QED
    BY <2>2, <2>3, <2>4
<1> QED
  BY <1>1, <1>3, <1>4, <1>6, <1>7, <1>8

LEMMA WriteSteady ==
  ASSUME Steady, TypeInv', juxta_fram_write
  PROVE  (Kept /\ PhaseInv)'
<1>1. todo # <<>>
  BY DEF juxta_fram_write
<1>2. phase \in {"macs", "settings", "active", "save", "refused", "row", "append", "clear"}
  BY <1>1 DEF Steady, PhaseInv, TypeInv, Phases
<1> QED
  BY <1>2, BootWriteSteady, RefusedWriteSteady, RowWriteSteady, AppendWriteSteady, ClearWriteSteady

LEMMA FramInit ==
  ASSUME FsInit
  PROVE  FramInv
<1>0. TypeInv /\ LastRow
  BY FramTypesInit
<1>1. /\ phase = "off" /\ todo = <<>> /\ acked = [d \in Days |-> <<>>] /\ Len(log) = 0
      /\ Count = 0 /\ NextAddr = 0 /\ ~chip.header.magic
      /\ \A a \in Cells : chip.data[a].row = 0
  BY DEF FsInit, Count, NextAddr, Header, NoCell
<1>2. Used = {}
  BY <1>1 DEF Used
<1>3. FilesApart
  BY <1>1, <1>2 DEF FilesApart
<1>4. CellsApart
  BY <1>1 DEF CellsApart
<1>5. \A d \in Days : Len(acked[d]) = 0
  BY <1>1
<1>6. AckedPlaces /\ AckedInOrder
  BY <1>5 DEF AckedPlaces, AckedInOrder
<1>7. PhaseInv
  BY <1>1 DEF PhaseInv, Mounted, Running
<1> QED
  BY <1>3, <1>4, <1>6, <1>7 DEF FramInv, Kept

LEMMA FramStep ==
  ASSUME TypeInv, LastRow, FramInv, [FsNext]_fsVars
  PROVE  FramInv'
<1> SUFFICES ASSUME ~spoilt' PROVE (Kept /\ PhaseInv)'
  BY DEF FramInv
<1>1. TypeInv' /\ LastRow'
  BY FramTypesStep
<1>2. ~spoilt
  BY DEF FsNext, Mounts, PowerUp, InitHeader, InitMacs, InitSettings, InitWithTime, Operations,
         StartRow, FindOrAddMac, AppendRow, RowAppended, OperationEnds, ClearMemory, SaveSettings,
         juxta_fram_write, WriteFails, PowerCut, DateChanges, fsVars
<1>3. Steady
  BY <1>2 DEF Steady, FramInv
<1>4. CASE Mounts
  BY <1>1, <1>3, <1>4, BootSteady
<1>5. CASE Operations
  <2>1. ASSUME NEW macs \in Lists, StartRow(1, macs) PROVE (Kept /\ PhaseInv)'
    BY <1>1, <1>3, <2>1, StartSteady, ChipAssumption
  <2>2. CASE StartRow(2, <<>>)
    <3>1. <<>> \in Seq(Macs) /\ 2 \in 1..2
      OBVIOUS
    <3> QED
      BY <1>1, <1>3, <2>2, <3>1, StartSteady
  <2>3. CASE FindOrAddMac
    BY <1>1, <1>3, <2>3, MacSteady
  <2>4. CASE AppendRow
    BY <1>1, <1>3, <2>4, AppendSteady
  <2>5. CASE RowAppended
    BY <1>1, <1>3, <2>5, RowAppendedSteady
  <2>6. CASE OperationEnds
    BY <1>1, <1>3, <2>6, EndSteady
  <2>7. CASE ClearMemory \/ SaveSettings
    BY <1>1, <1>3, <2>7, CommandSteady
  <2> QED
    BY <1>5, <2>1, <2>2, <2>3, <2>4, <2>5, <2>6, <2>7 DEF Operations
<1>6. CASE juxta_fram_write
  BY <1>1, <1>3, <1>6, WriteSteady
<1>7. CASE WriteFails
  BY <1>1, <1>3, <1>7, FailSteady
<1>8. CASE PowerCut \/ DateChanges
  BY <1>1, <1>3, <1>8, CommandSteady
<1>9. CASE UNCHANGED fsVars
  <2>1. Kept /\ PhaseInv
    BY <1>3 DEF Steady
  <2>2. /\ chip' = chip /\ ctx' = ctx /\ todo' = todo /\ phase' = phase /\ row' = row /\ log' = log
        /\ acked' = acked /\ date' = date /\ current_file_date' = current_file_date
    BY <1>9 DEF fsVars
  <2>3. Kept'
    BY <1>3, <2>1, <2>2, GrownSame, <1>1, KeptSame DEF Steady
  <2>4. /\ InRam' = InRam /\ Magic' = Magic /\ Chosen' = Chosen /\ Left' = Left /\ RowStart' = RowStart
        /\ Count' = Count /\ NextAddr' = NextAddr /\ InUse' = InUse /\ Used' = Used
        /\ Seal' = Seal /\ Make' = Make /\ MakeHeader' = MakeHeader /\ \A f : Begin(f)' = Begin(f)
    BY <2>2 DEF InRam, Magic, Chosen, Left, RowStart, Behind, Count, NextAddr, InUse, Used,
                Seal, Make, MakeHeader, Begin
  <2>5. SealScript' = SealScript /\ MakeScript' = MakeScript /\ MacScript' = MacScript
    BY <2>2, <2>4 DEF SealScript, MakeScript, MacScript
  <2>6. BeginScript' = BeginScript
    BY <2>2, <2>4 DEF BeginScript
  <2>7. RowScript' = RowScript
    BY <2>2, <2>5, <2>6 DEF RowScript
  <2>8. Formatting => Formatting'
    BY <2>2, <2>4 DEF Formatting, IsFormat
  <2>9. ClearingMacs => ClearingMacs'
    BY <2>2, <2>4 DEF ClearingMacs, IsMacClear
  <2>10. ClearingSettings => ClearingSettings'
    BY <2>2, <2>4 DEF ClearingSettings
  <2>11. Clearing => Clearing'
    BY <2>2, <2>4 DEF Clearing, IsClear, IsMacClear, IsFormat, Nothing
  <2>12. Appending => Appending'
    <3>1. ASSUME NEW k \in 1..Left, IsAppend(todo[k], Left - k + 1)
          PROVE  IsAppend(todo[k], Left - k + 1)'
      BY <2>2, <2>4, <3>1 DEF IsAppend
    <3> QED
      BY <2>2, <2>4, <3>1 DEF Appending
  <2>13. PhaseInv'
    BY <2>1, <2>2, <2>4, <2>5, <2>7, <2>8, <2>9, <2>10, <2>11, <2>12 DEF PhaseInv
  <2> QED
    BY <2>3, <2>13
<1> QED
  BY <1>4, <1>5, <1>6, <1>7, <1>8, <1>9 DEF FsNext

-----------------------------------------------------------------------------
(* FramFs: rows acknowledged are where they should be. *)

\* A row acknowledged is in its day's file once, where its first cell is.
LEMMA RowInFile ==
  ASSUME TypeInv, LastRow, Kept, NEW d \in Days, NEW k \in 1..Len(acked[d])
  PROVE  \E a \in Cells :
           LET cells == juxta_framfs_read(d, 0)
               p == a - chip.entries[FileNamed(d)].start + 1
           IN  /\ chip.data[a] = [row |-> acked[d][k], part |-> 1]
               /\ p \in DOMAIN cells /\ Places(cells, acked[d][k]) = {p}
<1>0. PICK n : n = acked[d][k]
  OBVIOUS
<1>1. n \in 1..Len(log) /\ log[n].size \in 1..2 /\ Len(log) \in Nat
  BY <1>0, LogFacts
<1>2. PICK i \in Used, a \in Cells : chip.entries[i].name = d /\ Holds(i, n, a)
  BY <1>0 DEF Kept, AckedPlaces
<1> DEFINE e == chip.entries[i]
           S == {j \in Slots : /\ j < chip.header.file_count /\ Valid(chip.entries[j])
                               /\ chip.entries[j].name = d}
<1>3. /\ i \in Slots /\ Used \subseteq Slots /\ Count \in Nat /\ e.start \in Nat /\ e.length \in Nat
      /\ a \in Nat /\ Size \in Nat
  BY ChipFacts, ChipAssumption DEF TypeInv, Used, Count, Cells
<1>4. S = {i}
  <2>1. \A j \in Slots : j < Count <=> j \in Used
    BY <1>3 DEF Slots, Used
  <2>2. i \in S
    BY <1>2, <1>3, <2>1 DEF Kept, FilesApart, Count
  <2>3. \A j \in S : j = i
    BY <1>2, <2>1 DEF Kept, FilesApart, Count
  <2> QED
    BY <2>2, <2>3
<1>5. FileNamed(d) = i
  <2>1. S \in SUBSET Nat
    BY DEF Slots
  <2>2. First(S) \in S
    BY <1>4, <2>1, FirstOf
  <2> QED
    BY <1>4, <2>2 DEF FileNamed
<1> HIDE DEF S
<1>6. PICK z \in 1..2 : z = log[n].size
  BY <1>1
<1>7. /\ e.start <= a /\ a + z <= e.start + e.length /\ e.start + e.length <= Size
      /\ \A p \in 1..z : a + p - 1 \in Cells /\ chip.data[a + p - 1] = [row |-> n, part |-> p]
  BY <1>2, <1>6 DEF Holds, At, End, Kept, FilesApart
<1>8. PICK start \in Nat, length \in Nat : start = e.start /\ length = e.length
  BY <1>3
<1>81. start <= a /\ a + z <= start + length /\ start + length <= Size
  BY <1>7, <1>8
<1> DEFINE cells == [q \in 1..length |-> chip.data[start + q - 1]]
           p0 == a - start + 1
<1>9. juxta_framfs_read(d, 0) = cells
  <2>1. i # None /\ ~(0 >= length)
    <3>1. ~(0 >= length)
      BY <1>3, <1>81
    <3>2. i \in Nat
      BY <1>3 DEF Slots
    <3> QED
      BY <3>1, <3>2 DEF None
  <2>2. length - 0 = length /\ \A q \in 1..length : start + 0 + q - 1 = start + q - 1
    OBVIOUS
  <2>3. juxta_framfs_read(d, 0) = [q \in 1..length - 0 |-> chip.data[start + 0 + q - 1]]
    BY <1>5, <1>8, <2>1 DEF juxta_framfs_read
  <2>4. juxta_framfs_read(d, 0) = [q \in 1..length |-> chip.data[start + 0 + q - 1]]
    BY <2>2, <2>3
  <2> QED
    BY <2>2, <2>4
<1>10. p0 \in 1..length /\ \A p \in 1..z : p0 + p - 1 \in 1..length /\ start + (p0 + p - 1) - 1 = a + p - 1
  <2>1. p0 \in 1..length
    BY <1>3, <1>81
  <2>2. ASSUME NEW p \in 1..z
        PROVE  p0 + p - 1 \in 1..length /\ start + (p0 + p - 1) - 1 = a + p - 1
    <3>1. p0 + p - 1 = a - start + p
      BY <1>3
    <3>2. p0 + p - 1 \in 1..length
      BY <1>3, <1>81, <3>1
    <3>3. start + (p0 + p - 1) - 1 = a + p - 1
      BY <1>3, <3>1
    <3> QED
      BY <3>2, <3>3
  <2> QED
    BY <2>1, <2>2
<1>11. chip.data[a] = [row |-> n, part |-> 1]
  <2>1. a + 1 - 1 = a /\ 1 \in 1..z
    BY <1>3
  <2> QED
    BY <1>7, <2>1
<1>12. p0 \in Places(cells, n)
  <2>1. \A p \in 1..z : cells[p0 + p - 1] = [row |-> n, part |-> p]
    BY <1>7, <1>10
  <2>2. DOMAIN cells = 1..length
    OBVIOUS
  <2> HIDE DEF cells
  <2> QED
    BY <1>6, <1>10, <2>1, <2>2 DEF Places
<1>13. ASSUME NEW q \in Places(cells, n) PROVE q = p0
  <2>1. q \in 1..length /\ cells[q + 1 - 1] = [row |-> n, part |-> 1]
    <3>1. DOMAIN cells = 1..length /\ 1 \in 1..z
      OBVIOUS
    <3> HIDE DEF cells
    <3> QED
      BY <1>6, <3>1 DEF Places
  <2>2. chip.data[start + q - 1] = [row |-> n, part |-> 1] /\ start + q - 1 \in Cells
    <3>1. q + 1 - 1 = q
      BY <2>1
    <3>2. start + q - 1 \in Cells
      BY <1>3, <1>81, <2>1 DEF Cells
    <3> QED
      BY <2>1, <3>1, <3>2
  <2>3. start + q - 1 = a
    <3>1. chip.data[a].row # 0 /\ chip.data[a] = chip.data[start + q - 1]
      BY <1>1, <1>11, <2>2
    <3> QED
      BY <1>2, <2>2, <3>1 DEF Kept, CellsApart
  <2> QED
    BY <1>3, <2>1, <2>3
<1>14. Places(cells, n) = {p0}
  BY <1>12, <1>13
<1>15. p0 \in DOMAIN cells
  BY <1>10
<1> HIDE DEF cells
<1> QED
  BY <1>0, <1>2, <1>5, <1>8, <1>9, <1>11, <1>14, <1>15

LEMMA FramInvImplies ==
  ASSUME TypeInv, LastRow, FramInv
  PROVE  AckedRowsIntact
<1> SUFFICES ASSUME ~spoilt, NEW d \in Days, NEW j \in DOMAIN acked[d], NEW k \in DOMAIN acked[d]
             PROVE  \E p, q \in DOMAIN juxta_framfs_read(d, 0) :
                      /\ Places(juxta_framfs_read(d, 0), acked[d][j]) = {p}
                      /\ Places(juxta_framfs_read(d, 0), acked[d][k]) = {q}
                      /\ j < k => p < q
  BY DEF AckedRowsIntact
<1>1. Kept
  BY DEF FramInv
<1>2. acked[d] \in Seq(Nat) /\ DOMAIN acked[d] = 1..Len(acked[d])
  BY DEF TypeInv
<1> DEFINE cells == juxta_framfs_read(d, 0)
           s == chip.entries[FileNamed(d)].start
<1>3. PICK a \in Cells : /\ chip.data[a] = [row |-> acked[d][j], part |-> 1]
                         /\ a - s + 1 \in DOMAIN cells /\ Places(cells, acked[d][j]) = {a - s + 1}
  BY <1>1, <1>2, RowInFile
<1>4. PICK b \in Cells : /\ chip.data[b] = [row |-> acked[d][k], part |-> 1]
                         /\ b - s + 1 \in DOMAIN cells /\ Places(cells, acked[d][k]) = {b - s + 1}
  BY <1>1, <1>2, RowInFile
<1>5. j < k => a < b
  BY <1>1, <1>2, <1>3, <1>4 DEF Kept, AckedInOrder
<1>6. s \in Int
  <2>1. FileNamed(d) \in Slots
    <3>1. PICK i \in Used : chip.entries[i].name = d
      BY <1>1, <1>2 DEF Kept, AckedPlaces
    <3> DEFINE S == {x \in Slots : /\ x < chip.header.file_count /\ Valid(chip.entries[x])
                                   /\ chip.entries[x].name = d}
    <3>2. i \in S
      <4>1. Used \subseteq Slots /\ Count \in Nat
        BY ChipFacts DEF TypeInv, Used, Count
      <4>2. i < Count
        BY <4>1 DEF Used
      <4> QED
        BY <1>1, <3>1, <4>1, <4>2 DEF Kept, FilesApart, Count
    <3>3. S \in SUBSET Nat
      BY DEF Slots
    <3> QED
      BY <3>2, <3>3, FirstOf DEF FileNamed
  <2> QED
    BY <2>1, ChipFacts DEF TypeInv
<1>7. j < k => a - s + 1 < b - s + 1
  <2>1. a \in Int /\ b \in Int
    BY DEF Cells
  <2> HIDE DEF s
  <2> QED
    BY <1>5, <1>6, <2>1
<1> QED
  BY <1>3, <1>4, <1>7

\* What is on the chip and in memory stays in range, whatever fails or is cut short.
THEOREM FramTypes == FsSpec => []FsTypeOK
<1>1. FsInit => TypeInv /\ LastRow
  BY FramTypesInit
<1>2. TypeInv /\ LastRow /\ [FsNext]_fsVars => (TypeInv /\ LastRow)'
  BY FramTypesStep
<1>3. TypeInv => FsTypeOK
  BY TypeInvImplies
<1> QED
  BY <1>1, <1>2, <1>3, PTL DEF FsSpec

\* A row whose append returned OK is in its file, whole, once, in order, for any
\* numbers of files, cells, addresses, power cuts and failed transfers, but for
\* the three failures that the property names.
THEOREM AckedRowsStay == FsSpec => []AckedRowsIntact
<1>1. FsInit => TypeInv /\ LastRow /\ FramInv
  BY FramTypesInit, FramInit
<1>2. TypeInv /\ LastRow /\ FramInv /\ [FsNext]_fsVars => (TypeInv /\ LastRow /\ FramInv)'
  BY FramTypesStep, FramStep
<1>3. TypeInv /\ LastRow /\ FramInv => AckedRowsIntact
  BY FramInvImplies
<1> QED
  BY <1>1, <1>2, <1>3, PTL DEF FsSpec

-----------------------------------------------------------------------------
(* FramFs: the table of addresses. *)

MacCount == chip.mac_header.entry_count
MacMagic == chip.mac_header.magic
RamMacs  == ctx.mac_header.entry_count = MacCount

\* Index x leads to address m; all indices of a row lead to its addresses.
Leads(x, m) == x \in 0..MacCount - 1 /\ chip.macs[x] = m
Resolved(r) == \A j \in 1..Len(r.macs) : Leads(r.indices[j], r.macs[j])

\* An address being added: the entry, then the header that counts it.
Adding(m) ==
  \/ todo = <<PutMac(MacCount, m), PutMacHeader(MacHeader(MacCount + 1))>>
  \/ todo = <<PutMacHeader(MacHeader(MacCount + 1))>> /\ chip.macs[MacCount] = m

\* The row in progress: the indices it has lead to its addresses, but for the
\* last while its address is being added.
RowMacs ==
  /\ Len(row.indices) <= Len(row.macs)
  /\ \/ /\ \/ \A k \in 1..Left : todo[k].put \in {"header", "entry"}
           \/ \E x \in 0..MacCount - 1 : todo = <<PutMac(x, chip.macs[x])>>
        /\ \A j \in 1..Len(row.indices) : Leads(row.indices[j], row.macs[j])
     \/ LET n == Len(row.indices)
        IN  /\ n >= 1 /\ MacCount < MaxMacs /\ row.indices[n] = MacCount /\ Adding(row.macs[n])
            /\ \A j \in 1..n - 1 : Leads(row.indices[j], row.macs[j])

AckedResolved == \A d \in Days : \A k \in 1..Len(acked[d]) : Resolved(log[acked[d][k]])

MacPhases ==
  /\ phase \in {"active", "idle", "row", "append", "refused", "save"} => RamMacs /\ MacMagic
  /\ phase = "settings" => /\ RamMacs
                           /\ Left > 0 => Nothing
                           /\ Left <= MaxMacs => MacMagic
  /\ phase = "clear" => /\ Left # MaxMacs + 2 => RamMacs
                        /\ Left <= MaxMacs + 1 => MacMagic
  /\ phase = "append" => Resolved(log[Len(log)])
  /\ phase = "row" => RowMacs

MacsSound == (~MacMagic => MacCount = 0 /\ Nothing) /\ AckedResolved

MacInv == failed = 0 => ~spoilt /\ MacsSound /\ MacPhases

MacSteady0 == Steady /\ MacsSound /\ MacPhases

LEMMA MacFacts ==
  ASSUME TypeInv
  PROVE  /\ MacCount \in 0..MaxMacs /\ MacCount \in Nat /\ MaxMacs \in Nat /\ MaxMacs >= 1
         /\ chip.macs \in [MacIndices -> Macs \cup {NoMac}]
         /\ \A x : x \in 0..MacCount - 1 => x \in MacIndices
         /\ ctx.mac_header \in MacHeaderType
         /\ row.macs \in Seq(Macs) /\ row.indices \in Seq(MacIndices)
         /\ Len(row.macs) \in Nat /\ Len(row.indices) \in Nat
<1>1. chip.mac_header \in MacHeaderType /\ MaxMacs \in Nat /\ MaxMacs >= 1
  BY ChipAssumption DEF TypeInv, ChipType
<1>2. MacCount \in 0..MaxMacs /\ MacCount \in Nat
  BY <1>1 DEF MacCount, MacHeaderType
<1>3. \A x : x \in 0..MacCount - 1 => x \in MacIndices
  BY <1>1, <1>2 DEF MacIndices
<1>4. row.macs \in Seq(Macs) /\ row.indices \in Seq(MacIndices)
  BY DEF TypeInv, RowType
<1>5. chip.macs \in [MacIndices -> Macs \cup {NoMac}] /\ ctx.mac_header \in MacHeaderType
  BY DEF TypeInv, ChipType, ContextType
<1> QED
  BY <1>1, <1>2, <1>3, <1>4, <1>5

\* What an index leads to stays while the table only grows.
LEMMA ResolvedStays ==
  ASSUME TypeInv, LastRow, AckedResolved,
         \A x \in 0..MacCount - 1 : x \in 0..MacCount' - 1 /\ chip'.macs[x] = chip.macs[x],
         \A d \in Days : acked'[d] = acked[d] \/ acked'[d] = <<>>,
         \A d \in Days : \A k \in 1..Len(acked[d]) : log'[acked[d][k]] = log[acked[d][k]]
  PROVE  /\ AckedResolved'
         /\ \A x, m : Leads(x, m) => Leads(x, m)'
<1>1. \A x, m : Leads(x, m) => Leads(x, m)'
  BY DEF Leads
<1>2. ASSUME NEW d \in Days, NEW k \in 1..Len(acked'[d]) PROVE Resolved(log[acked[d][k]])'
  <2>1. acked'[d] = acked[d] /\ k \in 1..Len(acked[d])
    BY <1>2
  <2>2. PICK r : r = log[acked[d][k]] /\ r = log'[acked'[d][k]]
    BY <2>1
  <2>3. Resolved(r)
    BY <2>1, <2>2 DEF AckedResolved
  <2>4. Resolved(r)'
    BY <1>1, <2>3 DEF Resolved
  <2> QED
    BY <2>2, <2>4 DEF Resolved, Leads
<1> QED
  BY <1>1, <1>2 DEF AckedResolved

\* Nothing about the addresses changes, rows may be forgotten.
LEMMA MacsUnchanged ==
  ASSUME TypeInv, LastRow, MacsSound,
         chip'.mac_header = chip.mac_header, chip'.macs = chip.macs, log' = log,
         \A d \in Days : acked'[d] = acked[d] \/ acked'[d] = <<>>
  PROVE  /\ MacsSound' /\ MacCount' = MacCount /\ MacMagic' = MacMagic
         /\ \A x, m : Leads(x, m) => Leads(x, m)'
<1>1. MacCount' = MacCount /\ MacMagic' = MacMagic
  BY DEF MacCount, MacMagic
<1>2. AckedResolved' /\ \A x, m : Leads(x, m) => Leads(x, m)'
  BY <1>1, ResolvedStays DEF MacsSound
<1>3. Nothing => Nothing'
  BY DEF Nothing
<1> QED
  BY <1>1, <1>2, <1>3 DEF MacsSound

LEMMA MacsBoot ==
  ASSUME MacSteady0, TypeInv', failed' = 0, failed = 0, Mounts
  PROVE  (MacsSound /\ MacPhases)'
<1>0. TypeInv /\ LastRow /\ Kept /\ PhaseInv /\ MacsSound /\ MacPhases
  BY DEF MacSteady0, Steady
<1>1. chip' = chip /\ log' = log /\ acked' = acked
  BY DEF Mounts, PowerUp, InitHeader, InitMacs, InitSettings, InitWithTime
<1>2. /\ MacsSound' /\ MacCount' = MacCount /\ MacMagic' = MacMagic /\ Nothing' = Nothing
  BY <1>0, <1>1, MacsUnchanged DEF Nothing
<1>3. CASE PowerUp \/ InitHeader
  <2>1. phase' \in {"header", "macs"}
    BY <1>3 DEF PowerUp, InitHeader
  <2> QED
    BY <1>2, <2>1 DEF MacPhases
<1>4. CASE InitMacs
  <2>1. /\ phase' = "settings" /\ ctx' = [ctx EXCEPT !.mac_header = chip.mac_header]
        /\ todo' = IF chip.mac_header.magic THEN <<>> ELSE MacClearWrites
    BY <1>4 DEF InitMacs, TransferFails
  <2>2. RamMacs'
    BY <1>0, <1>1, <2>1 DEF TypeInv, ContextType, RamMacs, MacCount
  <2>3. CASE MacMagic
    <3>1. todo' = <<>> /\ Left' = 0
      BY <2>1, <2>3 DEF MacMagic, Left
    <3> QED
      BY <1>2, <2>1, <2>2, <2>3, <3>1 DEF MacPhases
  <2>4. CASE ~MacMagic
    <3>1. Nothing
      BY <1>0, <2>4 DEF MacsSound
    <3>2. Left' = MaxMacs + 1
      BY <2>1, <2>4, MacClearScript DEF MacMagic, Left
    <3>3. ~(Left' <= MaxMacs)
      BY <3>2, ChipAssumption
    <3> QED
      BY <1>2, <2>1, <2>2, <3>1, <3>3 DEF MacPhases
  <2> QED
    BY <2>3, <2>4
<1>5. CASE InitSettings
  <2>1. /\ phase = "settings" /\ phase' = "active" /\ ctx'.mac_header = ctx.mac_header /\ todo = <<>>
    BY <1>0, <1>5 DEF InitSettings, TransferFails, TypeInv, ContextType
  <2>2. Left = 0 /\ MaxMacs \in Nat
    BY <2>1, ChipAssumption DEF Left
  <2>3. RamMacs /\ MacMagic
    BY <1>0, <2>1, <2>2 DEF MacPhases
  <2>4. RamMacs'
    BY <1>2, <2>1, <2>3 DEF RamMacs
  <2> QED
    BY <1>2, <2>1, <2>3, <2>4 DEF MacPhases
<1>6. CASE InitWithTime
  <2>1. /\ phase = "active" /\ phase' = "idle" /\ ctx'.mac_header = ctx.mac_header
    BY <1>0, <1>6 DEF InitWithTime, TypeInv, ContextType
  <2>2. RamMacs' /\ MacMagic
    BY <1>0, <1>2, <2>1 DEF MacPhases, RamMacs
  <2> QED
    BY <1>2, <2>1, <2>2 DEF MacPhases
<1> QED
  BY <1>3, <1>4, <1>5, <1>6 DEF Mounts

LEMMA MacsCommand ==
  ASSUME MacSteady0, TypeInv',
         ClearMemory \/ SaveSettings \/ DateChanges \/ PowerCut \/ OperationEnds
  PROVE  (MacsSound /\ MacPhases)'
<1>0. TypeInv /\ LastRow /\ Kept /\ PhaseInv /\ MacsSound /\ MacPhases
  BY DEF MacSteady0, Steady
<1>1. chip' = chip /\ log' = log /\ \A d \in Days : acked'[d] = acked[d] \/ acked'[d] = <<>>
  BY DEF ClearMemory, SaveSettings, DateChanges, PowerCut, OperationEnds
<1>2. MacsSound' /\ MacCount' = MacCount /\ MacMagic' = MacMagic
  BY <1>0, <1>1, MacsUnchanged
<1>3. CASE PowerCut
  BY <1>2, <1>3 DEF PowerCut, MacPhases
<1>4. CASE ClearMemory
  <2>1. phase = "idle" /\ phase' = "clear" /\ ctx' = ctx
    BY <1>4 DEF ClearMemory
  <2>2. RamMacs' /\ MacMagic
    BY <1>0, <1>2, <2>1 DEF MacPhases, RamMacs
  <2> QED
    BY <1>2, <2>1, <2>2 DEF MacPhases
<1>5. CASE SaveSettings \/ DateChanges
  <2>1. phase = "idle" /\ phase' \in {"idle", "save"} /\ ctx' = ctx
    BY <1>5 DEF SaveSettings, DateChanges
  <2>2. RamMacs' /\ MacMagic
    BY <1>0, <1>2, <2>1 DEF MacPhases, RamMacs
  <2> QED
    BY <1>2, <2>1, <2>2 DEF MacPhases
<1>6. CASE OperationEnds
  <2>1. phase \in {"refused", "clear", "save"} /\ phase' = "idle" /\ todo = <<>> /\ ctx' = ctx
    BY <1>6 DEF OperationEnds
  <2>2. Left = 0 /\ MaxMacs \in Nat /\ MaxMacs >= 1
    BY <2>1, ChipAssumption DEF Left
  <2>3. RamMacs /\ MacMagic
    BY <1>0, <2>1, <2>2 DEF MacPhases
  <2>4. RamMacs'
    BY <1>2, <2>1, <2>3 DEF RamMacs
  <2> QED
    BY <1>2, <2>1, <2>3, <2>4 DEF MacPhases
<1> QED
  BY <1>3, <1>4, <1>5, <1>6

LEMMA MacEffects ==
  ASSUME TypeInv, juxta_fram_write
  PROVE  /\ todo[1].put \in {"header", "entry", "settings", "data"} =>
              /\ chip'.mac_header = chip.mac_header /\ chip'.macs = chip.macs
              /\ ctx'.mac_header = ctx.mac_header
         /\ todo[1].put = "zero" =>
              /\ ctx'.mac_header = ctx.mac_header
              /\ \/ /\ todo[1].at # MaxFiles - 1
                    /\ chip'.mac_header = chip.mac_header /\ chip'.macs = chip.macs
                 \/ /\ todo[1].at = MaxFiles - 1
                    /\ chip'.mac_header = [magic |-> FALSE, entry_count |-> 0]
         /\ todo[1].put = "mac_header" =>
              /\ chip'.mac_header = todo[1].val /\ ctx'.mac_header = todo[1].val
              /\ chip'.macs = chip.macs
         /\ todo[1].put = "mac" =>
              /\ chip'.mac_header = chip.mac_header /\ ctx'.mac_header = ctx.mac_header
              /\ chip'.macs = [chip.macs EXCEPT ![todo[1].at] = todo[1].val]
         /\ \A d \in Days : acked'[d] = acked[d] \/ acked'[d] = <<>>
<1>1. PICK w \in Writes : w = todo[1] /\ w = Head(todo)
  BY NextWrite DEF juxta_fram_write
<1>2. chip' = ChipAfter(w) /\ chip \in ChipType /\ ctx \in ContextType
  BY <1>1 DEF juxta_fram_write, TypeInv
<1>3. ctx'.mac_header = IF w.put = "mac_header" THEN w.val ELSE ctx.mac_header
  <2>1. ctx' = IF w.put \in {"header", "entry"} THEN [CtxBefore(w) EXCEPT !.active_file_index = w.active]
                   ELSE IF w.put = "zero" /\ w.at = MaxFiles - 1
                   THEN [ctx EXCEPT !.active_file_index = None]
                   ELSE CtxBefore(w)
    BY <1>1 DEF juxta_fram_write
  <2>2. CtxBefore(w) \in ContextType
    BY <1>1, CtxBeforeType
  <2>3. CtxBefore(w).mac_header = IF w.put = "mac_header" THEN w.val ELSE ctx.mac_header
    BY <1>2 DEF CtxBefore, ContextType
  <2> QED
    BY <1>2, <2>1, <2>2, <2>3 DEF ContextType
<1>4. w.put \in {"header", "entry", "settings", "data"} =>
        chip'.mac_header = chip.mac_header /\ chip'.macs = chip.macs
  BY <1>2 DEF ChipAfter, ChipType
<1>5. w.put = "zero" =>
        \/ w.at # MaxFiles - 1 /\ chip'.mac_header = chip.mac_header /\ chip'.macs = chip.macs
        \/ w.at = MaxFiles - 1 /\ chip'.mac_header = [magic |-> FALSE, entry_count |-> 0]
  <2> SUFFICES ASSUME w.put = "zero"
               PROVE  \/ w.at # MaxFiles - 1 /\ chip'.mac_header = chip.mac_header
                         /\ chip'.macs = chip.macs
                      \/ w.at = MaxFiles - 1
                         /\ chip'.mac_header = [magic |-> FALSE, entry_count |-> 0]
    OBVIOUS
  <2>1. w.at \in Slots
    BY <1>1, PutKinds DEF Zeros
  <2>2. w.at \in Int /\ MaxFiles \in Int /\ (w.at < MaxFiles - 1 \/ w.at = MaxFiles - 1)
    BY <2>1, ChipAssumption DEF Slots
  <2>3. CASE w.at < MaxFiles - 1
    <3>1. chip' = [chip EXCEPT !.entries[w.at] = Blank, !.entries[w.at + 1].name = 0]
      BY <1>2, <2>2, <2>3 DEF ChipAfter
    <3>2. w.at # MaxFiles - 1
      BY <2>2, <2>3
    <3> QED
      BY <1>2, <3>1, <3>2 DEF ChipType
  <2>4. CASE w.at = MaxFiles - 1
    <3>1. ~(w.at < MaxFiles - 1)
      BY <2>2, <2>4
    <3>2. chip' = [chip EXCEPT !.entries[w.at] = Blank, !.macs[0] = NoMac,
                      !.mac_header = [magic |-> FALSE, entry_count |-> 0]]
      BY <1>2, <2>4, <3>1 DEF ChipAfter
    <3> QED
      BY <1>2, <2>4, <3>2 DEF ChipType
  <2> QED
    BY <2>2, <2>3, <2>4
<1>6. w.put = "mac_header" => chip'.mac_header = w.val /\ chip'.macs = chip.macs
  BY <1>2 DEF ChipAfter, ChipType
<1>7. w.put = "mac" => chip'.mac_header = chip.mac_header
                       /\ chip'.macs = [chip.macs EXCEPT ![w.at] = w.val]
  <2> SUFFICES ASSUME w.put = "mac"
               PROVE  chip'.mac_header = chip.mac_header
                      /\ chip'.macs = [chip.macs EXCEPT ![w.at] = w.val]
    OBVIOUS
  <2>1. chip' = [chip EXCEPT !.macs = [chip.macs EXCEPT ![w.at] = w.val]]
    BY <1>2 DEF ChipAfter
  <2> QED
    BY <1>2, <2>1 DEF ChipType
<1>8. \A d \in Days : acked'[d] = acked[d] \/ acked'[d] = <<>>
  <2>1. acked \in [Days -> Seq(Nat)]
    BY DEF TypeInv
  <2>2. acked' = acked \/ \E e : acked' = [acked EXCEPT ![e] = <<>>]
    BY DEF juxta_fram_write
  <2> QED
    BY <2>1, <2>2
<1> HIDE DEF None
<1>9. ~("zero" = "mac_header") /\ ~("mac" = "mac_header")
  OBVIOUS
<1> QED
  BY <1>1, <1>3, <1>4, <1>5, <1>6, <1>7, <1>8

\* Writes that leave the table alone.
Apart == {"header", "entry", "settings", "data"}
LEMMA MacsApart ==
  ASSUME TypeInv, LastRow, MacsSound, juxta_fram_write, todo[1].put \in Apart
  PROVE  /\ MacsSound' /\ MacCount' = MacCount /\ MacMagic' = MacMagic
         /\ chip'.macs = chip.macs /\ (RamMacs => RamMacs')
         /\ \A x, m : Leads(x, m) => Leads(x, m)'
<1>1. /\ chip'.mac_header = chip.mac_header /\ chip'.macs = chip.macs
      /\ ctx'.mac_header = ctx.mac_header
      /\ \A d \in Days : acked'[d] = acked[d] \/ acked'[d] = <<>>
  BY MacEffects DEF Apart
<1>2. log' = log
  BY DEF juxta_fram_write
<1>3. /\ MacsSound' /\ MacCount' = MacCount /\ MacMagic' = MacMagic
      /\ \A x, m : Leads(x, m) => Leads(x, m)'
  BY <1>1, <1>2, MacsUnchanged
<1>4. RamMacs => RamMacs'
  BY <1>1, <1>3 DEF RamMacs
<1> QED
  BY <1>1, <1>3, <1>4

\* Without rows the table may be anything.
LEMMA MacsOfNothing ==
  ASSUME TypeInv, Nothing, juxta_fram_write, ~MacMagic' => MacCount' = 0
  PROVE  MacsSound' /\ Nothing'
<1>1. \A d \in Days : acked'[d] = <<>>
  BY MacEffects DEF Nothing
<1>2. Nothing'
  BY <1>1 DEF Nothing
<1>3. \A d \in Days : Len(acked'[d]) = 0
  BY <1>1
<1>4. AckedResolved'
  BY <1>3 DEF AckedResolved
<1> QED
  BY <1>2, <1>4 DEF MacsSound

\* Another write of a clearing of the addresses.
LEMMA MacClearWritten ==
  ASSUME MacSteady0, juxta_fram_write, Nothing, NEW m \in 1..MaxMacs + 1, IsMacClear(todo[1], m),
         m <= MaxMacs => MacMagic /\ RamMacs
  PROVE  MacsSound' /\ Nothing' /\ MacMagic' /\ RamMacs'
<1>0. TypeInv /\ MacsSound
  BY DEF MacSteady0, Steady
<1>1. MacMagic' /\ RamMacs'
  <2>1. CASE m = MaxMacs + 1
    <3>1. todo[1].put = "mac_header" /\ todo[1].val = MacHeader(0)
      BY <2>1 DEF IsMacClear, PutMacHeader
    <3>2. chip'.mac_header = MacHeader(0) /\ ctx'.mac_header = MacHeader(0)
      BY <1>0, <3>1, MacEffects
    <3> QED
      BY <3>2 DEF MacHeader, MacMagic, RamMacs, MacCount
  <2>2. CASE m # MaxMacs + 1
    <3>1. m <= MaxMacs
      BY <2>2, ChipAssumption
    <3>2. todo[1].put = "mac"
      BY <3>1 DEF IsMacClear
    <3>3. chip'.mac_header = chip.mac_header /\ ctx'.mac_header = ctx.mac_header
      BY <1>0, <3>2, MacEffects
    <3> QED
      BY <3>1, <3>3 DEF MacMagic, RamMacs, MacCount
  <2> QED
    BY <2>1, <2>2
<1> QED
  BY <1>0, <1>1, MacsOfNothing

LEMMA MacsWriteBoot ==
  ASSUME MacSteady0, TypeInv', juxta_fram_write, phase \in {"macs", "settings", "active", "save", "refused"}
  PROVE  (MacsSound /\ MacPhases)'
<1>0. TypeInv /\ LastRow /\ Kept /\ PhaseInv /\ MacsSound /\ MacPhases
  BY DEF MacSteady0, Steady
<1>1. phase' = phase /\ todo # <<>> /\ todo' = Tail(todo) /\ Left \in Nat /\ Left >= 1 /\ Left' = Left - 1
      /\ MaxFiles \in Nat /\ MaxFiles >= 1 /\ MaxMacs \in Nat /\ MaxMacs >= 1
  BY <1>0, Writing, ChipAssumption
<1>2. CASE phase = "macs"
  <2>1. Formatting
    BY <1>0, <1>2 DEF PhaseInv
  <2>2. Nothing
    BY <1>0, <1>1, <2>1, NoFilesNothing DEF Formatting
  <2>3. IsFormat(todo[1], Left) /\ Left <= MaxFiles + 1
    <3>1. IsFormat(todo[1], Left - 1 + 1) /\ Left - 1 + 1 = Left
      BY <1>1, <2>1 DEF Formatting
    <3> QED
      BY <2>1, <3>1 DEF Formatting
  <2>4. todo[1].put \in {"header", "zero"}
    <3>1. Left = MaxFiles + 1 \/ Left <= MaxFiles
      BY <1>1, <2>3
    <3> QED
      BY <2>3, <3>1 DEF IsFormat, PutZero
  <2>5. ~MacMagic' => MacCount' = 0
    <3>1. \/ chip'.mac_header = chip.mac_header
          \/ chip'.mac_header = [magic |-> FALSE, entry_count |-> 0]
      BY <1>0, <2>4, MacEffects
    <3> QED
      BY <1>0, <3>1 DEF MacsSound, MacMagic, MacCount
  <2>6. MacsSound'
    BY <1>0, <2>2, <2>5, MacsOfNothing
  <2> QED
    BY <1>1, <1>2, <2>6 DEF MacPhases
<1>3. CASE phase = "settings"
  <2>1. ClearingMacs
    BY <1>0, <1>3 DEF PhaseInv
  <2>2. IsMacClear(todo[1], Left) /\ Left \in 1..MaxMacs + 1
    <3>1. IsMacClear(todo[1], Left - 1 + 1) /\ Left - 1 + 1 = Left
      BY <1>1, <2>1 DEF ClearingMacs
    <3> QED
      BY <1>1, <2>1, <3>1 DEF ClearingMacs
  <2>3. Nothing /\ RamMacs /\ (Left <= MaxMacs => MacMagic)
    BY <1>0, <1>1, <1>3 DEF MacPhases
  <2>4. MacsSound' /\ Nothing' /\ MacMagic' /\ RamMacs'
    BY <2>2, <2>3, MacClearWritten
  <2> QED
    BY <1>1, <1>3, <2>4 DEF MacPhases
<1>4. CASE phase \in {"active", "save", "refused"}
  <2>1. RamMacs /\ MacMagic
    BY <1>0, <1>4 DEF MacPhases
  <2>2. todo[1].put \in Apart
    <3>1. CASE phase = "refused"
      <4>1. todo[1] = Seal
        BY <1>0, <1>1, <3>1 DEF PhaseInv, SealScript
      <4> QED
        BY <4>1 DEF Seal, PutEntry, Apart
    <3>2. CASE phase # "refused"
      <4>1. ClearingSettings
        BY <1>0, <1>4, <3>2 DEF PhaseInv
      <4> QED
        BY <1>1, <4>1 DEF ClearingSettings, Apart
    <3> QED
      BY <3>1, <3>2
  <2>3. MacsSound' /\ RamMacs' /\ MacMagic'
    BY <1>0, <2>1, <2>2, MacsApart
  <2> QED
    BY <1>1, <1>4, <2>3 DEF MacPhases
<1> QED
  BY <1>2, <1>3, <1>4

LEMMA MacsWriteClear ==
  ASSUME MacSteady0, TypeInv', juxta_fram_write, phase = "clear"
  PROVE  (MacsSound /\ MacPhases)'
<1>0. TypeInv /\ LastRow /\ Kept /\ PhaseInv /\ MacsSound /\ MacPhases
  BY DEF MacSteady0, Steady
<1>1. phase' = phase /\ Left \in Nat /\ Left >= 1 /\ Left' = Left - 1
      /\ MaxFiles \in Nat /\ MaxFiles >= 1 /\ MaxMacs \in Nat /\ MaxMacs >= 1
  BY <1>0, Writing, ChipAssumption
<1>2. Clearing /\ Nothing
  BY <1>0 DEF PhaseInv, Clearing
<1>3. IsClear(todo[1], Left) /\ Left <= MaxFiles + MaxMacs + 3
  <2>1. IsClear(todo[1], Left - 1 + 1) /\ Left - 1 + 1 = Left
    BY <1>1, <1>2 DEF Clearing
  <2> QED
    BY <1>2, <2>1 DEF Clearing
<1>4. (Left # MaxMacs + 2 => RamMacs) /\ (Left <= MaxMacs + 1 => MacMagic)
  BY <1>0 DEF MacPhases
<1>5. CASE Left > MaxMacs + 2
  <2> DEFINE m == Left - MaxMacs - 2
  <2>1. m \in 1..MaxFiles + 1 /\ IsFormat(todo[1], m) /\ RamMacs /\ Left' > MaxMacs + 1
    BY <1>1, <1>3, <1>4, <1>5 DEF IsClear
  <2>2. \/ todo[1].put = "header"
        \/ m <= MaxFiles /\ todo[1].put = "zero" /\ todo[1].at = MaxFiles - m
    <3>1. m = MaxFiles + 1 \/ m <= MaxFiles
      BY <1>1, <2>1
    <3> QED
      BY <2>1, <3>1 DEF IsFormat, PutZero
  <2>3. /\ ctx'.mac_header = ctx.mac_header
        /\ \/ chip'.mac_header = chip.mac_header
           \/ m = 1 /\ chip'.mac_header = [magic |-> FALSE, entry_count |-> 0]
    <3>1. CASE todo[1].put = "header"
      BY <1>0, <3>1, MacEffects
    <3>2. CASE m <= MaxFiles /\ todo[1].put = "zero" /\ todo[1].at = MaxFiles - m
      <4>1. todo[1].at = MaxFiles - 1 => m = 1
        BY <1>1, <2>1, <3>2
      <4> QED
        BY <1>0, <3>2, <4>1, MacEffects
    <3> QED
      BY <2>2, <3>1, <3>2
  <2>4. ~MacMagic' => MacCount' = 0
    BY <1>0, <2>3 DEF MacsSound, MacMagic, MacCount
  <2>5. MacsSound'
    BY <1>0, <1>2, <2>4, MacsOfNothing
  <2>6. Left' # MaxMacs + 2 => RamMacs'
    <3>1. Left' # MaxMacs + 2 => m # 1
      BY <1>1
    <3> QED
      BY <2>1, <2>3, <3>1 DEF RamMacs, MacCount
  <2>7. ~(Left' <= MaxMacs + 1)
    BY <1>1, <2>1
  <2> QED
    BY <1>1, <2>5, <2>6, <2>7 DEF MacPhases
<1>6. CASE Left >= 2 /\ Left <= MaxMacs + 2
  <2>1. IsMacClear(todo[1], Left - 1) /\ Left - 1 \in 1..MaxMacs + 1
    BY <1>1, <1>3, <1>6 DEF IsClear
  <2>2. Left - 1 <= MaxMacs => MacMagic /\ RamMacs
    BY <1>1, <1>4
  <2>3. MacsSound' /\ MacMagic' /\ RamMacs'
    BY <1>2, <2>1, <2>2, MacClearWritten
  <2> QED
    BY <1>1, <2>3 DEF MacPhases
<1>7. CASE Left = 1
  <2>1. todo[1].put \in Apart
    BY <1>3, <1>7 DEF IsClear, Apart
  <2>2. RamMacs /\ MacMagic
    BY <1>1, <1>4, <1>7
  <2>3. MacsSound' /\ MacMagic' /\ RamMacs'
    BY <1>0, <2>1, <2>2, MacsApart
  <2> QED
    BY <1>1, <2>3 DEF MacPhases
<1> QED
  BY <1>1, <1>5, <1>6, <1>7

\* Once an address is counted, its index leads to it.
LEMMA MacsWriteRow ==
  ASSUME MacSteady0, TypeInv', juxta_fram_write, phase = "row"
  PROVE  (MacsSound /\ MacPhases)'
<1>0. TypeInv /\ LastRow /\ Kept /\ PhaseInv /\ MacsSound /\ MacPhases /\ RamMacs /\ MacMagic /\ RowMacs
  BY DEF MacSteady0, Steady, MacPhases
<1>1. /\ phase' = "row" /\ Left \in Nat /\ Left >= 1 /\ Left' = Left - 1 /\ todo' = Tail(todo)
      /\ \A k \in 1..Left - 1 : todo'[k] = todo[k + 1] /\ k + 1 \in 1..Left
      /\ row' = row /\ log' = log
  BY <1>0, Writing
<1>2. todo \in Seq(Writes) /\ Len(todo) = Left
  BY <1>0 DEF TypeInv, Left
<1> SUFFICES MacsSound' /\ RamMacs' /\ MacMagic' /\ RowMacs'
  BY <1>1 DEF MacPhases
<1>3. Len(row.indices) <= Len(row.macs)
  BY <1>0 DEF RowMacs
<1>4. CASE /\ \/ \A k \in 1..Left : todo[k].put \in {"header", "entry"}
              \/ \E x \in 0..MacCount - 1 : todo = <<PutMac(x, chip.macs[x])>>
           /\ \A j \in 1..Len(row.indices) : Leads(row.indices[j], row.macs[j])
  <2>1. CASE \A k \in 1..Left : todo[k].put \in {"header", "entry"}
    <3>1. todo[1].put \in Apart
      BY <1>1, <2>1 DEF Apart
    <3>2. /\ MacsSound' /\ RamMacs' /\ MacMagic'
          /\ \A x, m : Leads(x, m) => Leads(x, m)'
      BY <1>0, <3>1, MacsApart
    <3>3. \A k \in 1..Left' : todo'[k].put \in {"header", "entry"}
      BY <1>1, <2>1
    <3>4. \A j \in 1..Len(row'.indices) : Leads(row.indices[j], row.macs[j])'
      BY <1>1, <1>4, <3>2
    <3> QED
      BY <1>1, <1>3, <3>2, <3>3, <3>4 DEF RowMacs
  <2>2. CASE \E x \in 0..MacCount - 1 : todo = <<PutMac(x, chip.macs[x])>>
    <3>1. PICK x \in 0..MacCount - 1 : todo = <<PutMac(x, chip.macs[x])>>
      BY <2>2
    <3>2. todo[1].put = "mac" /\ todo[1].at = x /\ todo[1].val = chip.macs[x] /\ todo' = <<>>
      BY <1>1, <3>1 DEF PutMac
    <3>3. /\ chip'.mac_header = chip.mac_header /\ ctx'.mac_header = ctx.mac_header
          /\ chip'.macs = [chip.macs EXCEPT ![x] = chip.macs[x]]
          /\ \A d \in Days : acked'[d] = acked[d] \/ acked'[d] = <<>>
      BY <1>0, <3>2, MacEffects
    <3>4. chip'.macs = chip.macs
      BY <1>0, <3>3, MacFacts
    <3>5. /\ MacsSound' /\ MacCount' = MacCount /\ MacMagic' = MacMagic
          /\ \A y, m : Leads(y, m) => Leads(y, m)'
      BY <1>0, <1>1, <3>3, <3>4, MacsUnchanged
    <3>6. RamMacs'
      BY <1>0, <3>3, <3>5 DEF RamMacs
    <3>7. Left' = 0
      BY <3>2 DEF Left
    <3>8. \A j \in 1..Len(row'.indices) : Leads(row.indices[j], row.macs[j])'
      BY <1>1, <1>4, <3>5
    <3> QED
      BY <1>0, <1>1, <1>3, <3>5, <3>6, <3>7, <3>8 DEF RowMacs
  <2> QED
    BY <1>4, <2>1, <2>2
<1>5. CASE LET n == Len(row.indices)
           IN  /\ n >= 1 /\ MacCount < MaxMacs /\ row.indices[n] = MacCount /\ Adding(row.macs[n])
               /\ \A j \in 1..n - 1 : Leads(row.indices[j], row.macs[j])
  <2>b. PICK n \in Nat, c \in Nat : n = Len(row.indices) /\ c = MacCount
    BY <1>0, MacFacts
  <2>c. PICK m : m = row.macs[n]
    OBVIOUS
  <2>0. /\ n = Len(row.indices) /\ c = MacCount /\ m = row.macs[n]
        /\ n >= 1 /\ c < MaxMacs /\ row.indices[n] = c /\ Adding(m)
        /\ \A j \in 1..n - 1 : Leads(row.indices[j], row.macs[j])
    BY <1>5, <2>b, <2>c
  <2>a. c \in MacIndices /\ MaxMacs \in Nat
    BY <2>0, ChipAssumption DEF MacIndices
  <2>1. CASE todo = <<PutMac(c, m), PutMacHeader(MacHeader(c + 1))>>
    <3>1. todo[1].put = "mac" /\ todo[1].at = c /\ todo[1].val = m
          /\ todo' = <<PutMacHeader(MacHeader(c + 1))>>
      BY <1>1, <2>1 DEF PutMac
    <3>2. /\ chip'.mac_header = chip.mac_header /\ ctx'.mac_header = ctx.mac_header
          /\ chip'.macs = [chip.macs EXCEPT ![c] = m]
          /\ \A d \in Days : acked'[d] = acked[d] \/ acked'[d] = <<>>
      BY <1>0, <3>1, MacEffects
    <3>3. MacCount' = c /\ MacMagic' /\ RamMacs'
      BY <1>0, <2>0, <3>2 DEF MacCount, MacMagic, RamMacs
    <3>4. chip'.macs[c] = m /\ \A x \in 0..c - 1 : chip'.macs[x] = chip.macs[x]
      BY <1>0, <2>0, <2>a, <3>2, MacFacts
    <3>5. AckedResolved' /\ \A x, y : Leads(x, y) => Leads(x, y)'
      BY <1>0, <1>1, <2>0, <3>2, <3>3, <3>4, ResolvedStays DEF MacsSound
    <3>6. MacsSound'
      BY <3>3, <3>5 DEF MacsSound
    <3>7. Adding(m)'
      BY <3>1, <3>3, <3>4 DEF Adding
    <3>8. /\ n >= 1 /\ MacCount' < MaxMacs /\ row'.indices[n] = MacCount' /\ Adding(row.macs[n])'
          /\ \A j \in 1..n - 1 : Leads(row.indices[j], row.macs[j])'
      BY <1>1, <2>0, <3>3, <3>5, <3>7 DEF Adding
    <3> QED
      BY <1>1, <1>3, <2>0, <3>3, <3>6, <3>8 DEF RowMacs
  <2>2. CASE todo = <<PutMacHeader(MacHeader(c + 1))>> /\ chip.macs[c] = m
    <3>1. todo[1].put = "mac_header" /\ todo[1].val = MacHeader(c + 1) /\ todo' = <<>>
      BY <1>1, <2>2 DEF PutMacHeader
    <3>2. /\ chip'.mac_header = MacHeader(c + 1) /\ ctx'.mac_header = MacHeader(c + 1)
          /\ chip'.macs = chip.macs
          /\ \A d \in Days : acked'[d] = acked[d] \/ acked'[d] = <<>>
      BY <1>0, <3>1, MacEffects
    <3>3. MacCount' = c + 1 /\ MacMagic' /\ RamMacs'
      BY <3>2 DEF MacCount, MacMagic, RamMacs, MacHeader
    <3>4. \A x \in 0..MacCount - 1 : x \in 0..MacCount' - 1 /\ chip'.macs[x] = chip.macs[x]
      BY <2>0, <3>2, <3>3
    <3>5. AckedResolved' /\ \A x, y : Leads(x, y) => Leads(x, y)'
      BY <1>0, <1>1, <3>2, <3>4, ResolvedStays DEF MacsSound
    <3>6. MacsSound'
      BY <3>3, <3>5 DEF MacsSound
    <3>7. Leads(c, m)'
      BY <2>0, <2>2, <3>2, <3>3 DEF Leads
    <3>8. \A j \in 1..n : Leads(row.indices[j], row.macs[j])'
      <4> SUFFICES ASSUME NEW j \in 1..n PROVE Leads(row.indices[j], row.macs[j])'
        OBVIOUS
      <4>1. CASE j = n
        BY <1>1, <2>0, <3>7, <4>1 DEF Leads
      <4>2. CASE j # n
        <5>1. Leads(row.indices[j], row.macs[j])
          BY <2>0, <4>2
        <5> QED
          BY <1>1, <3>5, <5>1
      <4> QED
        BY <4>1, <4>2
    <3>9. Left' = 0
      BY <3>1 DEF Left
    <3> QED
      BY <1>1, <1>3, <2>0, <3>3, <3>6, <3>8, <3>9 DEF RowMacs
  <2> QED
    BY <2>0, <2>1, <2>2 DEF Adding
<1> QED
  BY <1>0, <1>4, <1>5 DEF RowMacs

LEMMA MacsWriteAppend ==
  ASSUME MacSteady0, TypeInv', juxta_fram_write, phase = "append"
  PROVE  (MacsSound /\ MacPhases)'
<1>0. TypeInv /\ LastRow /\ Kept /\ PhaseInv /\ MacsSound /\ MacPhases
      /\ RamMacs /\ MacMagic /\ Resolved(log[Len(log)])
  BY DEF MacSteady0, Steady, MacPhases
<1>1. phase' = "append" /\ log' = log
  BY <1>0, Writing
<1>2. IsAppend(todo[1], Left) /\ Left \in 1..row.size + 2 /\ row.size \in 1..2
  BY AppendNext DEF MacSteady0
<1>3. todo[1].put \in Apart
  <2>1. Left = 1 \/ Left = 2 \/ Left >= 3
    BY <1>2
  <2> QED
    BY <1>2, <2>1 DEF IsAppend, PutHeader, PutEntry, PutData, Apart
<1>4. MacsSound' /\ RamMacs' /\ MacMagic' /\ \A x, m : Leads(x, m) => Leads(x, m)'
  BY <1>0, <1>3, MacsApart
<1>5. Resolved(log[Len(log)])'
  BY <1>0, <1>1, <1>4 DEF Resolved
<1> QED
  BY <1>1, <1>4, <1>5 DEF MacPhases

LEMMA MacsWrite ==
  ASSUME MacSteady0, TypeInv', juxta_fram_write
  PROVE  (MacsSound /\ MacPhases)'
<1>1. TypeInv /\ PhaseInv /\ todo # <<>>
  BY DEF MacSteady0, Steady, juxta_fram_write
<1>2. phase \in Phases /\ phase \notin {"off", "dead", "header", "idle"}
  BY <1>1 DEF TypeInv, PhaseInv
<1>3. phase \in {"macs", "settings", "active", "save", "refused", "clear", "row", "append"}
  BY <1>2 DEF Phases
<1> QED
  BY <1>3, MacsWriteBoot, MacsWriteClear, MacsWriteRow, MacsWriteAppend

\* A row begins without indices.
LEMMA MacsStart ==
  ASSUME MacSteady0, TypeInv', NEW size \in 1..2, NEW macs \in Seq(Macs), StartRow(size, macs)
  PROVE  (MacsSound /\ MacPhases)'
<1>0. TypeInv /\ LastRow /\ Kept /\ PhaseInv /\ MacsSound /\ MacPhases
  BY DEF MacSteady0, Steady
<1>1. /\ phase = "idle" /\ phase' = IF NoFile THEN "refused" ELSE "row"
      /\ log' = Append(log, [day |-> date, size |-> size, macs |-> macs, indices |-> <<>>])
      /\ row' = [size |-> size, macs |-> macs, indices |-> <<>>]
      /\ todo' = EnsureWrites /\ chip' = chip /\ acked' = acked
  BY DEF StartRow
<1>2. InRam /\ Chosen /\ RamMacs /\ MacMagic
  BY <1>0, <1>1 DEF PhaseInv, Mounted, Running, MacPhases
<1>3. ctx' = ctx
  BY <1>0, <1>2, NothingReused DEF StartRow
<1>4. \A n \in 1..Len(log) : log'[n] = log[n]
  BY <1>0, <1>1 DEF TypeInv
<1>5. MacCount' = MacCount /\ MacMagic' /\ RamMacs'
  BY <1>1, <1>2, <1>3 DEF MacCount, MacMagic, RamMacs
<1>6. \A d \in Days : \A k \in 1..Len(acked[d]) : log'[acked[d][k]] = log[acked[d][k]]
  BY <1>0, <1>4, LogFacts
<1>7. AckedResolved'
  BY <1>0, <1>1, <1>5, <1>6, ResolvedStays DEF MacsSound
<1>8. MacsSound'
  BY <1>5, <1>7 DEF MacsSound
<1>9. todo' = <<>> \/ \E a, b, c : /\ a.put = "entry" /\ b.put \in {"entry", "header"} /\ c.put = "header"
                                   /\ todo' \in {<<a>>, <<a, b>>, <<a, b, c>>}
  <2>1. /\ Seal.put = "entry" /\ Make.put = "entry" /\ MakeHeader.put = "header"
        /\ \A f : Begin(f).put = "entry"
    BY DEF Seal, Make, MakeHeader, Begin, PutEntry, PutHeader
  <2>2. \/ todo' = <<>>
        \/ todo' = <<Seal>> \/ todo' = <<Make, MakeHeader>> \/ todo' = <<Seal, Make, MakeHeader>>
        \/ \E f : todo' = <<Begin(f)>> \/ todo' = <<Seal, Begin(f)>>
    BY <1>0, <1>1, <1>2, EnsureCases, Zenon
  <2> HIDE DEF Seal, Make, MakeHeader
  <2> QED
    BY <2>1, <2>2
<1>10. \A k \in 1..Left' : todo'[k].put \in {"header", "entry"}
  <2>1. CASE todo' = <<>>
    BY <2>1 DEF Left
  <2>2. ASSUME NEW a, NEW b, NEW c,
               a.put = "entry", b.put \in {"entry", "header"}, c.put = "header",
               todo' \in {<<a>>, <<a, b>>, <<a, b, c>>}
        PROVE  \A k \in 1..Left' : todo'[k].put \in {"header", "entry"}
    <3>1. CASE todo' = <<a>>
      BY <2>2, <3>1 DEF Left
    <3>2. CASE todo' = <<a, b>>
      BY <2>2, <3>2 DEF Left
    <3>3. CASE todo' = <<a, b, c>>
      BY <2>2, <3>3 DEF Left
    <3> QED
      BY <2>2, <3>1, <3>2, <3>3
  <2> QED
    BY <1>9, <2>1, <2>2
<1>11. RowMacs'
  <2>1. Len(row'.indices) = 0 /\ Len(row'.macs) \in Nat
    BY <1>1
  <2>2. Len(row'.indices) <= Len(row'.macs) /\ \A j \in 1..Len(row'.indices) : FALSE
    BY <2>1
  <2> QED
    BY <1>10, <2>2 DEF RowMacs
<1> QED
  BY <1>1, <1>5, <1>8, <1>11 DEF MacPhases

LEMMA MacFound ==
  ASSUME TypeInv, RamMacs, NEW m
  PROVE  juxta_framfs_mac_find(m) # None => Leads(juxta_framfs_mac_find(m), m)
<1> DEFINE S == {i \in 0..MaxMacs - 1 : i < ctx.mac_header.entry_count /\ chip.macs[i] = m}
<1>1. S \in SUBSET Nat
  OBVIOUS
<1>2. MacCount \in Nat /\ ctx.mac_header.entry_count = MacCount
  BY MacFacts DEF RamMacs
<1>3. \A x \in S : Leads(x, m)
  BY <1>2 DEF Leads
<1>4. juxta_framfs_mac_find(m) = First(S)
  BY DEF juxta_framfs_mac_find
<1> HIDE DEF S
<1>5. \/ S = {} /\ First(S) = None
      \/ First(S) \in S /\ First(S) # None
  BY <1>1, FirstOf
<1> QED
  BY <1>3, <1>4, <1>5

LEMMA MacsFindOrAdd ==
  ASSUME MacSteady0, TypeInv', FindOrAddMac
  PROVE  (MacsSound /\ MacPhases)'
<1>0. TypeInv /\ LastRow /\ Kept /\ PhaseInv /\ MacsSound /\ MacPhases /\ RamMacs /\ MacMagic /\ RowMacs
  BY DEF MacSteady0, Steady, MacPhases, FindOrAddMac
<1> DEFINE n == Len(row.indices) + 1
           m == row.macs[n]
           x == juxta_framfs_mac_find(m)
<1>1. /\ phase = "row" /\ todo = <<>> /\ Len(row.indices) < Len(row.macs)
      /\ chip' = chip /\ ctx' = ctx /\ log' = log /\ acked' = acked
      /\ IF x # None
         THEN todo' = <<PutMac(x, m)>> /\ row' = [row EXCEPT !.indices = Append(@, x)]
              /\ UNCHANGED phase
         ELSE IF MacCount < MaxMacs
         THEN todo' = <<PutMac(MacCount, m), PutMacHeader(MacHeader(MacCount + 1))>>
              /\ row' = [row EXCEPT !.indices = Append(@, MacCount)] /\ UNCHANGED phase
         ELSE todo' = <<>> /\ row' = NoRow /\ phase' = "idle"
  BY <1>0 DEF FindOrAddMac, RamMacs
<1>2. /\ MacsSound' /\ MacCount' = MacCount /\ MacMagic' = MacMagic
      /\ \A y, z : Leads(y, z) => Leads(y, z)'
  BY <1>0, <1>1, MacsUnchanged
<1>3. RamMacs'
  BY <1>0, <1>1, <1>2 DEF RamMacs
<1>4. /\ row.indices \in Seq(MacIndices) /\ row.macs \in Seq(Macs)
      /\ Len(row.indices) \in Nat /\ Len(row.macs) \in Nat
  BY <1>0, MacFacts
<1>5. \A j \in 1..Len(row.indices) : Leads(row.indices[j], row.macs[j])
  <2>1. ~Adding(row.macs[Len(row.indices)])
    BY <1>1 DEF Adding
  <2> QED
    BY <1>0, <2>1 DEF RowMacs
<1>6. CASE phase' = "idle"
  BY <1>0, <1>2, <1>3, <1>6 DEF MacPhases
<1>7. CASE phase' = "row"
  <2>1. ASSUME NEW y, row' = [row EXCEPT !.indices = Append(@, y)]
        PROVE  /\ row'.macs = row.macs /\ Len(row'.indices) = n /\ n <= Len(row.macs)
               /\ row'.indices[n] = y
               /\ \A j \in 1..n - 1 : row'.indices[j] = row.indices[j]
               /\ \A j \in 1..n - 1 : Leads(row.indices[j], row.macs[j])'
    <3>1. row'.macs = row.macs /\ row'.indices = Append(row.indices, y)
      BY <1>0, <2>1 DEF TypeInv, RowType
    <3>2. /\ Len(row'.indices) = n /\ row'.indices[n] = y
          /\ \A j \in 1..n - 1 : row'.indices[j] = row.indices[j]
      BY <1>4, <3>1
    <3>3. \A j \in 1..n - 1 : j \in 1..Len(row.indices)
      BY <1>4
    <3>4. n <= Len(row.macs)
      BY <1>1, <1>4
    <3>5. \A j \in 1..n - 1 : Leads(row.indices[j], row.macs[j])'
      <4> SUFFICES ASSUME NEW j \in 1..n - 1 PROVE Leads(row.indices[j], row.macs[j])'
        OBVIOUS
      <4>1. Leads(row.indices[j], row.macs[j])
        BY <1>5, <3>3
      <4>2. row'.indices[j] = row.indices[j] /\ row'.macs[j] = row.macs[j]
        BY <3>1, <3>2
      <4> QED
        BY <1>2, <4>1, <4>2
    <3> QED
      BY <3>1, <3>2, <3>4, <3>5
  <2>2. CASE x # None
    <3>1. Leads(x, m) /\ todo' = <<PutMac(x, m)>> /\ row' = [row EXCEPT !.indices = Append(@, x)]
      BY <1>0, <1>1, <2>2, MacFound
    <3>a. PICK y, z : y = x /\ z = m
      OBVIOUS
    <3>b. PICK i \in Nat : i = n
      BY <1>4
    <3>2. y = x /\ z = m /\ i = n /\ i \in Nat
      BY <3>a, <3>b
    <3>3. /\ row'.macs = row.macs /\ Len(row'.indices) = i /\ i <= Len(row.macs)
          /\ row'.indices[i] = y /\ row'.macs[i] = z
          /\ \A j \in 1..i - 1 : Leads(row.indices[j], row.macs[j])'
      BY <2>1, <3>1, <3>2
    <3>4. Leads(y, z)' /\ y \in 0..MacCount' - 1 /\ chip'.macs[y] = z
      BY <1>1, <1>2, <3>1, <3>2 DEF Leads
    <3>5. \A j \in 1..i : Leads(row.indices[j], row.macs[j])'
      <4> SUFFICES ASSUME NEW j \in 1..i PROVE Leads(row.indices[j], row.macs[j])'
        OBVIOUS
      <4>1. CASE j = i
        BY <3>3, <3>4, <4>1
      <4>2. CASE j # i
        BY <3>2, <3>3, <4>2
      <4> QED
        BY <4>1, <4>2
    <3>6. todo' = <<PutMac(y, chip'.macs[y])>>
      BY <3>1, <3>2, <3>4
    <3>7. RowMacs'
      BY <3>3, <3>4, <3>5, <3>6 DEF RowMacs
    <3> QED
      BY <1>0, <1>2, <1>3, <1>7, <3>7 DEF MacPhases
  <2>3. CASE x = None
    <3>0. phase' # "idle"
      BY <1>7
    <3>1. /\ MacCount < MaxMacs
          /\ todo' = <<PutMac(MacCount, m), PutMacHeader(MacHeader(MacCount + 1))>>
          /\ row' = [row EXCEPT !.indices = Append(@, MacCount)]
      BY <1>1, <2>3, <3>0
    <3>a. PICK y, z : y = MacCount /\ z = m
      OBVIOUS
    <3>b. PICK i \in Nat : i = n
      BY <1>4
    <3>2. y = MacCount /\ z = m /\ i = n /\ i \in Nat
      BY <3>a, <3>b
    <3>3. /\ row'.macs = row.macs /\ Len(row'.indices) = i /\ i <= Len(row.macs)
          /\ row'.indices[i] = y /\ row'.macs[i] = z
          /\ \A j \in 1..i - 1 : Leads(row.indices[j], row.macs[j])'
      BY <2>1, <3>1, <3>2
    <3>4. /\ y = MacCount' /\ y < MaxMacs
          /\ todo' = <<PutMac(y, z), PutMacHeader(MacHeader(y + 1))>>
      BY <1>2, <3>1, <3>2
    <3>5. i >= 1
      BY <1>4, <3>2
    <3>6. RowMacs'
      BY <3>3, <3>4, <3>5 DEF RowMacs, Adding
    <3> QED
      BY <1>0, <1>2, <1>3, <1>7, <3>6 DEF MacPhases
  <2> QED
    BY <2>2, <2>3
<1> QED
  BY <1>1, <1>6, <1>7

\* The row has an index for every device.
LEMMA MacsAppendRow ==
  ASSUME MacSteady0, TypeInv', AppendRow
  PROVE  (MacsSound /\ MacPhases)'
<1>0. TypeInv /\ LastRow /\ Kept /\ PhaseInv /\ MacsSound /\ MacPhases /\ RamMacs /\ MacMagic /\ RowMacs
  BY DEF MacSteady0, Steady, MacPhases, AppendRow
<1>1. /\ phase = "row" /\ todo = <<>> /\ Len(row.indices) = Len(row.macs)
      /\ chip' = chip /\ ctx' = ctx /\ acked' = acked /\ phase' \in {"append", "idle"}
      /\ log' = [log EXCEPT ![Len(log)].indices = row.indices]
  BY DEF AppendRow
<1>2. PICK n \in Nat : n = Len(log)
  BY <1>0, LogFacts
<1>3. log \in Seq(LogType) /\ n >= 1 /\ log[n].macs = row.macs
      /\ \A d \in Days : \A k \in 1..Len(acked[d]) : acked[d][k] \in 1..n /\ acked[d][k] # n
  BY <1>0, <1>1, <1>2 DEF LastRow, TypeInv
<1>4. /\ Len(log') = n /\ \A i \in 1..n : i # n => log'[i] = log[i]
      /\ log'[n].macs = row.macs /\ log'[n].indices = row.indices
  <2>1. log[n] \in LogType
    BY <1>2, <1>3
  <2>2. log'[n] = [log[n] EXCEPT !.indices = row.indices]
    BY <1>1, <1>2, <1>3
  <2> QED
    BY <1>1, <1>2, <1>3, <2>1, <2>2 DEF LogType
<1>5. /\ MacCount' = MacCount /\ MacMagic' = MacMagic /\ RamMacs'
  BY <1>0, <1>1 DEF MacCount, MacMagic, RamMacs
<1>6. \A d \in Days : \A k \in 1..Len(acked[d]) : log'[acked[d][k]] = log[acked[d][k]]
  BY <1>3, <1>4
<1>7. AckedResolved' /\ \A x, m : Leads(x, m) => Leads(x, m)'
  BY <1>0, <1>1, <1>5, <1>6, ResolvedStays DEF MacsSound
<1>8. MacsSound'
  BY <1>0, <1>5, <1>7 DEF MacsSound
<1>9. \A j \in 1..Len(row.indices) : Leads(row.indices[j], row.macs[j])
  <2>1. ~Adding(row.macs[Len(row.indices)])
    BY <1>1 DEF Adding
  <2> QED
    BY <1>0, <2>1 DEF RowMacs
<1>10. Resolved(log[Len(log)])'
  BY <1>1, <1>4, <1>7, <1>9 DEF Resolved
<1> QED
  BY <1>0, <1>1, <1>5, <1>8, <1>10 DEF MacPhases

LEMMA MacsRowAppended ==
  ASSUME MacSteady0, TypeInv', RowAppended
  PROVE  (MacsSound /\ MacPhases)'
<1>0. /\ TypeInv /\ LastRow /\ Kept /\ PhaseInv /\ MacsSound /\ MacPhases /\ RamMacs /\ MacMagic
      /\ Resolved(log[Len(log)])
  BY DEF MacSteady0, Steady, MacPhases, RowAppended
<1>1. /\ phase = "append" /\ phase' = "idle" /\ chip' = chip /\ ctx' = ctx /\ log' = log
      /\ \/ acked' = acked
         \/ \E name : acked' = [acked EXCEPT ![name] = Append(@, Len(log))]
  BY DEF RowAppended
<1>2. MacCount' = MacCount /\ MacMagic' = MacMagic /\ RamMacs'
  BY <1>0, <1>1 DEF MacCount, MacMagic, RamMacs
<1>3. ASSUME NEW r, Resolved(r) PROVE Resolved(r)'
  BY <1>1, <1>2, <1>3 DEF Resolved, Leads
<1>4. AckedResolved'
  <2> SUFFICES ASSUME NEW d \in Days, NEW k \in 1..Len(acked'[d])
               PROVE  Resolved(log[acked[d][k]])'
    BY DEF AckedResolved
  <2>1. PICK r : r = log'[acked'[d][k]]
    OBVIOUS
  <2>2. \/ k \in 1..Len(acked[d]) /\ acked'[d][k] = acked[d][k]
        \/ acked'[d][k] = Len(log)
    <3>1. acked \in [Days -> Seq(Nat)] /\ Len(log) \in Nat
      BY <1>0, LogFacts DEF TypeInv
    <3>2. acked'[d] = acked[d] \/ acked'[d] = Append(acked[d], Len(log))
      BY <1>1, <3>1
    <3> QED
      BY <3>1, <3>2
  <2>3. Resolved(r)
    BY <1>0, <1>1, <2>1, <2>2 DEF MacsSound, AckedResolved
  <2>4. Resolved(r)'
    BY <1>3, <2>3
  <2> QED
    BY <2>1, <2>4 DEF Resolved, Leads
<1>5. MacsSound'
  BY <1>0, <1>2, <1>4 DEF MacsSound
<1> QED
  BY <1>1, <1>2, <1>5, <1>0 DEF MacPhases

LEMMA MacsStep ==
  ASSUME TypeInv, LastRow, FramInv, MacInv, FsNext, TypeInv'
  PROVE  MacInv'
<1> SUFFICES ASSUME failed' = 0 PROVE (~spoilt /\ MacsSound /\ MacPhases)'
  BY DEF MacInv
<1>1. failed \in Nat /\ ~TransferFails
  BY DEF TypeInv, TransferFails
<1>2. failed = 0 /\ spoilt' = spoilt /\ ~WriteFails
  <2>1. ~WriteFails
    BY <1>1 DEF WriteFails
  <2>2. failed' = failed /\ spoilt' = spoilt
    BY <1>1, <2>1 DEF FsNext, Mounts, Operations, PowerUp, InitHeader, InitMacs, InitSettings,
         InitWithTime, StartRow, FindOrAddMac, AppendRow, RowAppended, OperationEnds, ClearMemory,
         SaveSettings, juxta_fram_write, PowerCut, DateChanges
  <2> QED
    BY <2>1, <2>2
<1>3. ~spoilt /\ MacSteady0
  BY <1>2 DEF MacInv, FramInv, MacSteady0, Steady
<1>4. CASE Mounts
  BY <1>2, <1>3, <1>4, MacsBoot
<1>5. CASE ClearMemory \/ SaveSettings \/ DateChanges \/ PowerCut \/ OperationEnds
  BY <1>2, <1>3, <1>5, MacsCommand
<1>6. CASE \E macs \in Lists : StartRow(1, macs)
  <2>1. PICK macs \in Seq(Macs) : StartRow(1, macs)
    BY <1>6, ChipAssumption
  <2> QED
    BY <1>2, <1>3, <2>1, MacsStart
<1>7. CASE StartRow(2, <<>>)
  <2>1. <<>> \in Seq(Macs) /\ 2 \in 1..2
    OBVIOUS
  <2> QED
    BY <1>2, <1>3, <1>7, <2>1, MacsStart
<1>8. CASE FindOrAddMac
  BY <1>2, <1>3, <1>8, MacsFindOrAdd
<1>9. CASE AppendRow
  BY <1>2, <1>3, <1>9, MacsAppendRow
<1>10. CASE RowAppended
  BY <1>2, <1>3, <1>10, MacsRowAppended
<1>11. CASE juxta_fram_write
  BY <1>2, <1>3, <1>11, MacsWrite
<1> QED
  BY <1>2, <1>4, <1>5, <1>6, <1>7, <1>8, <1>9, <1>10, <1>11 DEF FsNext, Operations

LEMMA MacsStutter ==
  ASSUME MacInv, UNCHANGED fsVars
  PROVE  MacInv'
<1>1. /\ MacCount' = MacCount /\ MacMagic' = MacMagic /\ (RamMacs' <=> RamMacs)
      /\ (Nothing' <=> Nothing) /\ Left' = Left
  BY DEF fsVars, MacCount, MacMagic, RamMacs, Nothing, Left
<1>2. \A x, m : Leads(x, m)' <=> Leads(x, m)
  BY <1>1 DEF fsVars, Leads
<1>3. AckedResolved' <=> AckedResolved
  BY <1>2 DEF fsVars, AckedResolved, Resolved
<1>4. Resolved(log[Len(log)])' <=> Resolved(log[Len(log)])
  BY <1>2 DEF fsVars, Resolved
<1>5. RowMacs' <=> RowMacs
  BY <1>1, <1>2 DEF fsVars, RowMacs, Adding
<1>6. (MacsSound' <=> MacsSound) /\ (MacPhases' <=> MacPhases)
  BY <1>1, <1>3, <1>4, <1>5 DEF fsVars, MacsSound, MacPhases
<1> QED
  BY <1>6 DEF fsVars, MacInv

LEMMA MacsInit == FsInit => MacInv
<1> SUFFICES ASSUME FsInit PROVE ~spoilt /\ MacsSound /\ MacPhases
  BY DEF MacInv
<1>1. \A d \in Days : acked[d] = <<>> /\ Len(acked[d]) = 0
  BY DEF FsInit
<1>2. AckedResolved /\ Nothing /\ MacCount = 0
  BY <1>1 DEF AckedResolved, Nothing, FsInit, MacCount, MacHeader
<1> QED
  BY <1>2 DEF FsInit, MacsSound, MacPhases

LEMMA MacInvImplies ==
  ASSUME TypeInv, LastRow, MacInv
  PROVE  MacIdsResolve
<1> SUFFICES ASSUME failed = 0, NEW d \in Days, NEW k \in DOMAIN acked[d],
                    NEW j \in DOMAIN log[acked[d][k]].macs
             PROVE  LET r == log[acked[d][k]]
                    IN  /\ r.indices[j] < chip.mac_header.entry_count
                        /\ chip.macs[r.indices[j]] = r.macs[j]
  BY DEF MacIdsResolve
<1>1. PICK r : r = log[acked[d][k]]
  OBVIOUS
<1>2. acked[d] \in Seq(Nat) /\ k \in 1..Len(acked[d]) /\ acked[d][k] \in 1..Len(log)
  BY LogFacts DEF TypeInv
<1>3. r \in LogType
  BY <1>1, <1>2 DEF TypeInv
<1>4. j \in 1..Len(r.macs)
  BY <1>1, <1>3 DEF LogType
<1>5. Leads(r.indices[j], r.macs[j])
  BY <1>1, <1>2, <1>4 DEF MacInv, MacsSound, AckedResolved, Resolved
<1>6. r.indices[j] < chip.mac_header.entry_count /\ chip.macs[r.indices[j]] = r.macs[j]
  <2>1. PICK x : x = r.indices[j]
    OBVIOUS
  <2>2. x \in 0..MacCount - 1 /\ MacCount \in Nat
    BY <1>5, <2>1, MacFacts DEF Leads
  <2>3. x < MacCount
    BY <2>2
  <2> QED
    BY <1>5, <2>1, <2>3 DEF Leads, MacCount
<1> QED
  BY <1>1, <1>6

\* Without failed writes, whatever the power does: the index a row has for a
\* device leads to that device's address, as long as the row is kept.
THEOREM IdsLeadToAddresses == FsSpec => []MacIdsResolve
<1>1. FsInit => TypeInv /\ LastRow /\ FramInv /\ MacInv
  BY FramTypesInit, FramInit, MacsInit
<1>2. /\ TypeInv /\ LastRow /\ FramInv /\ MacInv
      /\ [FsNext]_fsVars
      => (TypeInv /\ LastRow /\ FramInv /\ MacInv)'
  <2> SUFFICES ASSUME TypeInv, LastRow, FramInv, MacInv, [FsNext]_fsVars
               PROVE  (TypeInv /\ LastRow /\ FramInv /\ MacInv)'
    OBVIOUS
  <2>1. (TypeInv /\ LastRow /\ FramInv)'
    BY FramTypesStep, FramStep
  <2>2. MacInv'
    BY <2>1, MacsStep, MacsStutter
  <2> QED
    BY <2>1, <2>2
<1>3. TypeInv /\ LastRow /\ FramInv /\ MacInv => MacIdsResolve
  BY MacInvImplies
<1> QED
  BY <1>1, <1>2, <1>3, PTL DEF FsSpec

-----------------------------------------------------------------------------
(* The first session. *)

\* Until file system and work are ready nothing of the state machine runs.
AsleepBefore ==
  main \notin {"ready", "run"} => pc = "idle" /\ ~state_work /\ ~state_timer

\* The flag set beside a connection: advertising runs, or will again.
FlagTellsTruth ==
  main \in {"mark", "sync"} /\ ~datetime_synchronized /\ ~missed
    /\ ble_connected /\ connectable_adv_active =>
      adv = "connectable" \/ restart # "idle"

SyncInv == AsleepBefore /\ FlagTellsTruth /\ GatewayCanCome

LEMMA AsleepStep == AsleepBefore /\ [Next]_vars => AsleepBefore'
<1> SUFFICES ASSUME AsleepBefore, [Next]_vars PROVE AsleepBefore'
  OBVIOUS
<1> USE DEF AsleepBefore
<1>1. CASE Boots
  BY <1>1 DEF Boots, MainAdvertises, MainMarks, MainSynchronized, MainReady, MainRuns,
              RestartAdvertises, RestartMarks, work, ages, table, world
<1>2. CASE Bluetooth
  BY <1>2 DEF Bluetooth, connected, GatewayWrites, disconnected, scan_cb,
              boot, work, table, world
<1>3. CASE state_timer_callback
  BY <1>3 DEF state_timer_callback, boot
<1>4. CASE Handler
  <2>1. main \in {"ready", "run"} /\ main' = main
    BY <1>4 DEF Handler, StateWorkStarts, AppendsRow, Logged, HandlesNothing, StopsBurst,
                StartsScan, StartsAdvertising, Waits, Handles, boot
  <2> QED
    BY <2>1
<1>5. CASE Answers
  <2>1. main \in {"ready", "run"} /\ main' = main
    BY <1>5 DEF Answers, BurstStopped, StopFails, ScanStarted, AdvertisingStarted,
                StartFails, GatewayStartFails, boot
  <2> QED
    BY <2>1
<1>6. CASE World
  BY <1>6 DEF World, SecondPasses, MinutePasses, BatteryChanges, boot, work
<1>7. CASE UNCHANGED vars
  BY <1>7 DEF vars, boot, work
<1> QED
  BY <1>1, <1>2, <1>3, <1>4, <1>5, <1>6, <1>7 DEF Next

\* What the first session looks at; outside the main thread, the restart and
\* the callbacks nobody touches it before the machine is ready.
session == <<boot, ble_connected, adv>>

LEMMA SessionStep ==
  ASSUME SyncInv, session' = session
  PROVE  FlagTellsTruth' /\ GatewayCanCome'
BY DEF SyncInv, FlagTellsTruth, GatewayCanCome, session, boot

LEMMA SyncStep == SyncInv /\ [Next]_vars => SyncInv'
<1> SUFFICES ASSUME SyncInv, [Next]_vars PROVE FlagTellsTruth' /\ GatewayCanCome'
  BY AsleepStep DEF SyncInv
<1>1. CASE Boots
  BY <1>1 DEF SyncInv, AsleepBefore, FlagTellsTruth, GatewayCanCome, Boots, MainAdvertises,
              MainMarks, MainSynchronized, MainReady, MainRuns, RestartAdvertises, RestartMarks
<1>2. CASE connected
  BY <1>2 DEF SyncInv, FlagTellsTruth, GatewayCanCome, connected
<1>3. CASE GatewayWrites
  BY <1>3 DEF SyncInv, FlagTellsTruth, GatewayCanCome, GatewayWrites
<1>4. CASE disconnected
  BY <1>4 DEF SyncInv, FlagTellsTruth, GatewayCanCome, disconnected
<1>5. CASE \E m \in Names, rssi \in Strengths : scan_cb(m, rssi)
  <2>1. session' = session
    BY <1>5 DEF scan_cb, session, boot
  <2> QED
    BY <2>1, SessionStep
<1>6. CASE state_timer_callback \/ Handler \/ World \/ UNCHANGED vars
  <2>1. session' = session
    BY <1>6 DEF state_timer_callback, Handler, StateWorkStarts, AppendsRow, Logged,
                HandlesNothing, StopsBurst, StartsScan, StartsAdvertising, Waits,
                World, SecondPasses, MinutePasses, BatteryChanges, vars, session, boot
  <2> QED
    BY <2>1, SessionStep
<1>7. CASE Answers
  <2>1. main \in {"ready", "run"} /\ main' = main
    BY <1>7 DEF SyncInv, AsleepBefore, Answers, BurstStopped, StopFails, ScanStarted,
                AdvertisingStarted, StartFails, GatewayStartFails, boot
  <2> QED
    BY <2>1 DEF FlagTellsTruth, GatewayCanCome
<1> QED
  BY <1>1, <1>2, <1>3, <1>4, <1>5, <1>6, <1>7 DEF Next, Bluetooth

\* While the clock is not set a gateway can come, is there, or will be advertised
\* for again (main, datetime_sync_restart_work_handler, connected, disconnected).
THEOREM GatewayCanAlwaysCome == Spec => []GatewayCanCome
<1>1. Init => SyncInv
  BY DEF Init, SyncInv, AsleepBefore, FlagTellsTruth, GatewayCanCome
<1>2. SyncInv /\ [Next]_vars => SyncInv'
  BY SyncStep
<1>3. SyncInv => GatewayCanCome
  BY DEF SyncInv
<1> QED
  BY <1>1, <1>2, <1>3, PTL DEF Spec

-----------------------------------------------------------------------------
(* The state machine. *)

Runs == main = "run" /\ ~adc_timer /\ ~gave_up /\ ~let_go

\* The clock was set, or given up, before the main thread left the session.
SetBefore == main \in {"leave", "ready", "run"} => datetime_synchronized

\* The event of an expired timer waits until the handler takes it, and then
\* the handler is on its way to an answer of the controller.
EventIsKept ==
  Runs => state_timer \/ state_event
          \/ pc \in {"stop_adv", "stop_scan", "start_scan", "start_adv", "start_gateway"}

\* An event has a handler coming, or a connection whose end brings one.
EventIsDriven ==
  Runs /\ state_event /\ ~state_timer => state_work \/ pc # "idle" \/ ble_connected

DriveInv == SetBefore /\ EventIsKept /\ EventIsDriven

LEMMA SetBeforeStep == SetBefore /\ [Next]_vars => SetBefore'
<1> SUFFICES ASSUME SetBefore, [Next]_vars PROVE SetBefore'
  OBVIOUS
<1> USE DEF SetBefore
<1>1. CASE Boots
  BY <1>1 DEF Boots, MainAdvertises, MainMarks, MainSynchronized, MainReady, MainRuns,
              RestartAdvertises, RestartMarks
<1>2. CASE Bluetooth
  BY <1>2 DEF Bluetooth, connected, GatewayWrites, disconnected, scan_cb, boot
<1>3. CASE state_timer_callback \/ Handler \/ Answers \/ World \/ UNCHANGED vars
  <2>1. boot' = boot
    BY <1>3 DEF state_timer_callback, Handler, StateWorkStarts, AppendsRow, Logged,
                HandlesNothing, StopsBurst, StartsScan, StartsAdvertising, Waits,
                Answers, BurstStopped, StopFails, ScanStarted, AdvertisingStarted,
                StartFails, GatewayStartFails, World, SecondPasses, MinutePasses,
                BatteryChanges, vars
  <2> QED
    BY <2>1 DEF boot
<1> QED
  BY <1>1, <1>2, <1>3 DEF Next

\* The end of a connection submits the handler, lets the machine go, or leaves it
\* to what is pending.
LEMMA DisconnectedDrives ==
  ASSUME DriveInv, disconnected
  PROVE  EventIsKept' /\ EventIsDriven'
<1>1. UNCHANGED <<main, adc_timer, gave_up, state_timer, state_event, pc>>
  BY DEF disconnected, world
<1>2. CASE UNCHANGED let_go
  <2>1. Runs' => Runs
    BY <1>1, <1>2 DEF Runs
  <2>2. Runs' => datetime_synchronized
    BY <2>1 DEF DriveInv, SetBefore, Runs
  <2>3. Runs' => \/ state_work' = TRUE
                 \/ UNCHANGED state_work /\ (state_timer \/ state_work \/ pc # "idle")
    BY <2>2, <1>2 DEF disconnected, Runs
  <2> QED
    BY <1>1, <2>1, <2>2, <2>3 DEF DriveInv, EventIsKept, EventIsDriven
<1>3. CASE let_go' = (let_go \/ (main = "run" /\ ~state_timer /\ ~state_work /\ pc = "idle"))
           /\ UNCHANGED state_work
  <2>1. Runs' => Runs /\ (state_timer \/ state_work \/ pc # "idle")
    BY <1>1, <1>3 DEF Runs
  <2> QED
    BY <1>1, <1>3, <2>1 DEF DriveInv, EventIsKept, EventIsDriven
<1> QED
  BY <1>2, <1>3 DEF disconnected

LEMMA DriveStep == DriveInv /\ [Next]_vars => DriveInv'
<1> SUFFICES ASSUME DriveInv, [Next]_vars PROVE EventIsKept' /\ EventIsDriven'
  BY SetBeforeStep DEF DriveInv
<1> USE DEF DriveInv, Runs, EventIsKept, EventIsDriven
<1>1. CASE Boots
  BY <1>1 DEF Boots, MainAdvertises, MainMarks, MainSynchronized, MainReady, MainRuns,
              RestartAdvertises, RestartMarks, work, world
<1>2. CASE connected \/ GatewayWrites \/ \E m \in Names, rssi \in Strengths : scan_cb(m, rssi)
  BY <1>2 DEF connected, GatewayWrites, scan_cb, boot, work, world
<1>3. CASE disconnected
  BY <1>3, DisconnectedDrives
<1>4. CASE state_timer_callback
  BY <1>4 DEF state_timer_callback, boot, world
<1>5. CASE StateWorkStarts
  BY <1>5 DEF StateWorkStarts, boot, world
<1>6. CASE AppendsRow \/ Logged
  BY <1>6 DEF AppendsRow, Logged, boot, world
<1>7. CASE HandlesNothing
  BY <1>7 DEF HandlesNothing, boot, world
<1>8. CASE StopsBurst \/ StartsScan \/ StartsAdvertising \/ Waits
  BY <1>8 DEF StopsBurst, StartsScan, StartsAdvertising, Waits, boot, world
<1>9. CASE Answers
  <2>1. CASE BurstStopped \/ ScanStarted \/ AdvertisingStarted \/ StartFails
    BY <2>1 DEF BurstStopped, ScanStarted, AdvertisingStarted, StartFails, boot, world
  <2>2. CASE StopFails
    BY <2>2 DEF StopFails, boot, world
  <2>3. CASE GatewayStartFails
    BY <2>3 DEF GatewayStartFails, boot, world
  <2> QED
    BY <1>9, <2>1, <2>2, <2>3 DEF Answers
<1>10. CASE World \/ UNCHANGED vars
  BY <1>10 DEF World, SecondPasses, MinutePasses, BatteryChanges, vars, boot, work, world
<1> QED
  BY <1>1, <1>2, <1>3, <1>4, <1>5, <1>6, <1>7, <1>8, <1>9, <1>10 DEF Next, Bluetooth, Handler

\* Once it runs the state machine has a timer, a handler, or a connection whose
\* end brings one, whatever settings gateways save and whenever; unless it gave
\* up (state_work_handler) or was let go (disconnected).
THEOREM RunStaysDriven == Spec => []RunIsDriven
<1>1. Init => DriveInv
  BY DEF Init, DriveInv, SetBefore, EventIsKept, EventIsDriven, Runs
<1>2. DriveInv /\ [Next]_vars => DriveInv'
  BY DriveStep
<1>3. DriveInv => RunIsDriven
  BY DEF DriveInv, EventIsKept, EventIsDriven, Runs, RunIsDriven
<1> QED
  BY <1>1, <1>2, <1>3, PTL DEF Spec

=============================================================================
