------------------------------- MODULE FramFs -------------------------------
(***************************************************************************)
(* The file system on FRAM of the reference firmware (framfs.c): daily     *)
(* append-only files, the table of MAC addresses that rows refer to by     *)
(* index, the user settings; driven as juxta-ble drives it.                *)
(*                                                                         *)
(* An operation decides on what it reads at its start, then puts bytes on  *)
(* the chip in several writes, one action each.  A write is whole or not   *)
(* at all; it may fail, and a power cut may come between any two.  Memory  *)
(* is in cells; a plain row takes one, a burst of samples two.  What       *)
(* nothing reads back is left out: file types, usage counts, the total.    *)
(*                                                                         *)
(* Init, Next and Spec are FsInit, FsNext and FsSpec here, so that a       *)
(* module may extend JuxtaBle too, whose rows these are.                   *)
(***************************************************************************)
EXTENDS Integers, Sequences, FiniteSets

CONSTANTS
  MaxFiles,     \* JUXTA_FRAMFS_MAX_FILES
  MaxMacs,      \* JUXTA_FRAMFS_MAX_MAC_ADDRESSES
  Size,         \* data cells of the chip
  Macs,         \* MAC addresses in range
  NoMac,        \* what a cleared entry holds
  Lists,        \* sequences of addresses a row may name
  MaxDay,       \* bound: days
  MaxRows,      \* bound: rows attempted
  MaxTroubles   \* bound: power cuts and failed transfers together

ASSUME ChipAssumption ==
  /\ MaxFiles \in Nat \ {0} /\ MaxMacs \in Nat \ {0} /\ Size \in Nat
  /\ NoMac \notin Macs /\ Lists \subseteq Seq(Macs)
ASSUME FramBoundAssumption ==
  MaxDay \in Nat \ {0} /\ MaxRows \in Nat /\ MaxTroubles \in Nat

VARIABLES
  chip,         \* FRAM: header, entries, mac_header, macs, settings, data
  ctx,          \* juxta_framfs_context: header, mac_header, settings, active_file_index
  current_file_date,
  date,         \* what the RTC says
  todo,         \* writes of the operation in progress
  phase,        \* what follows them
  row,          \* the row being appended
  log,          \* history: rows attempted
  acked,        \* history: per file, the rows whose append returned OK
  spoilt,       \* history: a failed transfer of a kind that the code does not survive
  cuts, failed

fsVars == <<chip, ctx, current_file_date, date, todo, phase, row, log, acked, spoilt,
          cuts, failed>>

-----------------------------------------------------------------------------
None  == -1
Slots == 0..MaxFiles - 1
Days  == 1..MaxDay
Cells == 0..Size - 1

Blank  == [name |-> 0, start |-> 0, length |-> 0, flags |-> {}]
Valid(e)  == "valid" \in e.flags
Active(e) == "active" \in e.flags
NoCell == [row |-> 0, part |-> 0]

Header(count, next) == [magic |-> TRUE, file_count |-> count, next_data_addr |-> next]
MacHeader(count)    == [magic |-> TRUE, entry_count |-> count]
NoRow == [size |-> 0, macs |-> <<>>, indices |-> <<>>]

Lowest(S) == CHOOSE i \in S : \A j \in S : i <= j
First(S)  == IF S = {} THEN None ELSE Lowest(S)

\* Entries below the count in RAM, as they are on the chip.
ListedEntries == {i \in Slots : i < ctx.header.file_count /\ Valid(chip.entries[i])}
framfs_find_file(name)   == First({i \in ListedEntries : chip.entries[i].name = name})
framfs_find_active_file  == First({i \in ListedEntries : Active(chip.entries[i])})
juxta_framfs_mac_find(m) ==
  First({i \in 0..MaxMacs - 1 : i < ctx.mac_header.entry_count /\ chip.macs[i] = m})

-----------------------------------------------------------------------------
(* Writes. *)

PutHeader(h, active) == [put |-> "header", val |-> h, active |-> active]
PutEntry(i, e, active, day, fresh) ==
  [put |-> "entry", at |-> i, val |-> e, active |-> active, day |-> day, fresh |-> fresh]
PutZero(i)        == [put |-> "zero", at |-> i]      \* the last ends the format
PutMacHeader(h)   == [put |-> "mac_header", val |-> h]
PutMac(i, m)      == [put |-> "mac", at |-> i, val |-> m]
PutSettings(s)    == [put |-> "settings", val |-> s]
PutData(addr, c)  == [put |-> "data", at |-> addr, val |-> c]

\* juxta_framfs_format: entries are zeroed in turn, 32 bytes for one of 24.
FormatWrites == <<PutHeader(Header(0, 0), ctx.active_file_index)>> \o [i \in 1..MaxFiles |-> PutZero(i - 1)]
MacClearWrites == <<PutMacHeader(MacHeader(0))>> \o [i \in 1..MaxMacs |-> PutMac(i - 1, NoMac)]
SettingsClearWrites == <<PutSettings("defaults")>>

\* juxta_framfs_seal_active, if a file is active, and the file that is in use then.
SealWrites(day, next) ==
  IF ctx.active_file_index = None THEN <<>>
  ELSE LET i == ctx.active_file_index
           e == chip.entries[i]
       IN  <<PutEntry(i, [e EXCEPT !.flags = (@ \ {"active"}) \cup {"sealed"}], next, day, FALSE)>>

NewFile(name, next) ==
  [name |-> name, start |-> next, length |-> 0, flags |-> {"valid", "active"}]

\* juxta_framfs_ensure_current_file.  A file of today that was sealed starts
\* afresh where the chip says that data ends.
Stale == date # current_file_date \/ ctx.active_file_index = None

\* Today's file is on the chip, active, though not in use: a header that could
\* not be written when it was made.
Reused == Stale /\ framfs_find_file(date) # None
          /\ framfs_find_file(date) # ctx.active_file_index
          /\ Active(chip.entries[framfs_find_file(date)])

EnsureWrites ==
  LET found == framfs_find_file(date)
      slot  == ctx.header.file_count
  IN  IF ~Stale THEN <<>>
      ELSE SealWrites(date, IF Reused THEN found ELSE None) \o
        CASE found = None /\ slot < MaxFiles ->
               <<PutEntry(slot, NewFile(date, ctx.header.next_data_addr), None, date, FALSE),
                 PutHeader([ctx.header EXCEPT !.file_count = slot + 1], slot)>>
          [] found # None /\ (found = ctx.active_file_index \/ ~Active(chip.entries[found])) ->
               <<PutEntry(found, NewFile(date, chip.header.next_data_addr), found, date, TRUE)>>
          [] OTHER -> <<>>

\* No slot for today's file.
NoFile == Stale /\ framfs_find_file(date) = None /\ ctx.header.file_count >= MaxFiles

-----------------------------------------------------------------------------
FsInit ==
  /\ chip = [header |-> [Header(0, 0) EXCEPT !.magic = FALSE],
             entries |-> [i \in Slots |-> Blank],
             mac_header |-> [MacHeader(0) EXCEPT !.magic = FALSE],
             macs |-> [i \in 0..MaxMacs - 1 |-> NoMac],
             settings |-> "blank",
             data |-> [a \in Cells |-> NoCell]]
  /\ ctx = [header |-> Header(0, 0), mac_header |-> MacHeader(0), settings |-> "blank",
            active_file_index |-> None]
  /\ current_file_date = 0 /\ date = 1
  /\ todo = <<>> /\ phase = "off" /\ row = NoRow
  /\ log = <<>> /\ acked = [d \in Days |-> <<>>]
  /\ spoilt = FALSE /\ cuts = 0 /\ failed = 0

TransferFails == cuts + failed < MaxTroubles /\ failed' = failed + 1

-----------------------------------------------------------------------------
(* juxta_framfs_init and juxta_framfs_init_with_time. *)

\* A boot finds the clock set by a gateway, or at the firmware's own date.
PowerUp ==
  /\ phase = "off" /\ phase' = "header"
  /\ date' \in Days
  /\ UNCHANGED <<chip, ctx, current_file_date, todo, row, log, acked, spoilt, cuts, failed>>

\* What cannot be read, or was never written, is made anew.
InitHeader ==
  /\ phase = "header" /\ todo = <<>> /\ phase' = "macs"
  /\ \/ /\ ctx' = [ctx EXCEPT !.header = chip.header]
        /\ todo' = IF chip.header.magic THEN <<>> ELSE FormatWrites
        /\ UNCHANGED <<spoilt, failed>>
     \/ /\ TransferFails /\ spoilt' = TRUE /\ todo' = FormatWrites /\ UNCHANGED ctx
  /\ UNCHANGED <<chip, current_file_date, date, row, log, acked, cuts>>

InitMacs ==
  /\ phase = "macs" /\ todo = <<>> /\ phase' = "settings"
  /\ \/ /\ ctx' = [ctx EXCEPT !.mac_header = chip.mac_header]
        /\ todo' = IF chip.mac_header.magic THEN <<>> ELSE MacClearWrites
        /\ UNCHANGED <<spoilt, failed>>
     \/ /\ TransferFails /\ spoilt' = TRUE /\ todo' = MacClearWrites /\ UNCHANGED ctx
  /\ UNCHANGED <<chip, current_file_date, date, row, log, acked, cuts>>

InitSettings ==
  /\ phase = "settings" /\ todo = <<>> /\ phase' = "active"
  /\ \/ /\ ctx' = [ctx EXCEPT !.settings = chip.settings]
        /\ todo' = IF chip.settings # "blank" THEN <<>> ELSE SettingsClearWrites
        /\ UNCHANGED failed
     \/ TransferFails /\ todo' = SettingsClearWrites /\ UNCHANGED ctx
  /\ UNCHANGED <<chip, current_file_date, date, row, log, acked, spoilt, cuts>>

\* The date of the clock, whatever file is active.
InitWithTime ==
  /\ phase = "active" /\ todo = <<>> /\ phase' = "idle"
  /\ ctx' = [ctx EXCEPT !.active_file_index = framfs_find_active_file]
  /\ current_file_date' = date
  /\ UNCHANGED <<chip, date, todo, row, log, acked, spoilt, cuts, failed>>

-----------------------------------------------------------------------------
(* Operations.  Each is refused while another runs. *)

\* juxta_framfs_append_device_scan_data, _simple_record_data, _adc_burst_data:
\* today's file first.
StartRow(size, macs) ==
  /\ phase = "idle" /\ Len(log) < MaxRows
  /\ log' = Append(log, [day |-> date, size |-> size, macs |-> macs, indices |-> <<>>])
  /\ row' = [size |-> size, macs |-> macs, indices |-> <<>>]
  /\ todo' = EnsureWrites
  /\ phase' = IF NoFile THEN "refused" ELSE "row"
  /\ LET sealed == ctx.active_file_index = None
     IN  /\ ctx' = IF sealed /\ Reused THEN [ctx EXCEPT !.active_file_index = framfs_find_file(date)]
                   ELSE ctx
         /\ current_file_date' = IF sealed THEN date ELSE current_file_date
  /\ UNCHANGED <<chip, date, acked, spoilt, cuts, failed>>

\* Mutant: the table of addresses does not count the address it was given.
FindOrAddMacUncounted ==
  LET m == row.macs[Len(row.indices) + 1]
      found == juxta_framfs_mac_find(m)
      new == IF found # None THEN found ELSE ctx.mac_header.entry_count
  IN  /\ phase = "row" /\ todo = <<>> /\ Len(row.indices) < Len(row.macs)
      /\ IF new < MaxMacs
         THEN todo' = <<PutMac(new, m)>> /\ row' = [row EXCEPT !.indices = Append(@, new)]
              /\ UNCHANGED phase
         ELSE todo' = <<>> /\ row' = NoRow /\ phase' = "idle"
      /\ UNCHANGED <<chip, ctx, current_file_date, date, log, acked, spoilt, cuts, failed>>

\* juxta_framfs_mac_find_or_add for the next device of the row.
FindOrAddMac ==
  LET m == row.macs[Len(row.indices) + 1]
      found == juxta_framfs_mac_find(m)
      new == ctx.mac_header.entry_count
  IN  /\ phase = "row" /\ todo = <<>> /\ Len(row.indices) < Len(row.macs)
      /\ IF found # None
         THEN todo' = <<PutMac(found, m)>> /\ row' = [row EXCEPT !.indices = Append(@, found)]
              /\ UNCHANGED phase
         ELSE IF new < MaxMacs
         THEN todo' = <<PutMac(new, m), PutMacHeader(MacHeader(new + 1))>>
              /\ row' = [row EXCEPT !.indices = Append(@, new)] /\ UNCHANGED phase
         ELSE todo' = <<>> /\ row' = NoRow /\ phase' = "idle"
      /\ UNCHANGED <<chip, ctx, current_file_date, date, log, acked, spoilt, cuts, failed>>

\* Mutant: the header keeps the address where the data ended.
AppendRowHeaderless ==
  LET i == ctx.active_file_index
      e == chip.entries[i]
      n == Len(log)
      addr == e.start + e.length
  IN  /\ phase = "row" /\ todo = <<>> /\ Len(row.indices) = Len(row.macs)
      /\ log' = [log EXCEPT ![n].indices = row.indices]
      /\ IF i # None /\ Active(e) /\ addr + row.size <= Size
         THEN /\ todo' = [p \in 1..row.size |-> PutData(addr + p - 1, [row |-> n, part |-> p])]
                         \o <<PutEntry(i, [e EXCEPT !.length = @ + row.size], i,
                                       current_file_date, FALSE)>>
              /\ phase' = "append" /\ UNCHANGED row
         ELSE todo' = <<>> /\ phase' = "idle" /\ row' = NoRow
      /\ UNCHANGED <<chip, ctx, current_file_date, date, acked, spoilt, cuts, failed>>

\* juxta_framfs_append: bytes, length, header.
AppendRow ==
  LET i == ctx.active_file_index
      e == chip.entries[i]
      n == Len(log)
      addr == e.start + e.length
  IN  /\ phase = "row" /\ todo = <<>> /\ Len(row.indices) = Len(row.macs)
      /\ log' = [log EXCEPT ![n].indices = row.indices]
      /\ IF i # None /\ Active(e) /\ addr + row.size <= Size
         THEN /\ todo' = [p \in 1..row.size |-> PutData(addr + p - 1, [row |-> n, part |-> p])]
                         \o <<PutEntry(i, [e EXCEPT !.length = @ + row.size], i,
                                       current_file_date, FALSE),
                              PutHeader([ctx.header EXCEPT !.next_data_addr = addr + row.size], i)>>
              /\ phase' = "append" /\ UNCHANGED row
         ELSE todo' = <<>> /\ phase' = "idle" /\ row' = NoRow
      /\ UNCHANGED <<chip, ctx, current_file_date, date, acked, spoilt, cuts, failed>>

\* A file that a clearing left half wiped has no name.
RowAppended ==
  LET name == chip.entries[ctx.active_file_index].name
  IN  /\ phase = "append" /\ todo = <<>> /\ phase' = "idle" /\ row' = NoRow
      /\ acked' = IF name = 0 THEN acked ELSE [acked EXCEPT ![name] = Append(@, Len(log))]
      /\ UNCHANGED <<chip, ctx, current_file_date, date, todo, log, spoilt, cuts, failed>>

\* A row refused for want of a slot, a command carried out.
OperationEnds ==
  /\ phase \in {"refused", "clear", "save"} /\ todo = <<>> /\ phase' = "idle" /\ row' = NoRow
  /\ UNCHANGED <<chip, ctx, current_file_date, date, todo, log, acked, spoilt, cuts, failed>>

\* handle_memory_clearing: all files, addresses and settings.
ClearMemory ==
  /\ phase = "idle" /\ phase' = "clear" /\ log # <<>>
  /\ todo' = FormatWrites \o MacClearWrites \o SettingsClearWrites
  /\ acked' = [d \in Days |-> <<>>]
  /\ UNCHANGED <<chip, ctx, current_file_date, date, row, log, spoilt, cuts, failed>>

\* juxta_framfs_set_user_settings and the setters of one field.
SaveSettings ==
  /\ phase = "idle" /\ phase' = "save" /\ ctx.settings = "defaults"
  /\ todo' = <<PutSettings("changed")>>
  /\ UNCHANGED <<chip, ctx, current_file_date, date, row, log, acked, spoilt, cuts, failed>>

-----------------------------------------------------------------------------
(* The next write of the operation. *)

\* What the context holds whether the write succeeds or not; a file that is
\* begun afresh had the header read again.
CtxBefore(w) ==
  CASE w.put = "header"     -> [ctx EXCEPT !.header = w.val]
    [] w.put = "entry" /\ w.fresh -> [ctx EXCEPT !.header = chip.header]
    [] w.put = "mac_header" -> [ctx EXCEPT !.mac_header = w.val]
    [] w.put = "settings"   -> [ctx EXCEPT !.settings = w.val]
    [] OTHER                -> ctx

\* The zeroes run 8 bytes over: into the next entry's name, from the last
\* entry over the header of the MAC table and its first address.
ChipAfter(w) ==
  CASE w.put = "header"     -> [chip EXCEPT !.header = w.val]
    [] w.put = "entry"      -> [chip EXCEPT !.entries[w.at] = w.val]
    [] w.put = "zero" /\ w.at < MaxFiles - 1 ->
         [chip EXCEPT !.entries[w.at] = Blank, !.entries[w.at + 1].name = 0]
    [] w.put = "zero" /\ w.at = MaxFiles - 1 ->
         [chip EXCEPT !.entries[w.at] = Blank, !.macs[0] = NoMac,
                      !.mac_header = [magic |-> FALSE, entry_count |-> 0]]
    [] w.put = "mac_header" -> [chip EXCEPT !.mac_header = w.val]
    [] w.put = "mac"        -> [chip EXCEPT !.macs[w.at] = w.val]
    [] w.put = "settings"   -> [chip EXCEPT !.settings = w.val]
    [] w.put = "data"       -> [chip EXCEPT !.data[w.at] = w.val]

juxta_fram_write ==
  /\ todo # <<>>
  /\ LET w == Head(todo)
         named == w.put \in {"header", "entry"}
     IN  /\ chip' = ChipAfter(w)
         /\ ctx' = IF named THEN [CtxBefore(w) EXCEPT !.active_file_index = w.active]
                   ELSE IF w.put = "zero" /\ w.at = MaxFiles - 1
                   THEN [ctx EXCEPT !.active_file_index = None]
                   ELSE CtxBefore(w)
         /\ current_file_date' = IF w.put = "entry" THEN w.day ELSE current_file_date
         /\ acked' = IF w.put = "entry" /\ w.fresh THEN [acked EXCEPT ![w.val.name] = <<>>]
                     ELSE acked
         /\ todo' = Tail(todo)
  /\ UNCHANGED <<date, phase, row, log, spoilt, cuts, failed>>

\* The operation gives up with an error; a boot that cannot write ends there.
\* A clearing leaves the context at odds with the chip, a file whose header
\* fails is active though not in use, beside the next one.
WriteFails ==
  /\ todo # <<>> /\ TransferFails
  /\ ctx' = CtxBefore(Head(todo))
  /\ todo' = <<>> /\ row' = NoRow
  /\ phase' = IF phase \in {"macs", "settings", "active"} THEN "dead" ELSE "idle"
  /\ spoilt' = (spoilt \/ phase = "clear" \/ (phase = "row" /\ Head(todo).put = "header"))
  /\ UNCHANGED <<chip, current_file_date, date, log, acked, cuts>>

-----------------------------------------------------------------------------
(* The world outside. *)

PowerCut ==
  /\ phase # "off" /\ cuts + failed < MaxTroubles /\ cuts' = cuts + 1
  /\ phase' = "off" /\ todo' = <<>> /\ row' = NoRow
  /\ ctx' = [header |-> Header(0, 0), mac_header |-> MacHeader(0), settings |-> "blank",
             active_file_index |-> None]
  /\ current_file_date' = 0
  /\ UNCHANGED <<chip, date, log, acked, spoilt, failed>>

\* Midnight, or a gateway that sets the clock.
DateChanges ==
  /\ phase = "idle" /\ date' \in Days \ {date}
  /\ UNCHANGED <<chip, ctx, current_file_date, todo, phase, row, log, acked, spoilt,
                 cuts, failed>>

Mounts == PowerUp \/ InitHeader \/ InitMacs \/ InitSettings \/ InitWithTime

Operations ==
  \/ \E macs \in Lists : StartRow(1, macs)
  \/ StartRow(2, <<>>)
  \/ FindOrAddMac \/ AppendRow \/ RowAppended \/ OperationEnds
  \/ ClearMemory \/ SaveSettings

FsNext == Mounts \/ Operations \/ juxta_fram_write \/ WriteFails \/ PowerCut \/ DateChanges

FsSpec == FsInit /\ [][FsNext]_fsVars

-----------------------------------------------------------------------------
(* What juxta_framfs_read finds. *)

FileNamed(name) == First({i \in Slots : /\ i < chip.header.file_count
                                        /\ Valid(chip.entries[i])
                                        /\ chip.entries[i].name = name})

\* From an offset, not beyond the end.
juxta_framfs_read(name, offset) ==
  LET e == chip.entries[FileNamed(name)]
  IN  IF FileNamed(name) = None \/ offset >= e.length THEN <<>>
      ELSE [k \in 1..e.length - offset |-> chip.data[e.start + offset + k - 1]]

\* Where a row is: all its cells, side by side.
Places(cells, n) ==
  {k \in DOMAIN cells : \A p \in 1..log[n].size :
     k + p - 1 \in DOMAIN cells /\ cells[k + p - 1] = [row |-> n, part |-> p]}

-----------------------------------------------------------------------------
(* Properties. *)

Entry == [name : 0..MaxDay, start : 0..Size, length : 0..Size,
          flags : SUBSET {"valid", "active", "sealed"}]

FsTypeOK ==
  /\ chip.header \in [magic : BOOLEAN, file_count : 0..MaxFiles, next_data_addr : 0..Size]
  /\ chip.entries \in [Slots -> Entry]
  /\ chip.mac_header \in [magic : BOOLEAN, entry_count : 0..MaxMacs]
  /\ chip.macs \in [0..MaxMacs - 1 -> Macs \cup {NoMac}]
  /\ chip.settings \in {"blank", "defaults", "changed"}
  /\ chip.data \in [Cells -> [row : 0..MaxRows, part : 0..2]]
  /\ ctx.header.file_count \in 0..MaxFiles /\ ctx.active_file_index \in Slots \cup {None}
  /\ current_file_date \in 0..MaxDay /\ date \in Days
  /\ phase \in {"off", "dead", "header", "macs", "settings", "active", "idle", "row",
                "append", "refused", "clear", "save"}
  /\ Len(log) <= MaxRows /\ spoilt \in BOOLEAN /\ cuts \in Nat /\ failed \in Nat

\* Whatever is cut short or fails, a row whose append returned OK is in its
\* file, whole, once, and behind the rows before it, until the file is begun
\* afresh or the memory cleared.  Three failures lose rows and are left out: a
\* boot that takes a failed read for an empty chip, a clearing that fails, and
\* a file made whose header could not be written: two files are active then,
\* and one is put where the other's rows go.
AckedRowsIntact ==
  ~spoilt => \A d \in Days : LET cells == juxta_framfs_read(d, 0) IN
    \A j, k \in DOMAIN acked[d] : \E p, q \in DOMAIN cells :
      /\ Places(cells, acked[d][j]) = {p} /\ Places(cells, acked[d][k]) = {q}
      /\ j < k => p < q

\* The index a row has for a device leads to that device's address, at every
\* boot to come: without failed writes, whatever is cut short.
MacIdsResolve ==
  failed = 0 =>
    \A d \in Days : \A k \in DOMAIN acked[d] :
      LET r == log[acked[d][k]]
      IN  \A j \in DOMAIN r.macs :
            r.indices[j] < chip.mac_header.entry_count /\ chip.macs[r.indices[j]] = r.macs[j]

(* What a comment or a document says and TLC refutes; no run checks it. *)

\* framfs.h:655: "ensuring data is always written to the correct daily file".
RowsInFileOfTheirDay ==
  \A d \in Days : \A k \in DOMAIN acked[d] : log[acked[d][k]].day = d

=============================================================================
