--------------------------- MODULE CheckpointRing ---------------------------
(***************************************************************************)
(* The ring of draft records at the end of the NOR (juxta_checkpoint.c).   *)
(*                                                                         *)
(* Once a second the system workqueue appends one small record at the      *)
(* head; the sector the head enters is erased first.  A boot scans the     *)
(* whole ring for the valid record with the highest sequence number and    *)
(* continues behind it.  The ring is wiped when a session starts, when     *)
(* the user clears the memory, and when the device is put on the shelf.    *)
(*                                                                         *)
(* Every public function holds s_lock from end to end, so the functions    *)
(* are serial; power may fail between or inside their flash operations.    *)
(***************************************************************************)
EXTENDS Naturals, FiniteSets

CONSTANTS
  Sectors,    \* SECTOR_COUNT
  Slots,      \* SLOTS_PER_SECTOR
  MaxTime,    \* bound: records written in a behaviour
  MaxCuts,    \* bound: power cuts in a behaviour
  MaxFaults,  \* bound: flash operations that fail
  Env         \* what the environment may do, see Events

\* "flash"      a program, or the erase of the sector being entered, fails
\* "wipefail"   an erase of a wipe fails
\* "clearshelf" clearMemory is still at work when the device goes on the shelf
Events == {"flash", "wipefail", "clearshelf"}

ASSUME RingAssumption ==
  /\ Sectors \in Nat \ {0}
  /\ Slots \in Nat \ {0}
ASSUME BoundAssumption ==
  /\ MaxTime \in Nat /\ MaxCuts \in Nat /\ MaxFaults \in Nat
  /\ Env \subseteq Events

VARIABLES
  ring,      \* flash: the slots of each sector
  scanned,   \* RAM: s_scanned, the five variables below it are valid
  sec, idx,  \* RAM: s_head, as sector and slot in the sector
  seq,       \* RAM: s_next_seq
  newest,    \* RAM: s_newest by its time, 0 when not s_newest_valid
  halfWiped, \* history: a wipe failed and nobody has set the head since
  disabled,  \* RAM: s_disabled
  op,        \* the function in progress, by its next flash operation
  at,        \* erase_ring_locked's loop variable: the next sector to wipe
  enable,    \* the wipe in progress is juxta_checkpoint_reset's
  shelf,     \* how far enter_shelf_mode has got: no, disabled, wiped
  now,       \* the time of the record being written or last written
  cuts,      \* power cuts so far
  faults     \* failed flash operations so far

headVars == <<sec, idx, seq, newest, halfWiped>>
ramVars  == <<scanned, headVars, disabled>>
opVars   == <<op, at, enable>>
envVars  == <<now, cuts, faults>>
vars     == <<ring, ramVars, opVars, shelf, envVars>>

-----------------------------------------------------------------------------
(* Slots. *)

Sec == 0..(Sectors - 1)
Idx == 0..(Slots - 1)

\* A slot is erased, holds a record whose CRC is right, or holds anything else.
Slot == [k : {"blank", "record", "torn"}, seq : Nat, time : 0..MaxTime]

Blank == [k |-> "blank", seq |-> 0, time |-> 0]
Torn  == [k |-> "torn", seq |-> 0, time |-> 0]
Record(n, t) == [k |-> "record", seq |-> n, time |-> t]

BlankSector == [i \in Idx |-> Blank]

\* Programming a slot that is not erased leaves a record with a wrong CRC.
Programmed(slot, rec) == IF slot = Blank THEN rec ELSE Torn

\* What an interrupted erase may make of a sector.
PartlyErased(slots) ==
  {s \in [Idx -> {Blank, Torn} \union {slots[i] : i \in Idx}] :
     \A i \in Idx : s[i] \in {slots[i], Blank, Torn}}

ValidIn(r) == {a \in Sec \X Idx : r[a[1]][a[2]].k = "record"}

\* scan_ring_locked: the newest valid record, the last one among equals.
NewestIn(r) ==
  {a \in ValidIn(r) : \A b \in ValidIn(r) :
     LET x == r[a[1]][a[2]].seq
         y == r[b[1]][b[2]].seq
     IN \/ y < x
        \/ y = x /\ (b[1] < a[1] \/ (b[1] = a[1] /\ b[2] <= a[2]))}

\* The time of that record, 0 when there is none: what a boot would recover.
DraftIn(r) ==
  IF NewestIn(r) = {} THEN 0
  ELSE LET a == CHOOSE a \in NewestIn(r) : TRUE IN r[a[1]][a[2]].time

\* Seeded fault: the ring's end is off by one.
FollowingLate(s) == IF s < Sectors THEN s + 1 ELSE 0
Following(s) == IF s + 1 < Sectors THEN s + 1 ELSE 0

AdvanceHead ==
  /\ sec' = IF idx + 1 < Slots THEN sec ELSE Following(sec)
  /\ idx' = IF idx + 1 < Slots THEN idx + 1 ELSE 0

-----------------------------------------------------------------------------
(* The functions. *)

Ready == op = "idle"

\* Seeded fault: out of a dirty sector the head goes back, not on.
ScanGoesBack ==
  /\ Ready /\ ~scanned
  /\ scanned' = TRUE /\ halfWiped' = FALSE
  /\ \/ /\ NewestIn(ring) = {}
        /\ sec' = 0 /\ idx' = 0 /\ seq' = 1 /\ newest' = 0
     \/ \E a \in NewestIn(ring) :
          LET clean == \A j \in (a[2] + 1)..(Slots - 1) : ring[a[1]][j] = Blank
          IN /\ newest' = ring[a[1]][a[2]].time
             /\ seq' = ring[a[1]][a[2]].seq + 1
             /\ sec' = IF clean /\ a[2] + 1 = Slots THEN Following(a[1]) ELSE a[1]
             /\ idx' = IF clean /\ a[2] + 1 < Slots THEN a[2] + 1 ELSE 0
  /\ UNCHANGED <<ring, disabled, opVars, shelf, envVars>>

\* Seeded fault: the rest of the head's sector is not looked at.
ScanTrusting ==
  /\ Ready /\ ~scanned
  /\ scanned' = TRUE /\ halfWiped' = FALSE
  /\ \/ /\ NewestIn(ring) = {}
        /\ sec' = 0 /\ idx' = 0 /\ seq' = 1 /\ newest' = 0
     \/ \E a \in NewestIn(ring) :
          /\ newest' = ring[a[1]][a[2]].time
          /\ seq' = ring[a[1]][a[2]].seq + 1
          /\ sec' = IF a[2] + 1 < Slots THEN a[1] ELSE Following(a[1])
          /\ idx' = IF a[2] + 1 < Slots THEN a[2] + 1 ELSE 0
  /\ UNCHANGED <<ring, disabled, opVars, shelf, envVars>>

\* ensure_scanned_locked, before a load or a write.  The head goes behind the
\* newest record, or to the next sector when the rest of this one is dirty.
Scan ==
  /\ Ready /\ ~scanned
  /\ scanned' = TRUE /\ halfWiped' = FALSE
  /\ \/ /\ NewestIn(ring) = {}
        /\ sec' = 0 /\ idx' = 0 /\ seq' = 1 /\ newest' = 0
     \/ \E a \in NewestIn(ring) :
          LET clean == /\ a[2] + 1 < Slots
                       /\ \A j \in (a[2] + 1)..(Slots - 1) : ring[a[1]][j] = Blank
          IN /\ newest' = ring[a[1]][a[2]].time
             /\ seq' = ring[a[1]][a[2]].seq + 1
             /\ sec' = IF clean THEN a[1] ELSE Following(a[1])
             /\ idx' = IF clean THEN a[2] + 1 ELSE 0
  /\ UNCHANGED <<ring, disabled, opVars, shelf, envVars>>

\* Seeded fault: the disabled flag is not consulted.
StartWriteAlways ==
  /\ Ready /\ scanned
  /\ now < MaxTime
  /\ now' = now + 1
  /\ op' = IF idx = 0 THEN "erase" ELSE "program"
  /\ UNCHANGED <<ring, ramVars, at, enable, shelf, cuts, faults>>

\* juxta_checkpoint_write; while disabled it does nothing.
StartWrite ==
  /\ Ready /\ scanned
  /\ ~disabled
  /\ now < MaxTime
  /\ now' = now + 1
  /\ op' = IF idx = 0 THEN "erase" ELSE "program"
  /\ UNCHANGED <<ring, ramVars, at, enable, shelf, cuts, faults>>

\* The on-entry erase.
EnterSector ==
  /\ op = "erase"
  /\ ring' = [ring EXCEPT ![sec] = BlankSector]
  /\ op' = "program"
  /\ UNCHANGED <<ramVars, at, enable, shelf, envVars>>

\* Seeded fault: every record gets the same sequence number.
ProgramSlotSameSeq ==
  /\ op = "program"
  /\ ring' = [ring EXCEPT ![sec][idx] = Programmed(@, Record(seq, now))]
  /\ newest' = now
  /\ AdvanceHead
  /\ op' = "idle"
  /\ UNCHANGED <<scanned, seq, halfWiped, disabled, at, enable, shelf, envVars>>

ProgramSlot ==
  /\ op = "program"
  /\ ring' = [ring EXCEPT ![sec][idx] = Programmed(@, Record(seq, now))]
  /\ newest' = now
  /\ seq' = seq + 1
  /\ AdvanceHead
  /\ op' = "idle"
  /\ UNCHANGED <<scanned, halfWiped, disabled, at, enable, shelf, envVars>>

\* juxta_checkpoint_reset (and_enable) and juxta_checkpoint_erase.
StartWipe(and_enable) ==
  /\ Ready
  /\ op' = "wipe" /\ at' = 0 /\ enable' = and_enable
  /\ UNCHANGED <<ring, ramVars, envVars>>

WipeSector ==
  /\ op = "wipe" /\ at < Sectors
  /\ ring' = [ring EXCEPT ![at] = BlankSector]
  /\ at' = at + 1
  /\ UNCHANGED <<ramVars, op, enable, shelf, envVars>>

FinishWipe ==
  /\ op = "wipe" /\ at = Sectors
  /\ sec' = 0 /\ idx' = 0 /\ seq' = 1 /\ newest' = 0
  /\ scanned' = TRUE /\ halfWiped' = FALSE
  /\ disabled' = (disabled /\ ~enable)
  /\ op' = "idle"
  /\ UNCHANGED <<ring, at, enable, shelf, envVars>>

-----------------------------------------------------------------------------
(* Failing flash. *)

Fault(kind) ==
  /\ kind \in Env
  /\ faults < MaxFaults
  /\ faults' = faults + 1

\* The slot, which may be half programmed, is skipped.
ProgramFails ==
  /\ op = "program"
  /\ Fault("flash")
  /\ ring' \in {ring, [ring EXCEPT ![sec][idx] = Torn]}
  /\ AdvanceHead
  /\ op' = "idle"
  /\ UNCHANGED <<scanned, seq, newest, halfWiped, disabled, at, enable, shelf, now, cuts>>

EraseFails ==
  /\ op = "erase"
  /\ Fault("flash")
  /\ \E slots \in PartlyErased(ring[sec]) : ring' = [ring EXCEPT ![sec] = slots]
  /\ op' = "idle"
  /\ UNCHANGED <<ramVars, at, enable, shelf, now, cuts>>

\* A wipe that fails returns at once: the head stays where it was.
WipeFails ==
  /\ op = "wipe" /\ at < Sectors /\ ring[at] # BlankSector
  /\ Fault("wipefail")
  /\ \E slots \in PartlyErased(ring[at]) : ring' = [ring EXCEPT ![at] = slots]
  /\ op' = "idle" /\ halfWiped' = TRUE
  /\ UNCHANGED <<scanned, sec, idx, seq, newest, disabled, at, enable, shelf, now, cuts>>

-----------------------------------------------------------------------------
(* The callers: main enters and leaves the shelf, the workqueue clears.      *)

\* Activation of a session, or clearMemory on the system workqueue.
Reset ==
  /\ shelf = "no" \/ "clearshelf" \in Env
  /\ StartWipe(TRUE)
  /\ UNCHANGED shelf

\* enter_shelf_mode disables the ring first of all ...
Disable ==
  /\ Ready /\ shelf = "no"
  /\ disabled' = TRUE
  /\ shelf' = "disabled"
  /\ UNCHANGED <<ring, scanned, headVars, opVars, envVars>>

\* ... and erases it once op_mode is saved as SHELF.
EraseForShelf ==
  /\ shelf = "disabled"
  /\ StartWipe(FALSE)
  /\ shelf' = "wiped"

\* RAM and the function in progress are lost.
Restarts ==
  /\ scanned' = FALSE /\ disabled' = FALSE /\ halfWiped' = FALSE
  /\ sec' = 0 /\ idx' = 0 /\ seq' = 0 /\ newest' = 0
  /\ op' = "idle" /\ at' = 0 /\ enable' = FALSE
  /\ shelf' = "no"

SystemOff ==
  /\ Ready /\ shelf = "wiped"
  /\ Restarts
  /\ UNCHANGED <<ring, envVars>>

PowerCut ==
  /\ cuts < MaxCuts
  /\ cuts' = cuts + 1
  /\ \/ ring' = ring
     \/ op = "program" /\ ring' = [ring EXCEPT ![sec][idx] = Torn]
     \/ /\ op = "erase"
        /\ \E slots \in PartlyErased(ring[sec]) : ring' = [ring EXCEPT ![sec] = slots]
     \/ /\ op = "wipe" /\ at < Sectors
        /\ \E slots \in PartlyErased(ring[at]) : ring' = [ring EXCEPT ![at] = slots]
  /\ Restarts
  /\ UNCHANGED <<now, faults>>

-----------------------------------------------------------------------------
(* The specification. *)

Init ==
  /\ ring = [s \in Sec |-> BlankSector]
  /\ scanned = FALSE
  /\ sec = 0 /\ idx = 0 /\ seq = 0 /\ newest = 0
  /\ disabled = FALSE /\ halfWiped = FALSE
  /\ op = "idle" /\ at = 0 /\ enable = FALSE
  /\ shelf = "no"
  /\ now = 0 /\ cuts = 0 /\ faults = 0

Next ==
  \/ Scan \/ StartWrite \/ EnterSector \/ ProgramSlot
  \/ WipeSector \/ FinishWipe
  \/ ProgramFails \/ EraseFails \/ WipeFails
  \/ Reset \/ Disable \/ EraseForShelf \/ SystemOff
  \/ PowerCut

Spec == Init /\ [][Next]_vars

-----------------------------------------------------------------------------
(* Properties. *)

\* Type correctness; the head stays inside the ring.
TypeOK ==
  /\ ring \in [Sec -> [Idx -> Slot]]
  /\ scanned \in BOOLEAN /\ disabled \in BOOLEAN /\ enable \in BOOLEAN
  /\ halfWiped \in BOOLEAN
  /\ sec \in Sec /\ idx \in Idx
  /\ seq \in Nat /\ newest \in 0..MaxTime
  /\ op \in {"idle", "erase", "program", "wipe"}
  /\ at \in 0..Sectors
  /\ shelf \in {"no", "disabled", "wiped"}
  /\ now \in 0..MaxTime /\ cuts \in 0..MaxCuts /\ faults \in 0..MaxFaults

\* From the head to the end of its sector everything is erased, so that no
\* record is ever programmed over the remains of another: not after a torn
\* write, not after a failed one, not after any reboot.  (A wipe that failed half
\* way and left the head where it was is the exception, until the next reboot.)
HeadClean ==
  scanned /\ ~halfWiped /\ (idx # 0 \/ op = "program") =>
    \A j \in idx..(Slots - 1) : ring[sec][j] = Blank

\* Making room by erasing the sector the head enters, interrupted or not, never
\* takes away the record a boot would recover: that sector holds only the oldest.
\* (It would, had every program since the newest record failed for a whole lap;
\* and after a wipe that failed half way the newest left may be anywhere.)
EntrySparesNewest ==
  [][op = "erase" /\ ~halfWiped => DraftIn(ring') = DraftIn(ring)]_vars

\* From the moment enter_shelf_mode has disabled the ring until the device is
\* off, no record appears in it: a write that was queued does nothing.
ShelvedRingQuiet ==
  [][shelf # "no" /\ shelf' # "no" => ValidIn(ring') \subseteq ValidIn(ring)]_vars

\* The ring implements DurableDraft; a wipe that failed is not over until a reboot
\* scans the ring again or another wipe is complete.
TimesIn(r) == {r[a[1]][a[2]].time : a \in ValidIn(r)}
Draft == INSTANCE DurableDraft WITH
  Times  <- 1..MaxTime,
  draft  <- DraftIn(ring),
  older  <- TimesIn(ring) \ {DraftIn(ring)},
  wiping <- (op = "wipe" \/ halfWiped)
ImplementsDraft == Draft!Spec

=============================================================================
