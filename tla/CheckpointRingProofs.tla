------------------------ MODULE CheckpointRingProofs ------------------------
(***************************************************************************)
(* The checkpoint ring for every number of sectors and slots, and every    *)
(* bound: its types; that no record is programmed over another's remains   *)
(* as long as the erases of a wipe succeed; that none appears while the    *)
(* device is put on the shelf as long as no clearMemory is pending; and,   *)
(* as long as fewer operations fail than there are other sectors, that     *)
(* entering a sector never costs the newest record and that the ring       *)
(* implements DurableDraft.                                                *)
(***************************************************************************)
EXTENDS CheckpointRing, WellFoundedInduction, TLAPS

\* Flash is only in use once the ring has been scanned, and a sector is only
\* erased for a write when the head is at its first slot.
Phases ==
  /\ op \in {"erase", "program"} => scanned
  /\ op = "erase" => idx = 0

-----------------------------------------------------------------------------
(* Slots and sectors. *)

LEMMA SlotTypes ==
  /\ Blank \in Slot /\ Torn \in Slot
  /\ \A n \in Nat, t \in 0..MaxTime : Record(n, t) \in Slot
  BY BoundAssumption DEF Blank, Torn, Record, Slot

LEMMA SectorTypes ==
  /\ BlankSector \in [Idx -> Slot]
  /\ 0 \in Sec /\ 0 \in Idx
  BY SlotTypes, RingAssumption DEF BlankSector, Sec, Idx

\* An interrupted erase leaves slots.
LEMMA PartlyErasedType ==
  ASSUME NEW slots \in [Idx -> Slot], NEW s \in PartlyErased(slots)
  PROVE  s \in [Idx -> Slot]
  BY SlotTypes DEF PartlyErased

\* Putting one sector, or one slot, in the ring leaves a ring.
LEMMA SectorPut ==
  ASSUME ring \in [Sec -> [Idx -> Slot]], NEW s \in Sec, NEW slots \in [Idx -> Slot]
  PROVE  [ring EXCEPT ![s] = slots] \in [Sec -> [Idx -> Slot]]
  OBVIOUS

LEMMA SlotPut ==
  ASSUME ring \in [Sec -> [Idx -> Slot]], NEW s \in Sec, NEW i \in Idx, NEW x \in Slot
  PROVE  [ring EXCEPT ![s][i] = x] \in [Sec -> [Idx -> Slot]]
  OBVIOUS

LEMMA FollowingType == ASSUME NEW s \in Sec PROVE Following(s) \in Sec
  BY RingAssumption DEF Following, Sec

LEMMA AdvanceType ==
  ASSUME sec \in Sec, idx \in Idx, AdvanceHead
  PROVE  sec' \in Sec /\ idx' \in Idx
  BY FollowingType, RingAssumption DEF AdvanceHead, Sec, Idx

\* The record a scan finds is one of the ring's.
LEMMA NewestType ==
  ASSUME ring \in [Sec -> [Idx -> Slot]], NEW a \in NewestIn(ring)
  PROVE  /\ a[1] \in Sec /\ a[2] \in Idx
         /\ ring[a[1]][a[2]].seq \in Nat
         /\ ring[a[1]][a[2]].time \in 0..MaxTime
<1>1. a \in Sec \X Idx
  BY DEF NewestIn, ValidIn
<1>2. a[1] \in Sec /\ a[2] \in Idx
  BY <1>1
<1>3. ring[a[1]][a[2]] \in Slot
  BY <1>2
<1> QED BY <1>2, <1>3 DEF Slot

\* RAM after a restart.
LEMMA RestartsType ==
  ASSUME Restarts
  PROVE  /\ scanned' \in BOOLEAN /\ disabled' \in BOOLEAN /\ enable' \in BOOLEAN
         /\ halfWiped' \in BOOLEAN
         /\ sec' \in Sec /\ idx' \in Idx /\ seq' \in Nat /\ newest' \in 0..MaxTime
         /\ op' \in {"idle", "erase", "program", "wipe"}
         /\ at' \in 0..Sectors
         /\ shelf' \in {"no", "disabled", "wiped"}
<1>1. /\ scanned' \in BOOLEAN /\ disabled' \in BOOLEAN
      /\ enable' \in BOOLEAN /\ halfWiped' \in BOOLEAN
  BY DEF Restarts
<1>2. sec' \in Sec /\ idx' \in Idx /\ at' \in 0..Sectors
  BY SectorTypes, RingAssumption DEF Restarts
<1>3. seq' \in Nat /\ newest' \in 0..MaxTime
  BY BoundAssumption DEF Restarts
<1> QED BY <1>1, <1>2, <1>3 DEF Restarts

-----------------------------------------------------------------------------
(* Type correctness. *)

LEMMA TypeInit == Init => TypeOK
<1> SUFFICES ASSUME Init PROVE TypeOK
  OBVIOUS
<1>1. /\ scanned \in BOOLEAN /\ disabled \in BOOLEAN
      /\ enable \in BOOLEAN /\ halfWiped \in BOOLEAN
  BY DEF Init
<1>2. ring \in [Sec -> [Idx -> Slot]]
  BY SectorTypes DEF Init
<1>3. sec \in Sec /\ idx \in Idx /\ at \in 0..Sectors
  BY SectorTypes, RingAssumption DEF Init
<1> QED BY <1>1, <1>2, <1>3, BoundAssumption DEF Init, TypeOK

LEMMA TypeNext == TypeOK /\ [Next]_vars => TypeOK'
<1> SUFFICES ASSUME TypeOK, [Next]_vars PROVE TypeOK'
  OBVIOUS
<1> USE DEF TypeOK
<1>1. CASE Scan
  <2>0. scanned' \in BOOLEAN /\ halfWiped' \in BOOLEAN
    BY <1>1 DEF Scan
  <2>1. CASE NewestIn(ring) = {} /\ sec' = 0 /\ idx' = 0 /\ seq' = 1 /\ newest' = 0
    BY <1>1, <2>0, <2>1, SectorTypes, BoundAssumption DEF Scan, opVars, envVars
  <2>2. ASSUME NEW a \in NewestIn(ring),
               newest' = ring[a[1]][a[2]].time,
               seq' = ring[a[1]][a[2]].seq + 1,
               sec' \in {a[1], Following(a[1])},
               idx' = 0 \/ (idx' = a[2] + 1 /\ a[2] + 1 < Slots)
        PROVE  TypeOK'
    <3>1. /\ a[1] \in Sec /\ a[2] \in Idx
          /\ ring[a[1]][a[2]].seq \in Nat /\ ring[a[1]][a[2]].time \in 0..MaxTime
      BY NewestType
    <3>2. sec' \in Sec
      BY <2>2, <3>1, FollowingType
    <3>3. idx' \in Idx
      BY <2>2, <3>1, RingAssumption DEF Idx
    <3> QED BY <1>1, <2>0, <2>2, <3>1, <3>2, <3>3 DEF Scan, opVars, envVars
  <2> QED BY <1>1, <2>1, <2>2 DEF Scan
<1>2. CASE StartWrite
  BY <1>2, BoundAssumption DEF StartWrite, ramVars, headVars
<1>3. CASE EnterSector
  <2>1. ring' \in [Sec -> [Idx -> Slot]]
    BY <1>3, SectorTypes, SectorPut DEF EnterSector
  <2> QED BY <1>3, <2>1 DEF EnterSector, ramVars, headVars, envVars
<1>4. CASE ProgramSlot
  <2>1. Programmed(ring[sec][idx], Record(seq, now)) \in Slot
    BY SlotTypes DEF Programmed
  <2>2. ring' \in [Sec -> [Idx -> Slot]]
    BY <1>4, <2>1, SlotPut DEF ProgramSlot
  <2>3. sec' \in Sec /\ idx' \in Idx
    BY <1>4, AdvanceType DEF ProgramSlot
  <2> QED BY <1>4, <2>2, <2>3 DEF ProgramSlot, envVars
<1>5. CASE WipeSector
  <2>1. at \in Sec /\ at' \in 0..Sectors
    BY <1>5, RingAssumption DEF WipeSector, Sec
  <2>2. ring' \in [Sec -> [Idx -> Slot]]
    BY <1>5, <2>1, SectorTypes, SectorPut DEF WipeSector
  <2> QED BY <1>5, <2>1, <2>2 DEF WipeSector, ramVars, headVars, envVars
<1>6. CASE FinishWipe
  <2>1. disabled' \in BOOLEAN /\ scanned' \in BOOLEAN /\ halfWiped' \in BOOLEAN
    BY <1>6 DEF FinishWipe
  <2> QED BY <1>6, <2>1, SectorTypes, BoundAssumption DEF FinishWipe, envVars
<1>7. CASE ProgramFails
  <2>1. ring' \in [Sec -> [Idx -> Slot]]
    BY <1>7, SlotTypes, SlotPut DEF ProgramFails
  <2>2. sec' \in Sec /\ idx' \in Idx
    BY <1>7, AdvanceType DEF ProgramFails
  <2> QED BY <1>7, <2>1, <2>2, BoundAssumption DEF ProgramFails, Fault
<1>8. CASE EraseFails
  <2>1. ring' \in [Sec -> [Idx -> Slot]]
    BY <1>8, PartlyErasedType, SectorPut DEF EraseFails
  <2> QED BY <1>8, <2>1, BoundAssumption DEF EraseFails, Fault, ramVars, headVars
<1>9. CASE WipeFails
  <2>1. at \in Sec
    BY <1>9, RingAssumption DEF WipeFails, Sec
  <2>2. ring' \in [Sec -> [Idx -> Slot]]
    BY <1>9, <2>1, PartlyErasedType, SectorPut DEF WipeFails
  <2> QED BY <1>9, <2>2, BoundAssumption DEF WipeFails, Fault
<1>10. CASE Reset
  BY <1>10, RingAssumption DEF Reset, StartWipe, ramVars, headVars, envVars
<1>11. CASE Disable
  BY <1>11 DEF Disable, headVars, opVars, envVars
<1>12. CASE EraseForShelf
  <2>1. enable' \in BOOLEAN
    BY <1>12 DEF EraseForShelf, StartWipe
  <2>2. at' \in 0..Sectors /\ op' = "wipe" /\ shelf' = "wiped"
    BY <1>12, RingAssumption DEF EraseForShelf, StartWipe
  <2> QED
    BY <1>12, <2>1, <2>2 DEF EraseForShelf, StartWipe, ramVars, headVars, envVars
<1>13. CASE SystemOff
  <2>1. Restarts /\ UNCHANGED <<ring, now, cuts, faults>>
    BY <1>13 DEF SystemOff, envVars
  <2> QED BY <2>1, RestartsType
<1>14. CASE PowerCut
  <2>1. ring' \in [Sec -> [Idx -> Slot]]
    <3>1. CASE ring' = ring
      BY <3>1
    <3>2. CASE ring' = [ring EXCEPT ![sec][idx] = Torn]
      BY <3>2, SlotTypes, SlotPut
    <3>3. CASE \E slots \in PartlyErased(ring[sec]) : ring' = [ring EXCEPT ![sec] = slots]
      BY <3>3, PartlyErasedType, SectorPut
    <3>4. CASE /\ at < Sectors
               /\ \E slots \in PartlyErased(ring[at]) : ring' = [ring EXCEPT ![at] = slots]
      <4>1. at \in Sec
        BY <3>4, RingAssumption DEF Sec
      <4> QED BY <3>4, <4>1, PartlyErasedType, SectorPut
    <3> QED BY <1>14, <3>1, <3>2, <3>3, <3>4 DEF PowerCut
  <2>2. Restarts
    BY <1>14 DEF PowerCut
  <2>3. cuts' \in 0..MaxCuts /\ UNCHANGED <<now, faults>>
    BY <1>14, BoundAssumption DEF PowerCut
  <2> QED BY <2>1, <2>2, <2>3, RestartsType
<1>15. CASE UNCHANGED vars
  BY <1>15 DEF vars, ramVars, headVars, opVars, envVars
<1> QED
  BY <1>1, <1>2, <1>3, <1>4, <1>5, <1>6, <1>7, <1>8, <1>9, <1>10, <1>11, <1>12,
     <1>13, <1>14, <1>15 DEF Next

\* The ring's variables keep their types, and the head stays inside the ring
\* (s_head is at most TOTAL_SLOTS - 1), whatever fails.
THEOREM TypeCorrect == Spec => []TypeOK
<1>1. TypeOK /\ [Next]_vars => TypeOK'
  BY TypeNext
<1> QED BY <1>1, TypeInit, PTL DEF Spec

-----------------------------------------------------------------------------
(* No record over another's remains. *)

IInv == TypeOK /\ Phases /\ HeadClean

\* With a slot and a tail of slots of an erased sector there is nothing there.
LEMMA BlankTail == \A j \in Idx : BlankSector[j] = Blank
  BY DEF BlankSector

LEMMA CleanInit == Init => Phases /\ HeadClean
  BY DEF Init, Phases, HeadClean

LEMMA CleanNext ==
  ASSUME IInv, [Next]_vars
  PROVE  Phases' /\ HeadClean'
<1> USE DEF IInv, TypeOK, Phases, HeadClean
<1>1. CASE Scan
  <2>1. op' = "idle" /\ ring' = ring
    BY <1>1 DEF Scan, Ready, opVars
  <2>2. CASE idx' = 0
    BY <2>1, <2>2
  <2>3. ASSUME NEW a \in NewestIn(ring),
               sec' = a[1], idx' = a[2] + 1,
               \A j \in (a[2] + 1)..(Slots - 1) : ring[a[1]][j] = Blank
        PROVE  Phases' /\ HeadClean'
    BY <2>1, <2>3
  <2> QED BY <1>1, <2>2, <2>3 DEF Scan
<1>2. CASE StartWrite
  BY <1>2 DEF StartWrite, Ready, ramVars, headVars
<1>3. CASE EnterSector
  <2>1. \A j \in Idx : ring'[sec][j] = Blank
    BY <1>3, BlankTail DEF EnterSector
  <2>2. op' = "program" /\ UNCHANGED <<scanned, sec, idx>> /\ idx = 0
    BY <1>3 DEF EnterSector, ramVars, headVars
  <2> op = "erase"
    BY <1>3 DEF EnterSector
  <2>3. \A j \in idx'..(Slots - 1) : ring'[sec'][j] = Blank
    BY <2>1, <2>2 DEF Idx
  <2> QED BY <2>2, <2>3
<1>4. ASSUME op = "program", AdvanceHead, op' = "idle", UNCHANGED halfWiped,
             \E x : ring' = [ring EXCEPT ![sec][idx] = x]
      PROVE  Phases' /\ HeadClean'
  <2>1. CASE idx + 1 < Slots
    <3>1. sec' = sec /\ idx' = idx + 1
      BY <1>4, <2>1 DEF AdvanceHead
    <3>2. scanned /\ ~halfWiped => \A j \in (idx + 1)..(Slots - 1) : ring[sec][j] = Blank
      BY <1>4 DEF Idx
    <3>3. \A j \in (idx + 1)..(Slots - 1) : ring'[sec][j] = ring[sec][j]
      BY <1>4, RingAssumption DEF Idx
    <3>4. ~halfWiped' => \A j \in idx'..(Slots - 1) : ring'[sec'][j] = Blank
      BY <1>4, <3>1, <3>2, <3>3
    <3> QED BY <1>4, <3>4
  <2>2. CASE ~(idx + 1 < Slots)
    <3>1. idx' = 0
      BY <1>4, <2>2 DEF AdvanceHead
    <3> QED BY <1>4, <3>1
  <2> QED BY <2>1, <2>2
<1>5. CASE ProgramSlot
  BY <1>4, <1>5 DEF ProgramSlot
<1>6. CASE WipeSector
  <2>1. op' = "wipe" /\ op = "wipe" /\ UNCHANGED <<scanned, sec, idx, halfWiped>>
    BY <1>6 DEF WipeSector, ramVars, headVars
  <2>2. \A j \in Idx : ring[sec][j] = Blank => ring'[sec][j] = Blank
    BY <1>6, BlankTail DEF WipeSector
  <2>3. \A j \in idx..(Slots - 1) : j \in Idx
    BY DEF Idx
  <2> QED BY <2>1, <2>2, <2>3
<1>7. CASE FinishWipe
  BY <1>7 DEF FinishWipe
<1>8. CASE ProgramFails
  <2>1. ring = [ring EXCEPT ![sec][idx] = ring[sec][idx]]
    OBVIOUS
  <2> QED BY <1>4, <1>8, <2>1 DEF ProgramFails
<1>9. CASE EraseFails
  BY <1>9 DEF EraseFails, ramVars, headVars
<1>10. CASE WipeFails
  BY <1>10 DEF WipeFails
<1>11. CASE Reset \/ EraseForShelf
  BY <1>11 DEF Reset, EraseForShelf, StartWipe, Ready, ramVars, headVars
<1>12. CASE Disable
  BY <1>12 DEF Disable, Ready, headVars, opVars
<1>13. CASE SystemOff \/ PowerCut
  BY <1>13 DEF SystemOff, PowerCut, Restarts
<1>14. CASE UNCHANGED vars
  BY <1>14 DEF vars, ramVars, headVars, opVars
<1> QED
  BY <1>1, <1>2, <1>3, <1>5, <1>6, <1>7, <1>8, <1>9, <1>10, <1>11, <1>12, <1>13,
     <1>14 DEF Next

\* Everything from the head to the end of its sector is erased, so that
\* juxta_checkpoint_write may program without looking, whatever operations fail
\* and wherever power is cut; only behind a wipe that failed half way is it not.
THEOREM HeadStaysClean == Spec => []HeadClean
<1>1. IInv /\ [Next]_vars => IInv'
  BY TypeNext, CleanNext DEF IInv
<1>2. Init => IInv
  BY TypeInit, CleanInit DEF IInv
<1>3. IInv => HeadClean
  BY DEF IInv
<1> QED BY <1>1, <1>2, <1>3, PTL DEF Spec

-----------------------------------------------------------------------------
(* No record on the shelf. *)

\* While the device is being put on the shelf the ring is disabled, no write is
\* under way, and the only wipe is the one that leaves it disabled.
Shelved ==
  shelf # "no" => /\ disabled
                  /\ op \in {"idle", "wipe"}
                  /\ op = "wipe" => ~enable

LEMMA ShelvedInit == Init => Shelved
  BY DEF Init, Shelved

LEMMA ShelvedNext ==
  ASSUME "clearshelf" \notin Env, TypeOK, Shelved, [Next]_vars
  PROVE  Shelved'
<1> USE DEF Shelved
<1>1. CASE Scan
  BY <1>1 DEF Scan, Ready, opVars
<1>2. CASE StartWrite
  BY <1>2 DEF StartWrite
<1>3. CASE EnterSector \/ ProgramSlot \/ ProgramFails \/ EraseFails
  <2>1. op \in {"erase", "program"} /\ shelf' = shelf
    BY <1>3 DEF EnterSector, ProgramSlot, ProgramFails, EraseFails
  <2> QED BY <2>1
<1>4. CASE WipeSector \/ WipeFails
  <2>1. UNCHANGED <<disabled, shelf, enable>> /\ op = "wipe" /\ op' \in {"wipe", "idle"}
    BY <1>4 DEF WipeSector, WipeFails, ramVars
  <2> QED BY <2>1, Zenon
<1>5. CASE FinishWipe
  <2>1. shelf' = shelf /\ op = "wipe" /\ op' = "idle" /\ disabled' = (disabled /\ ~enable)
    BY <1>5 DEF FinishWipe
  <2> QED BY <2>1
<1>6. CASE Reset
  BY <1>6 DEF Reset, StartWipe
<1>7. CASE Disable
  BY <1>7 DEF Disable, Ready, opVars
<1>8. CASE EraseForShelf
  <2>1. disabled' = disabled /\ op' = "wipe" /\ enable' = FALSE /\ shelf = "disabled"
    BY <1>8 DEF EraseForShelf, StartWipe, ramVars
  <2> QED BY <2>1
<1>9. CASE SystemOff \/ PowerCut
  BY <1>9 DEF SystemOff, PowerCut, Restarts
<1>10. CASE UNCHANGED vars
  BY <1>10 DEF vars, ramVars, opVars
<1> QED
  BY <1>1, <1>2, <1>3, <1>4, <1>5, <1>6, <1>7, <1>8, <1>9, <1>10 DEF Next

\* Erasing a sector, however far it gets, brings no record forth.
LEMMA ErasingOnlyRemoves ==
  ASSUME ring \in [Sec -> [Idx -> Slot]], NEW s \in Sec,
         NEW slots \in [Idx -> Slot],
         \A i \in Idx : slots[i].k = "record" => slots[i] = ring[s][i],
         ring' = [ring EXCEPT ![s] = slots]
  PROVE  ValidIn(ring') \subseteq ValidIn(ring)
  BY DEF ValidIn

LEMMA ShelvedStep ==
  ASSUME TypeOK, Shelved, [Next]_vars, shelf # "no", shelf' # "no"
  PROVE  ValidIn(ring') \subseteq ValidIn(ring)
<1>1. CASE ring' = ring
  BY <1>1
<1>2. CASE WipeSector
  <2>1. at \in Sec /\ ring' = [ring EXCEPT ![at] = BlankSector]
    BY <1>2, RingAssumption DEF WipeSector, TypeOK, Sec
  <2>2. \A i \in Idx : BlankSector[i].k = "record" => BlankSector[i] = ring[at][i]
    BY DEF BlankSector, Blank
  <2>3. ring \in [Sec -> [Idx -> Slot]] /\ BlankSector \in [Idx -> Slot]
    BY SectorTypes DEF TypeOK
  <2> QED BY <2>1, <2>2, <2>3, ErasingOnlyRemoves
<1>3. CASE WipeFails
  <2>1. PICK slots \in PartlyErased(ring[at]) : ring' = [ring EXCEPT ![at] = slots]
    BY <1>3 DEF WipeFails
  <2>2. at \in Sec /\ ring[at] \in [Idx -> Slot]
    BY <1>3, RingAssumption DEF WipeFails, TypeOK, Sec
  <2>3. slots \in [Idx -> Slot]
    BY <2>2, PartlyErasedType
  <2>4. \A i \in Idx : slots[i].k = "record" => slots[i] = ring[at][i]
    BY DEF PartlyErased, Blank, Torn
  <2> QED BY <2>1, <2>2, <2>3, <2>4, ErasingOnlyRemoves DEF TypeOK
<1>4. CASE EnterSector \/ ProgramSlot \/ ProgramFails \/ EraseFails
  BY <1>4 DEF EnterSector, ProgramSlot, ProgramFails, EraseFails, Shelved
<1>5. CASE SystemOff \/ PowerCut
  BY <1>5 DEF SystemOff, PowerCut, Restarts
<1>6. CASE Scan \/ StartWrite \/ FinishWipe \/ Reset \/ Disable \/ EraseForShelf
  BY <1>1, <1>6 DEF Scan, StartWrite, FinishWipe, Reset, Disable, EraseForShelf, StartWipe
<1>7. CASE UNCHANGED vars
  BY <1>1, <1>7 DEF vars
<1> QED BY <1>2, <1>3, <1>4, <1>5, <1>6, <1>7 DEF Next

\* When no clearMemory is pending at shelf entry, no record appears in the ring
\* between juxta_checkpoint_disable and System OFF, whatever fails.
THEOREM ShelvedStaysQuiet ==
  ASSUME "clearshelf" \notin Env
  PROVE  Spec => ShelvedRingQuiet
<1>1. TypeOK /\ Shelved /\ [Next]_vars => TypeOK' /\ Shelved'
  BY TypeNext, ShelvedNext
<1>2. Init => TypeOK /\ Shelved
  BY TypeInit, ShelvedInit
<1>3. TypeOK /\ Shelved /\ [Next]_vars
        => [shelf # "no" /\ shelf' # "no" => ValidIn(ring') \subseteq ValidIn(ring)]_vars
  BY ShelvedStep
<1> QED BY <1>1, <1>2, <1>3, PTL DEF Spec, ShelvedRingQuiet


-----------------------------------------------------------------------------
(* The newest record, and what erasing and programming do to it. *)

Rings == [Sec -> [Idx -> Slot]]

RecordAt(r, a) == r[a[1]][a[2]]

\* No two records share a number or a time.
Apart(r) ==
  \A a, b \in ValidIn(r) :
    a # b => /\ RecordAt(r, a).seq # RecordAt(r, b).seq
             /\ RecordAt(r, a).time # RecordAt(r, b).time

\* The ring q holds no record that r does not hold in the same place.
Fewer(q, r) ==
  \A a \in ValidIn(q) : a \in ValidIn(r) /\ RecordAt(q, a) = RecordAt(r, a)

LEMMA ValidType ==
  ASSUME NEW r \in Rings, NEW a \in ValidIn(r)
  PROVE  /\ a \in Sec \X Idx /\ a[1] \in Sec /\ a[2] \in Idx /\ a = <<a[1], a[2]>>
         /\ RecordAt(r, a) \in Slot /\ RecordAt(r, a).k = "record"
         /\ RecordAt(r, a).seq \in Nat /\ RecordAt(r, a).time \in 0..MaxTime
<1>1. a \in Sec \X Idx /\ r[a[1]][a[2]].k = "record"
  BY DEF ValidIn
<1>2. a[1] \in Sec /\ a[2] \in Idx /\ a = <<a[1], a[2]>>
  BY <1>1
<1>3. r[a[1]][a[2]] \in Slot
  BY <1>2 DEF Rings
<1> QED BY <1>1, <1>2, <1>3 DEF RecordAt, Slot

LEMMA NewestOrder ==
  ASSUME NEW r, NEW a \in NewestIn(r)
  PROVE  /\ a \in ValidIn(r)
         /\ \A b \in ValidIn(r) :
              \/ RecordAt(r, b).seq < RecordAt(r, a).seq
              \/ /\ RecordAt(r, b).seq = RecordAt(r, a).seq
                 /\ b[1] < a[1] \/ (b[1] = a[1] /\ b[2] <= a[2])
BY DEF NewestIn, RecordAt

LEMMA NewestUnique ==
  ASSUME NEW r \in Rings, NEW a \in NewestIn(r), NEW b \in NewestIn(r)
  PROVE  a = b
<1>1. a \in ValidIn(r) /\ b \in ValidIn(r)
  BY NewestOrder
<1>2. /\ a[1] \in Nat /\ a[2] \in Nat /\ b[1] \in Nat /\ b[2] \in Nat
      /\ a = <<a[1], a[2]>> /\ b = <<b[1], b[2]>>
      /\ RecordAt(r, a).seq \in Nat /\ RecordAt(r, b).seq \in Nat
  BY <1>1, ValidType DEF Sec, Idx
<1>3. /\ \/ RecordAt(r, b).seq < RecordAt(r, a).seq
         \/ /\ RecordAt(r, b).seq = RecordAt(r, a).seq
            /\ b[1] < a[1] \/ (b[1] = a[1] /\ b[2] <= a[2])
      /\ \/ RecordAt(r, a).seq < RecordAt(r, b).seq
         \/ /\ RecordAt(r, a).seq = RecordAt(r, b).seq
            /\ a[1] < b[1] \/ (a[1] = b[1] /\ a[2] <= b[2])
  BY <1>1, NewestOrder
<1>4. a[1] = b[1] /\ a[2] = b[2]
  BY <1>2, <1>3
<1> QED BY <1>2, <1>4

\* A record with the highest number is the newest.
LEMMA HighestIsNewest ==
  ASSUME NEW r \in Rings, NEW a \in ValidIn(r),
         \A b \in ValidIn(r) : b # a => RecordAt(r, b).seq < RecordAt(r, a).seq
  PROVE  a \in NewestIn(r)
<1>1. a[2] \in Nat
  BY ValidType DEF Idx
<1>2. a[2] <= a[2]
  BY <1>1
<1> QED BY <1>2 DEF NewestIn, RecordAt

LEMMA SmallestOf ==
  ASSUME NEW T \in SUBSET Nat, T # {}
  PROVE  \E m \in T : \A n \in T : m <= n
<1>1. \E m \in T : \A n \in T : ~(<<n, m>> \in OpToRel(<, Nat))
  BY NatLessThanWellFounded, WFMin, Zenon
<1>2. \A n, m \in Nat : n < m => <<n, m>> \in OpToRel(<, Nat)
  BY Zenon DEF OpToRel
<1>3. \A n, m \in Nat : m <= n \/ n < m
  OBVIOUS
<1> QED BY <1>1, <1>2, <1>3, Zenon

LEMMA NewestExists ==
  ASSUME NEW r \in Rings, Apart(r), ValidIn(r) # {},
         \A a \in ValidIn(r) : RecordAt(r, a).seq <= MaxTime
  PROVE  NewestIn(r) # {}
<1> DEFINE Gaps == {MaxTime - RecordAt(r, a).seq : a \in ValidIn(r)}
<1>1. \A a \in ValidIn(r) : RecordAt(r, a).seq \in Nat /\ RecordAt(r, a).seq <= MaxTime
  BY ValidType
<1>2. Gaps \in SUBSET Nat /\ Gaps # {}
  BY <1>1, BoundAssumption
<1>3. PICK m \in Gaps : \A n \in Gaps : m <= n
  BY <1>2, SmallestOf
<1>4. PICK a \in ValidIn(r) : m = MaxTime - RecordAt(r, a).seq
  BY <1>3
<1>5. ASSUME NEW b \in ValidIn(r), b # a
      PROVE  RecordAt(r, b).seq < RecordAt(r, a).seq
  <2>1. MaxTime - RecordAt(r, a).seq <= MaxTime - RecordAt(r, b).seq
    BY <1>3, <1>4
  <2>2. RecordAt(r, b).seq # RecordAt(r, a).seq
    BY <1>5 DEF Apart
  <2> QED BY <1>1, <2>1, <2>2, BoundAssumption
<1> QED BY <1>5, HighestIsNewest

LEMMA DraftOfNewest ==
  ASSUME NEW r \in Rings, NEW a \in NewestIn(r)
  PROVE  DraftIn(r) = RecordAt(r, a).time
<1> DEFINE c == CHOOSE c \in NewestIn(r) : TRUE
<1>1. c \in NewestIn(r)
  OBVIOUS
<1>2. c = a
  BY <1>1, NewestUnique
<1>3. DraftIn(r) = r[c[1]][c[2]].time
  BY DEF DraftIn
<1> QED BY <1>2, <1>3 DEF RecordAt

\* The newest record stays the newest for as long as it is there.
LEMMA NewestKept ==
  ASSUME NEW q, NEW r, Fewer(q, r), NEW a \in NewestIn(r), a \in ValidIn(q)
  PROVE  a \in NewestIn(q)
<1>1. \A b \in ValidIn(q) : b \in ValidIn(r) /\ RecordAt(q, b) = RecordAt(r, b)
  BY DEF Fewer
<1>2. RecordAt(q, a) = RecordAt(r, a)
  BY <1>1
<1>3. \A b \in ValidIn(q) :
        \/ RecordAt(q, b).seq < RecordAt(q, a).seq
        \/ /\ RecordAt(q, b).seq = RecordAt(q, a).seq
           /\ b[1] < a[1] \/ (b[1] = a[1] /\ b[2] <= a[2])
  BY <1>1, <1>2, NewestOrder
<1> QED BY <1>3 DEF NewestIn, RecordAt

\* A record that is lost while the newest stays changes nothing for a boot;
\* else one of the older ones comes to the front, or none.
LEMMA FewerDraft ==
  ASSUME NEW q \in Rings, NEW r \in Rings, Fewer(q, r), Apart(r),
         \A a \in ValidIn(r) : RecordAt(r, a).time # 0
  PROVE  \/ /\ DraftIn(q) = DraftIn(r)
            /\ TimesIn(q) \ {DraftIn(q)} \subseteq TimesIn(r) \ {DraftIn(r)}
         \/ /\ DraftIn(q) \in (TimesIn(r) \ {DraftIn(r)}) \union {0}
            /\ TimesIn(q) \ {DraftIn(q)}
                 \subseteq (TimesIn(r) \ {DraftIn(r)}) \ {DraftIn(q)}
<1>1. \A a \in ValidIn(q) : a \in ValidIn(r) /\ RecordAt(q, a) = RecordAt(r, a)
  BY DEF Fewer
<1>2. /\ TimesIn(q) = {RecordAt(q, a).time : a \in ValidIn(q)}
      /\ TimesIn(r) = {RecordAt(r, a).time : a \in ValidIn(r)}
  BY DEF TimesIn, RecordAt
<1>3. TimesIn(q) \subseteq TimesIn(r)
  BY <1>1, <1>2
<1>4. CASE DraftIn(q) = DraftIn(r)
  BY <1>3, <1>4
<1>5. CASE DraftIn(q) # DraftIn(r)
  <2>1. DraftIn(r) \notin TimesIn(q)
    <3> SUFFICES ASSUME NEW c \in ValidIn(q), RecordAt(q, c).time = DraftIn(r)
                 PROVE  FALSE
      BY <1>2
    <3>1. c \in ValidIn(r) /\ RecordAt(r, c).time = DraftIn(r)
      BY <1>1
    <3>2. NewestIn(r) # {}
      BY <3>1 DEF DraftIn
    <3>3. PICK a \in NewestIn(r) : TRUE
      BY <3>2
    <3>4. a \in ValidIn(r) /\ RecordAt(r, a).time = DraftIn(r)
      BY <3>3, NewestOrder, DraftOfNewest
    <3>5. c = a
      BY <3>1, <3>4 DEF Apart
    <3>6. a \in NewestIn(q)
      BY <3>3, <3>5, NewestKept
    <3>7. DraftIn(q) = DraftIn(r)
      BY <1>1, <3>4, <3>5, <3>6, DraftOfNewest
    <3> QED BY <1>5, <3>7
  <2>2. DraftIn(q) \in TimesIn(q) \union {0}
    <3>1. CASE NewestIn(q) = {}
      BY <3>1 DEF DraftIn
    <3>2. CASE NewestIn(q) # {}
      <4>1. PICK b \in NewestIn(q) : TRUE
        BY <3>2
      <4>2. b \in ValidIn(q) /\ DraftIn(q) = RecordAt(q, b).time
        BY <4>1, NewestOrder, DraftOfNewest
      <4> QED BY <1>2, <4>2
    <3> QED BY <3>1, <3>2
  <2> QED BY <1>3, <1>5, <2>1, <2>2
<1> QED BY <1>4, <1>5

\* Erasing a sector, however far it gets, leaves the records of the others.
LEMMA SectorErased ==
  ASSUME NEW r \in Rings, NEW s \in Sec, NEW slots \in [Idx -> Slot],
         \A i \in Idx : slots[i].k = "record" => slots[i] = r[s][i]
  PROVE  /\ [r EXCEPT ![s] = slots] \in Rings
         /\ Fewer([r EXCEPT ![s] = slots], r)
         /\ \A a \in ValidIn(r) : a[1] # s => a \in ValidIn([r EXCEPT ![s] = slots])
<1> DEFINE q == [r EXCEPT ![s] = slots]
<1>1. q \in Rings
  BY DEF Rings
<1>2. \A a \in Sec \X Idx : a[1] # s => RecordAt(q, a) = RecordAt(r, a)
  BY DEF Rings, RecordAt
<1>3. \A a \in Sec \X Idx : a[1] = s => RecordAt(q, a) = slots[a[2]] /\ a[2] \in Idx
  BY DEF Rings, RecordAt
<1>4. /\ ValidIn(r) = {a \in Sec \X Idx : RecordAt(r, a).k = "record"}
      /\ ValidIn(q) = {a \in Sec \X Idx : RecordAt(q, a).k = "record"}
  BY DEF ValidIn, RecordAt
<1> HIDE DEF q
<1>5. ASSUME NEW a \in ValidIn(q)
      PROVE  a \in ValidIn(r) /\ RecordAt(q, a) = RecordAt(r, a)
  <2>1. CASE a[1] # s
    BY <1>2, <1>4, <2>1
  <2>2. CASE a[1] = s
    <3>1. RecordAt(q, a) = slots[a[2]] /\ a[2] \in Idx /\ RecordAt(q, a).k = "record"
      BY <1>3, <1>4, <2>2
    <3>2. RecordAt(q, a) = RecordAt(r, a)
      BY <2>2, <3>1 DEF RecordAt
    <3> QED BY <1>4, <3>1, <3>2
  <2> QED BY <2>1, <2>2
<1>6. \A a \in ValidIn(r) : a[1] # s => a \in ValidIn(q)
  BY <1>2, <1>4
<1>7. Fewer(q, r)
  BY <1>5 DEF Fewer
<1> QED BY <1>1, <1>6, <1>7 DEF q

LEMMA BlankHasNone ==
  ASSUME NEW slots
  PROVE  \A i \in Idx : BlankSector[i].k = "record" => BlankSector[i] = slots[i]
BY DEF BlankSector, Blank

LEMMA PartHasNone ==
  ASSUME NEW slots, NEW s \in PartlyErased(slots)
  PROVE  \A i \in Idx : s[i].k = "record" => s[i] = slots[i]
BY DEF PartlyErased, Blank, Torn

\* A slot that is spoilt holds no record.
LEMMA SlotTorn ==
  ASSUME NEW r \in Rings, NEW s \in Sec, NEW i \in Idx
  PROVE  /\ [r EXCEPT ![s][i] = Torn] \in Rings
         /\ Fewer([r EXCEPT ![s][i] = Torn], r)
         /\ r[s][i] = Blank =>
              \A a \in ValidIn(r) : a \in ValidIn([r EXCEPT ![s][i] = Torn])
<1> DEFINE slots == [r[s] EXCEPT ![i] = Torn]
<1>1. slots \in [Idx -> Slot] /\ r[s] \in [Idx -> Slot]
  BY SlotTypes DEF Rings
<1>2. \A j \in Idx : slots[j].k = "record" => slots[j] = r[s][j]
  BY <1>1 DEF Torn
<1>3. [r EXCEPT ![s][i] = Torn] = [r EXCEPT ![s] = slots]
  BY DEF Rings
<1> DEFINE q == [r EXCEPT ![s][i] = Torn]
<1>4. ASSUME r[s][i] = Blank, NEW a \in ValidIn(r)
      PROVE  a \in ValidIn(q)
  <2>1. a \in Sec \X Idx /\ a[1] \in Sec /\ a[2] \in Idx /\ r[a[1]][a[2]].k = "record"
    BY ValidType DEF RecordAt
  <2>2. ~(a[1] = s /\ a[2] = i)
    BY <1>4, <2>1 DEF Blank
  <2>3. q[a[1]][a[2]] = r[a[1]][a[2]]
    BY <2>1, <2>2 DEF Rings
  <2> QED BY <2>1, <2>3 DEF ValidIn
<1>5. [r EXCEPT ![s] = slots] \in Rings /\ Fewer([r EXCEPT ![s] = slots], r)
  <2> HIDE DEF slots
  <2> QED BY <1>1, <1>2, SectorErased
<1> QED BY <1>3, <1>4, <1>5

\* A record with a number higher than any is the newest.
LEMMA RecordPut ==
  ASSUME ring \in Rings, sec \in Sec, idx \in Idx, ring[sec][idx] = Blank,
         seq \in Nat, now \in 0..MaxTime,
         \A a \in ValidIn(ring) : RecordAt(ring, a).seq < seq,
         ring' = [ring EXCEPT ![sec][idx] = Record(seq, now)]
  PROVE  /\ ring' \in Rings
         /\ ValidIn(ring') = ValidIn(ring) \union {<<sec, idx>>}
         /\ <<sec, idx>> \notin ValidIn(ring)
         /\ \A a \in ValidIn(ring) : RecordAt(ring', a) = RecordAt(ring, a)
         /\ RecordAt(ring', <<sec, idx>>) = Record(seq, now)
         /\ <<sec, idx>> \in NewestIn(ring')
<1>1. ring' \in Rings
  BY SlotTypes DEF Rings
<1>2. RecordAt(ring', <<sec, idx>>) = Record(seq, now)
  BY DEF Rings, RecordAt
<1>3. ASSUME NEW a \in Sec \X Idx, a # <<sec, idx>>
      PROVE  RecordAt(ring', a) = RecordAt(ring, a)
  <2>1. a[1] \in Sec /\ a[2] \in Idx /\ a = <<a[1], a[2]>>
    OBVIOUS
  <2>2. a[1] # sec \/ a[2] # idx
    BY <1>3, <2>1
  <2>3. CASE a[1] # sec
    BY <2>1, <2>3 DEF Rings, RecordAt
  <2>4. CASE a[1] = sec /\ a[2] # idx
    BY <2>1, <2>4 DEF Rings, RecordAt
  <2> QED BY <2>2, <2>3, <2>4
<1>4. /\ ValidIn(ring) = {a \in Sec \X Idx : RecordAt(ring, a).k = "record"}
      /\ ValidIn(ring') = {a \in Sec \X Idx : RecordAt(ring', a).k = "record"}
  BY DEF ValidIn, RecordAt
<1>5. Record(seq, now).k = "record" /\ Record(seq, now).seq = seq /\ Blank.k # "record"
  BY DEF Record, Blank
<1>6. RecordAt(ring, <<sec, idx>>) = Blank /\ <<sec, idx>> \in Sec \X Idx
  BY DEF RecordAt
<1>7. <<sec, idx>> \notin ValidIn(ring)
  BY <1>4, <1>5, <1>6
<1>8. ValidIn(ring') = ValidIn(ring) \union {<<sec, idx>>}
  BY <1>2, <1>3, <1>4, <1>5, <1>6
<1>9. \A a \in ValidIn(ring) : RecordAt(ring', a) = RecordAt(ring, a)
  BY <1>3, <1>4, <1>7
<1>10. <<sec, idx>> \in NewestIn(ring')
  <2>1. \A b \in ValidIn(ring') :
          b # <<sec, idx>> => RecordAt(ring', b).seq < RecordAt(ring', <<sec, idx>>).seq
    BY <1>2, <1>5, <1>8, <1>9
  <2> QED BY <1>1, <1>8, <2>1, HighestIsNewest
<1> QED BY <1>1, <1>2, <1>7, <1>8, <1>9, <1>10


-----------------------------------------------------------------------------
(* The numbers of the records. *)

\* A record is no older than its number says, and the next number is higher
\* than any in the ring; no two records share a number or a time.
Numbered ==
  /\ \A a \in ValidIn(ring) :
       /\ RecordAt(ring, a).seq <= RecordAt(ring, a).time
       /\ RecordAt(ring, a).time \in 1..now
       /\ op \in {"erase", "program"} => RecordAt(ring, a).time < now
       /\ scanned => RecordAt(ring, a).seq < seq
  /\ Apart(ring)
  /\ scanned => seq \in 1..(now + 1)
  /\ op \in {"erase", "program"} => seq <= now

WipedSoFar == op = "wipe" => \A s \in Sec : s < at => ring[s] = BlankSector

\* Steps that leave the ring alone, or take records away.
LEMMA FewerNumbered ==
  ASSUME TypeOK, Phases, Numbered, Fewer(ring', ring),
         now' = now \/ (now' = now + 1 /\ scanned),
         op' \in {"erase", "program"} => op \in {"erase", "program"} \/ now' = now + 1,
         scanned' => scanned /\ seq' = seq,
         op' \in {"erase", "program"} => scanned'
  PROVE  Numbered'
<1>1. now \in Nat /\ now' \in Nat /\ now <= now' /\ seq \in Nat
  BY DEF TypeOK
<1>2. \A a \in ValidIn(ring') :
        a \in ValidIn(ring) /\ RecordAt(ring', a) = RecordAt(ring, a)
  BY DEF Fewer
<1>3. \A a \in ValidIn(ring) : RecordAt(ring, a).time \in Nat
  BY ValidType DEF TypeOK, Rings
<1>4. ASSUME NEW a \in ValidIn(ring')
      PROVE  /\ RecordAt(ring', a).seq <= RecordAt(ring', a).time
             /\ RecordAt(ring', a).time \in 1..now'
             /\ op' \in {"erase", "program"} => RecordAt(ring', a).time < now'
             /\ scanned' => RecordAt(ring', a).seq < seq'
  <2>1. /\ RecordAt(ring, a).seq <= RecordAt(ring, a).time
        /\ RecordAt(ring, a).time \in 1..now
        /\ op \in {"erase", "program"} => RecordAt(ring, a).time < now
        /\ scanned => RecordAt(ring, a).seq < seq
    BY <1>2 DEF Numbered
  <2>2. op' \in {"erase", "program"} => RecordAt(ring, a).time < now'
    BY <1>1, <1>2, <1>3, <2>1
  <2>3. RecordAt(ring, a).time \in 1..now'
    BY <1>1, <2>1
  <2> QED BY <1>2, <2>1, <2>2, <2>3
<1>5. Apart(ring')
  BY <1>2 DEF Numbered, Apart
<1>6. ASSUME scanned'
      PROVE  seq' \in 1..(now' + 1)
  <2>1. seq' = seq /\ seq \in 1..(now + 1)
    BY <1>6 DEF Numbered
  <2>2. \A m, n, s \in Nat : m <= n /\ s \in 1..(m + 1) => s \in 1..(n + 1)
    OBVIOUS
  <2> QED BY <1>1, <2>1, <2>2, Zenon
<1>7. op' \in {"erase", "program"} => seq' <= now'
  <2> SUFFICES ASSUME op' \in {"erase", "program"} PROVE seq' <= now'
    OBVIOUS
  <2>1. seq' = seq /\ seq <= now + 1
    BY <1>1 DEF Numbered
  <2>2. CASE op \in {"erase", "program"}
    BY <1>1, <2>1, <2>2 DEF Numbered
  <2>3. CASE now' = now + 1
    BY <2>1, <2>3
  <2> QED BY <2>2, <2>3
<1> QED BY <1>4, <1>5, <1>6, <1>7 DEF Numbered

LEMMA FewerSame == \A r : Fewer(r, r)
BY DEF Fewer

\* What the steps that erase do to the ring.
LEMMA EnterFewer ==
  ASSUME TypeOK, NEW s \in Sec,
         \/ ring' = [ring EXCEPT ![s] = BlankSector]
         \/ \E slots \in PartlyErased(ring[s]) : ring' = [ring EXCEPT ![s] = slots]
  PROVE  /\ ring' \in Rings /\ Fewer(ring', ring)
         /\ \A a \in ValidIn(ring) : a[1] # s => a \in ValidIn(ring')
<1>1. ring \in Rings /\ ring[s] \in [Idx -> Slot]
  BY DEF TypeOK, Rings
<1>2. CASE ring' = [ring EXCEPT ![s] = BlankSector]
  BY <1>1, <1>2, BlankHasNone, SectorTypes, SectorErased
<1>3. CASE \E slots \in PartlyErased(ring[s]) : ring' = [ring EXCEPT ![s] = slots]
  <2>1. PICK slots \in PartlyErased(ring[s]) : ring' = [ring EXCEPT ![s] = slots]
    BY <1>3
  <2>2. slots \in [Idx -> Slot]
    BY <1>1, PartlyErasedType
  <2>3. \A i \in Idx : slots[i].k = "record" => slots[i] = ring[s][i]
    BY PartHasNone
  <2> QED BY <1>1, <2>1, <2>2, <2>3, SectorErased
<1> QED BY <1>2, <1>3

LEMMA TornFewer ==
  ASSUME TypeOK, ring' \in {ring, [ring EXCEPT ![sec][idx] = Torn]}
  PROVE  /\ ring' \in Rings /\ Fewer(ring', ring)
         /\ ring[sec][idx] = Blank => \A a \in ValidIn(ring) : a \in ValidIn(ring')
<1>1. ring \in Rings
  BY DEF TypeOK, Rings
<1> QED BY <1>1, FewerSame, SlotTorn DEF TypeOK

LEMMA NumberedInit == Init => Numbered /\ WipedSoFar
<1> SUFFICES ASSUME Init PROVE Numbered /\ WipedSoFar
  OBVIOUS
<1>1. ValidIn(ring) = {}
  BY DEF Init, ValidIn, BlankSector, Blank
<1> QED BY <1>1 DEF Init, Numbered, WipedSoFar, Apart

LEMMA CutFewer ==
  ASSUME TypeOK, PowerCut
  PROVE  /\ ring' \in Rings /\ Fewer(ring', ring)
         /\ op = "erase" =>
              \A a \in ValidIn(ring) : a[1] # sec => a \in ValidIn(ring')
         /\ op = "program" /\ ring[sec][idx] = Blank =>
              \A a \in ValidIn(ring) : a \in ValidIn(ring')
<1>1. ring \in Rings /\ sec \in Sec
  BY DEF TypeOK, Rings
<1>2. CASE ring' = ring
  BY <1>1, <1>2, FewerSame
<1>3. CASE op = "program" /\ ring' = [ring EXCEPT ![sec][idx] = Torn]
  BY <1>3, TornFewer
<1>4. CASE op = "erase" /\ \E slots \in PartlyErased(ring[sec]) :
                             ring' = [ring EXCEPT ![sec] = slots]
  BY <1>1, <1>4, EnterFewer
<1>5. CASE /\ op = "wipe" /\ at < Sectors
           /\ \E slots \in PartlyErased(ring[at]) : ring' = [ring EXCEPT ![at] = slots]
  <2>1. at \in Sec
    BY <1>5, RingAssumption DEF TypeOK, Sec
  <2> QED BY <1>5, <2>1, EnterFewer
<1> QED BY <1>2, <1>3, <1>4, <1>5 DEF PowerCut

\* Which steps of Next only take records away.
LEMMA NextFewer ==
  ASSUME TypeOK, [Next]_vars, ~ProgramSlot
  PROVE  ring' \in Rings /\ Fewer(ring', ring)
<1>1. ring \in Rings /\ sec \in Sec
  BY DEF TypeOK, Rings
<1>2. CASE ring' = ring
  BY <1>1, <1>2, FewerSame
<1>3. CASE EnterSector \/ EraseFails
  BY <1>1, <1>3, EnterFewer DEF EnterSector, EraseFails
<1>4. CASE WipeSector \/ WipeFails
  <2>1. at \in Sec
    BY <1>4, RingAssumption DEF WipeSector, WipeFails, TypeOK, Sec
  <2> QED BY <1>4, <2>1, EnterFewer DEF WipeSector, WipeFails
<1>5. CASE ProgramFails
  BY <1>5, TornFewer DEF ProgramFails
<1>6. CASE PowerCut
  BY <1>6, CutFewer
<1>7. CASE Scan \/ StartWrite \/ FinishWipe \/ Reset \/ Disable \/ EraseForShelf \/ SystemOff
  BY <1>2, <1>7 DEF Scan, StartWrite, FinishWipe, Reset, Disable, EraseForShelf, StartWipe,
                    SystemOff
<1>8. CASE UNCHANGED vars
  BY <1>2, <1>8 DEF vars
<1> QED BY <1>3, <1>4, <1>5, <1>6, <1>7, <1>8 DEF Next

\* All records have been wiped when the wipe is complete.
LEMMA WipedHasNone ==
  ASSUME TypeOK, WipedSoFar, FinishWipe
  PROVE  ValidIn(ring) = {}
<1>1. \A s \in Sec : ring[s] = BlankSector
  BY RingAssumption DEF FinishWipe, WipedSoFar, TypeOK, Sec
<1> QED BY <1>1 DEF ValidIn, BlankSector, Blank

LEMMA NumberedExists ==
  ASSUME TypeOK, Numbered, ValidIn(ring) # {}
  PROVE  NewestIn(ring) # {}
<1>1. ring \in Rings /\ Apart(ring) /\ now \in 0..MaxTime
  BY DEF TypeOK, Rings, Numbered
<1>2. ASSUME NEW a \in ValidIn(ring)
      PROVE  RecordAt(ring, a).seq <= MaxTime
  <2>1. /\ RecordAt(ring, a).seq <= RecordAt(ring, a).time
        /\ RecordAt(ring, a).time \in 1..now /\ RecordAt(ring, a).seq \in Nat
    BY <1>1, ValidType DEF Numbered
  <2> QED BY <1>1, <2>1, BoundAssumption
<1> QED BY <1>1, <1>2, NewestExists

LEMMA ScanNumbered ==
  ASSUME TypeOK, Numbered, Scan
  PROVE  Numbered'
<1>1. ring' = ring /\ op' = "idle" /\ now' = now /\ ring \in Rings /\ now \in Nat
  BY DEF Scan, Ready, opVars, envVars, TypeOK, Rings
<1>2. CASE NewestIn(ring) = {} /\ seq' = 1
  <2>1. ValidIn(ring) = {}
    BY <1>2, NumberedExists
  <2> QED BY <1>1, <1>2, <2>1 DEF Numbered, Apart
<1>3. CASE \E a \in NewestIn(ring) : seq' = ring[a[1]][a[2]].seq + 1
  <2>1. PICK a \in NewestIn(ring) : seq' = RecordAt(ring, a).seq + 1
    BY <1>3 DEF RecordAt
  <2>2. a \in ValidIn(ring) /\ RecordAt(ring, a).seq \in Nat /\ RecordAt(ring, a).time \in Nat
    BY <1>1, NewestOrder, ValidType
  <2>3. seq' \in 1..(now + 1)
    BY <1>1, <2>1, <2>2 DEF Numbered
  <2>4. ASSUME NEW b \in ValidIn(ring)
        PROVE  RecordAt(ring, b).seq < seq'
    <3>1. RecordAt(ring, b).seq \in Nat /\ RecordAt(ring, b).seq <= RecordAt(ring, a).seq
      BY <1>1, <2>2, NewestOrder, ValidType
    <3> QED BY <2>1, <2>2, <3>1
  <2> QED BY <1>1, <2>3, <2>4 DEF Numbered
<1> QED BY <1>2, <1>3 DEF Scan

\* A record is programmed into an erased slot, or what was there is spoilt.
LEMMA ProgramCases ==
  ASSUME TypeOK, ProgramSlot
  PROVE  \/ ring[sec][idx] = Blank /\ ring' = [ring EXCEPT ![sec][idx] = Record(seq, now)]
         \/ ring[sec][idx] # Blank /\ ring' = [ring EXCEPT ![sec][idx] = Torn]
<1>1. ring' = [ring EXCEPT ![sec][idx] = Programmed(ring[sec][idx], Record(seq, now))]
  BY DEF ProgramSlot
<1> QED BY <1>1 DEF Programmed

LEMMA ProgramNumbered ==
  ASSUME TypeOK, Phases, Numbered, ProgramSlot
  PROVE  Numbered'
<1>1. /\ scanned /\ scanned' = scanned /\ seq' = seq + 1 /\ op = "program" /\ op' = "idle"
      /\ now' = now /\ ring \in Rings /\ sec \in Sec /\ idx \in Idx
      /\ now \in 0..MaxTime /\ seq \in Nat /\ seq <= now /\ now \in Nat
  BY DEF ProgramSlot, Phases, TypeOK, Rings, Numbered, envVars
<1>2. CASE ring[sec][idx] = Blank /\ ring' = [ring EXCEPT ![sec][idx] = Record(seq, now)]
  <2>1. \A a \in ValidIn(ring) : RecordAt(ring, a).seq < seq
    BY <1>1 DEF Numbered
  <2>2. /\ ValidIn(ring') = ValidIn(ring) \union {<<sec, idx>>}
        /\ \A a \in ValidIn(ring) : RecordAt(ring', a) = RecordAt(ring, a)
        /\ RecordAt(ring', <<sec, idx>>) = Record(seq, now)
    BY <1>1, <1>2, <2>1, RecordPut
  <2>3. Record(seq, now).seq = seq /\ Record(seq, now).time = now
    BY DEF Record
  <2>4. \A a \in ValidIn(ring) : /\ RecordAt(ring, a).time < now
                                 /\ RecordAt(ring, a).time \in 1..now
                                 /\ RecordAt(ring, a).seq <= RecordAt(ring, a).time
                                 /\ RecordAt(ring, a).seq \in Nat
    BY <1>1, ValidType DEF Numbered
  <2>5. now > 0
    BY <1>1 DEF Numbered
  <2>6. ASSUME NEW a \in ValidIn(ring')
        PROVE  /\ RecordAt(ring', a).seq <= RecordAt(ring', a).time
               /\ RecordAt(ring', a).time \in 1..now
               /\ RecordAt(ring', a).seq < seq'
    BY <1>1, <2>1, <2>2, <2>3, <2>4, <2>5
  <2>7. Apart(ring')
    <3> SUFFICES ASSUME NEW a \in ValidIn(ring'), NEW b \in ValidIn(ring'), a # b
                 PROVE  /\ RecordAt(ring', a).seq # RecordAt(ring', b).seq
                        /\ RecordAt(ring', a).time # RecordAt(ring', b).time
      BY DEF Apart
    <3>1. CASE a \in ValidIn(ring) /\ b \in ValidIn(ring)
      BY <2>2, <3>1 DEF Numbered, Apart
    <3>2. CASE a = <<sec, idx>> /\ b \in ValidIn(ring)
      BY <1>1, <2>1, <2>2, <2>3, <2>4, <3>2
    <3>3. CASE b = <<sec, idx>> /\ a \in ValidIn(ring)
      BY <1>1, <2>1, <2>2, <2>3, <2>4, <3>3
    <3> QED BY <2>2, <3>1, <3>2, <3>3
  <2>8. seq' \in 1..(now + 1)
    BY <1>1
  <2> QED BY <1>1, <2>6, <2>7, <2>8 DEF Numbered
<1>3. CASE ring' = [ring EXCEPT ![sec][idx] = Torn]
  <2>1. Fewer(ring', ring)
    BY <1>3, TornFewer
  <2>2. \A a \in ValidIn(ring') :
          a \in ValidIn(ring) /\ RecordAt(ring', a) = RecordAt(ring, a)
    BY <2>1 DEF Fewer
  <2>3. \A a \in ValidIn(ring) : RecordAt(ring, a).seq < seq /\ RecordAt(ring, a).seq \in Nat
    BY <1>1, ValidType DEF Numbered
  <2>4. \A a \in ValidIn(ring) : RecordAt(ring, a).seq < seq'
    BY <1>1, <2>3
  <2>5. Apart(ring') /\ seq' \in 1..(now + 1)
    BY <1>1, <2>2 DEF Numbered, Apart
  <2> QED BY <1>1, <2>2, <2>4, <2>5 DEF Numbered
<1> QED BY <1>2, <1>3, ProgramCases

LEMMA NumberedNext ==
  ASSUME TypeOK, Phases, Phases', Numbered, WipedSoFar, [Next]_vars
  PROVE  Numbered'
<1>1. CASE Scan
  BY <1>1, ScanNumbered
<1>2. CASE ProgramSlot
  BY <1>2, ProgramNumbered
<1>3. CASE FinishWipe
  <2>1. ValidIn(ring) = {} /\ ring' = ring /\ seq' = 1 /\ op' = "idle" /\ now' = now
    BY <1>3, WipedHasNone DEF FinishWipe, envVars
  <2>2. now \in Nat
    BY DEF TypeOK
  <2> QED BY <2>1, <2>2 DEF Numbered, Apart
<1>4. CASE StartWrite
  <2>1. Fewer(ring', ring) /\ now' = now + 1 /\ scanned /\ scanned' /\ seq' = seq
    BY <1>4, FewerSame DEF StartWrite, ramVars, headVars
  <2> QED BY <2>1, FewerNumbered
<1>5. CASE EnterSector \/ WipeSector \/ ProgramFails \/ EraseFails \/ WipeFails \/ Reset
             \/ Disable \/ EraseForShelf
  <2>1. /\ now' = now /\ UNCHANGED <<scanned, seq>>
        /\ op' \in {"erase", "program"} => op \in {"erase", "program"}
    BY <1>5 DEF EnterSector, WipeSector, ProgramFails, EraseFails, WipeFails, Reset, Disable,
                EraseForShelf, StartWipe, Ready, ramVars, headVars, opVars, envVars
  <2>2. Fewer(ring', ring)
    <3>1. ~ProgramSlot
      BY <1>5 DEF EnterSector, WipeSector, ProgramFails, EraseFails, WipeFails, Reset,
                  Disable, EraseForShelf, StartWipe, Ready, ProgramSlot, Fault, TypeOK
    <3> QED BY <3>1, NextFewer
  <2>3. op' \in {"erase", "program"} => scanned'
    BY DEF Phases
  <2> QED BY <2>1, <2>2, <2>3, FewerNumbered
<1>6. CASE SystemOff \/ PowerCut
  <2>1. now' = now /\ ~scanned' /\ op' = "idle"
    BY <1>6 DEF SystemOff, PowerCut, Restarts, envVars
  <2>2. Fewer(ring', ring)
    BY <1>6, FewerSame, CutFewer DEF SystemOff
  <2> QED BY <2>1, <2>2, FewerNumbered
<1>7. CASE UNCHANGED vars
  <2>1. Fewer(ring', ring) /\ UNCHANGED <<now, scanned, seq, op>>
    BY <1>7, FewerSame DEF vars, ramVars, headVars, opVars, envVars
  <2> QED BY <2>1, FewerNumbered DEF Phases
<1> QED BY <1>1, <1>2, <1>3, <1>4, <1>5, <1>6, <1>7 DEF Next

LEMMA WipedNext ==
  ASSUME TypeOK, WipedSoFar, [Next]_vars
  PROVE  WipedSoFar'
<1>1. CASE WipeSector
  <2>1. /\ op = "wipe" /\ at \in Nat /\ at' = at + 1
        /\ ring' = [ring EXCEPT ![at] = BlankSector] /\ ring \in Rings
    BY <1>1 DEF WipeSector, TypeOK, Rings
  <2>2. ASSUME NEW s \in Sec, s < at'
        PROVE  ring'[s] = BlankSector
    <3>1. s \in Nat /\ (s < at \/ s = at)
      BY <2>1, <2>2 DEF Sec
    <3> QED BY <2>1, <3>1 DEF WipedSoFar, Rings
  <2> QED BY <2>2 DEF WipedSoFar
<1>2. CASE Reset \/ EraseForShelf
  <2>1. at' = 0
    BY <1>2 DEF Reset, EraseForShelf, StartWipe
  <2> QED BY <2>1 DEF WipedSoFar, Sec
<1>3. CASE Scan \/ StartWrite \/ EnterSector \/ ProgramSlot \/ FinishWipe \/ ProgramFails
             \/ EraseFails \/ WipeFails \/ SystemOff \/ PowerCut \/ Disable
  <2>1. op' # "wipe"
    BY <1>3 DEF Scan, StartWrite, EnterSector, ProgramSlot, FinishWipe, ProgramFails,
                EraseFails, WipeFails, SystemOff, PowerCut, Disable, Restarts, Ready, opVars
  <2> QED BY <2>1 DEF WipedSoFar
<1>4. CASE UNCHANGED vars
  BY <1>4 DEF vars, opVars, WipedSoFar
<1> QED BY <1>1, <1>2, <1>3, <1>4 DEF Next


-----------------------------------------------------------------------------
(* Where the newest record is. *)

\* The sectors from s on to t.
Ahead(s, t) == IF s <= t THEN t - s ELSE t + Sectors - s

LEMMA AheadFacts ==
  ASSUME NEW s \in Sec, NEW t \in Sec
  PROVE  /\ Ahead(s, t) \in Nat /\ Ahead(s, t) < Sectors
         /\ Ahead(s, t) >= 1 <=> s # t
         /\ Ahead(s, t) + 1 < Sectors => Ahead(s, Following(t)) = Ahead(s, t) + 1
BY RingAssumption DEF Ahead, Sec, Following

\* The head is at most one sector ahead of the newest record's for each program
\* that failed, and one more when it is about to enter a sector.
Anchored ==
  scanned /\ ~halfWiped /\ op # "wipe" =>
    \A a \in NewestIn(ring) :
      /\ Ahead(a[1], sec) <= faults + 1
      /\ idx # 0 => Ahead(a[1], sec) <= faults
      /\ idx = 0 => Ahead(a[1], sec) >= 1

\* Everything that is known of the ring and its head.
RInv == IInv /\ Numbered /\ WipedSoFar /\ Anchored

\* If what is lost is not the newest record, a boot finds the same.
LEMMA NewestSame ==
  ASSUME TypeOK, Numbered, ring' \in Rings, Fewer(ring', ring),
         \A a \in NewestIn(ring) : a \in ValidIn(ring')
  PROVE  NewestIn(ring') = NewestIn(ring) /\ DraftIn(ring') = DraftIn(ring)
<1>1. ring \in Rings
  BY DEF TypeOK, Rings
<1>2. CASE NewestIn(ring) = {}
  <2>1. ValidIn(ring) = {}
    BY <1>2, NumberedExists
  <2>2. ValidIn(ring') = {}
    BY <2>1 DEF Fewer
  <2>3. NewestIn(ring') = {}
    BY <2>2 DEF NewestIn
  <2> QED BY <1>2, <2>3 DEF DraftIn
<1>3. CASE NewestIn(ring) # {}
  <2>1. PICK a \in NewestIn(ring) : TRUE
    BY <1>3
  <2>2. a \in NewestIn(ring')
    BY <2>1, NewestKept
  <2>3. NewestIn(ring') = {a} /\ NewestIn(ring) = {a}
    BY <1>1, <2>1, <2>2, NewestUnique
  <2>4. RecordAt(ring', a) = RecordAt(ring, a)
    BY <2>2, NewestOrder DEF Fewer
  <2> QED BY <1>1, <2>1, <2>2, <2>3, <2>4, DraftOfNewest
<1> QED BY <1>2, <1>3

\* The sector that is entered is not the newest record's, and the slot that is
\* programmed is nobody's.
LEMMA EntrySpares ==
  ASSUME RInv, ~halfWiped, op = "erase", ring' \in Rings, Fewer(ring', ring),
         \A a \in ValidIn(ring) : a[1] # sec => a \in ValidIn(ring')
  PROVE  NewestIn(ring') = NewestIn(ring) /\ DraftIn(ring') = DraftIn(ring)
<1>1. ring \in Rings /\ sec \in Sec /\ scanned /\ idx = 0
  BY DEF RInv, IInv, TypeOK, Rings, Phases
<1>2. ASSUME NEW a \in NewestIn(ring)
      PROVE  a \in ValidIn(ring')
  <2>1. a \in ValidIn(ring) /\ a[1] \in Sec
    BY <1>1, NewestOrder, ValidType
  <2>2. Ahead(a[1], sec) >= 1
    BY <1>1 DEF RInv, Anchored
  <2> QED BY <1>1, <2>1, <2>2, AheadFacts
<1> QED BY <1>2, NewestSame DEF RInv, IInv

LEMMA ProgramSpares ==
  ASSUME RInv, ~halfWiped, op = "program", ring' \in Rings, Fewer(ring', ring),
         ring[sec][idx] = Blank => \A a \in ValidIn(ring) : a \in ValidIn(ring')
  PROVE  NewestIn(ring') = NewestIn(ring) /\ DraftIn(ring') = DraftIn(ring)
<1>1. ring[sec][idx] = Blank
  BY DEF RInv, IInv, HeadClean, Phases, TypeOK, Idx
<1>2. \A a \in NewestIn(ring) : a \in ValidIn(ring')
  BY <1>1, NewestOrder
<1> QED BY <1>2, NewestSame DEF RInv, IInv

\* The head goes on from where it is, the newest record being at most d behind.
LEMMA AdvanceAhead ==
  ASSUME TypeOK, AdvanceHead, NEW s \in Sec, Ahead(s, sec) + 1 < Sectors
  PROVE  \/ idx' # 0 /\ Ahead(s, sec') = Ahead(s, sec)
         \/ idx' = 0 /\ Ahead(s, sec') = Ahead(s, sec) + 1
<1>1. sec \in Sec /\ idx \in Nat
  BY DEF TypeOK, Idx
<1>2. CASE idx + 1 < Slots
  BY <1>1, <1>2 DEF AdvanceHead
<1>3. CASE ~(idx + 1 < Slots)
  BY <1>1, <1>3, AheadFacts DEF AdvanceHead
<1> QED BY <1>2, <1>3

LEMMA AnchoredNext ==
  ASSUME MaxFaults + 1 < Sectors, RInv, TypeOK', [Next]_vars
  PROVE  Anchored'
<1>1. /\ ring \in Rings /\ sec \in Sec /\ idx \in Nat /\ faults \in Nat /\ faults <= MaxFaults
      /\ faults' \in Nat /\ faults' <= MaxFaults /\ MaxFaults \in Nat /\ Sectors \in Nat
      /\ TypeOK /\ Phases /\ Numbered /\ Anchored
  BY BoundAssumption, RingAssumption DEF RInv, IInv, TypeOK, Rings, Idx
<1>2. CASE Scan
  <2>1. ring' = ring /\ faults' = faults
    BY <1>2 DEF Scan, envVars
  <2>2. CASE NewestIn(ring) = {}
    BY <2>1, <2>2 DEF Anchored
  <2>3. ASSUME NEW a \in NewestIn(ring),
               \/ sec' = a[1] /\ idx' = a[2] + 1
               \/ sec' = Following(a[1]) /\ idx' = 0
        PROVE  Anchored'
    <3>1. a[1] \in Sec /\ a[2] \in Nat
      BY <1>1, <2>3, NewestType DEF TypeOK, Idx
    <3>2. Ahead(a[1], a[1]) = 0 /\ Ahead(a[1], Following(a[1])) = 1
      <4>1. Ahead(a[1], a[1]) = 0
        BY <1>1, <3>1 DEF Ahead, Sec
      <4> QED BY <1>1, <3>1, <4>1, AheadFacts
    <3>3. \A b \in NewestIn(ring') : b = a
      BY <1>1, <2>1, <2>3, NewestUnique
    <3> QED BY <1>1, <2>1, <2>3, <3>1, <3>2, <3>3 DEF Anchored
  <2> QED BY <1>2, <2>2, <2>3 DEF Scan
<1>3. CASE StartWrite \/ Disable \/ UNCHANGED vars
  <2>1. UNCHANGED <<ring, scanned, halfWiped, sec, idx, faults>>
    BY <1>3 DEF StartWrite, Disable, vars, ramVars, headVars, envVars
  <2>2. op' # "wipe" => op # "wipe"
    BY <1>3 DEF StartWrite, Disable, vars, opVars, Ready
  <2> QED BY <1>1, <2>1, <2>2 DEF Anchored
<1>4. CASE EnterSector \/ EraseFails
  <2>1. /\ UNCHANGED <<scanned, halfWiped, sec, idx>> /\ faults <= faults' /\ op = "erase"
    BY <1>1, <1>4 DEF EnterSector, EraseFails, Fault, ramVars, headVars, envVars
  <2> SUFFICES ASSUME ~halfWiped
               PROVE  Anchored'
    BY <2>1 DEF Anchored
  <2>2. /\ ring' \in Rings /\ Fewer(ring', ring)
        /\ \A a \in ValidIn(ring) : a[1] # sec => a \in ValidIn(ring')
    BY <1>1, <1>4, EnterFewer DEF EnterSector, EraseFails
  <2>3. NewestIn(ring') = NewestIn(ring)
    BY <2>1, <2>2, EntrySpares
  <2>4. scanned /\ op # "wipe"
    BY <1>1, <2>1 DEF Phases
  <2>5. ASSUME NEW a \in NewestIn(ring)
        PROVE  /\ Ahead(a[1], sec) <= faults' + 1
               /\ idx # 0 => Ahead(a[1], sec) <= faults'
               /\ idx = 0 => Ahead(a[1], sec) >= 1
    <3>1. a[1] \in Sec
      BY <1>1, NewestType DEF TypeOK
    <3>2. Ahead(a[1], sec) \in Nat
      BY <1>1, <3>1, AheadFacts
    <3>3. /\ Ahead(a[1], sec) <= faults + 1
          /\ idx # 0 => Ahead(a[1], sec) <= faults
          /\ idx = 0 => Ahead(a[1], sec) >= 1
      BY <1>1, <2>4 DEF Anchored
    <3> QED BY <1>1, <2>1, <3>2, <3>3
  <2> QED BY <2>1, <2>3, <2>5 DEF Anchored
<1>5. CASE ProgramSlot
  <2>1. /\ scanned /\ UNCHANGED halfWiped /\ op = "program" /\ op' = "idle" /\ AdvanceHead
        /\ faults' = faults
    BY <1>1, <1>5 DEF ProgramSlot, Phases, envVars
  <2> SUFFICES ASSUME ~halfWiped
               PROVE  Anchored'
    BY <2>1 DEF Anchored
  <2>2. ring[sec][idx] = Blank
    BY <1>1, <2>1 DEF RInv, IInv, HeadClean, TypeOK, Idx
  <2>3. ring' = [ring EXCEPT ![sec][idx] = Record(seq, now)]
    BY <1>1, <1>5, <2>2, ProgramCases
  <2>4. \A a \in ValidIn(ring) : RecordAt(ring, a).seq < seq
    BY <1>1, <2>1 DEF Numbered
  <2>5. ring' \in Rings /\ <<sec, idx>> \in NewestIn(ring')
    BY <1>1, <2>2, <2>3, <2>4, RecordPut DEF TypeOK
  <2>6. \A b \in NewestIn(ring') : b = <<sec, idx>>
    BY <2>5, NewestUnique
  <2>7. \A b \in NewestIn(ring') : b[1] = sec
    BY <2>6
  <2>8. Ahead(sec, sec) = 0
    BY <1>1 DEF Ahead, Sec
  <2>9. \/ idx' # 0 /\ Ahead(sec, sec') = 0
        \/ idx' = 0 /\ Ahead(sec, sec') = 1
    BY <1>1, <2>1, <2>8, AdvanceAhead
  <2> QED BY <1>1, <2>1, <2>7, <2>9 DEF Anchored
<1>6. CASE ProgramFails
  <2>1. /\ scanned /\ UNCHANGED halfWiped /\ op = "program" /\ op' = "idle" /\ AdvanceHead
        /\ faults' = faults + 1
    BY <1>1, <1>6 DEF ProgramFails, Phases, Fault
  <2> SUFFICES ASSUME ~halfWiped
               PROVE  Anchored'
    BY <2>1 DEF Anchored
  <2>2. /\ ring' \in Rings /\ Fewer(ring', ring)
        /\ ring[sec][idx] = Blank => \A a \in ValidIn(ring) : a \in ValidIn(ring')
    BY <1>1, <1>6, TornFewer DEF ProgramFails
  <2>3. NewestIn(ring') = NewestIn(ring)
    BY <2>1, <2>2, ProgramSpares
  <2>4. ASSUME NEW a \in NewestIn(ring)
        PROVE  /\ Ahead(a[1], sec') <= faults' + 1
               /\ idx' # 0 => Ahead(a[1], sec') <= faults'
               /\ idx' = 0 => Ahead(a[1], sec') >= 1
    <3>1. a[1] \in Sec
      BY <1>1, NewestType DEF TypeOK
    <3>2. Ahead(a[1], sec) \in Nat /\ Ahead(a[1], sec) <= faults + 1
      BY <1>1, <2>1, <3>1, AheadFacts DEF Anchored
    <3>3. Ahead(a[1], sec) + 1 < Sectors
      BY <1>1, <2>1, <3>2
    <3>4. \/ idx' # 0 /\ Ahead(a[1], sec') = Ahead(a[1], sec)
          \/ idx' = 0 /\ Ahead(a[1], sec') = Ahead(a[1], sec) + 1
      BY <1>1, <2>1, <3>1, <3>3, AdvanceAhead
    <3> QED BY <1>1, <2>1, <3>2, <3>4
  <2> QED BY <2>3, <2>4 DEF Anchored
<1>7. CASE WipeSector \/ WipeFails \/ Reset \/ EraseForShelf
  BY <1>7 DEF WipeSector, WipeFails, Reset, EraseForShelf, StartWipe, Anchored
<1>8. CASE FinishWipe
  <2>1. ValidIn(ring) = {} /\ ring' = ring
    BY <1>1, <1>8, WipedHasNone DEF RInv, FinishWipe
  <2> QED BY <2>1 DEF Anchored, NewestIn
<1>9. CASE SystemOff \/ PowerCut
  BY <1>9 DEF SystemOff, PowerCut, Restarts, Anchored
<1> QED BY <1>2, <1>3, <1>4, <1>5, <1>6, <1>7, <1>8, <1>9 DEF Next

LEMMA RInit == Init => RInv
BY TypeInit, CleanInit, NumberedInit DEF RInv, IInv, Init, Anchored

LEMMA RNext ==
  ASSUME MaxFaults + 1 < Sectors, RInv, [Next]_vars
  PROVE  RInv'
<1>1. IInv'
  BY TypeNext, CleanNext DEF RInv, IInv
<1>2. Numbered' /\ WipedSoFar'
  BY <1>1, NumberedNext, WipedNext DEF RInv, IInv
<1>3. Anchored'
  BY <1>1, AnchoredNext DEF IInv
<1> QED BY <1>1, <1>2, <1>3 DEF RInv

\* As long as fewer operations fail than there are other sectors, a sector that
\* is erased to be entered, and one whose erase is interrupted, is never the
\* one of the record a boot would recover.
THEOREM EntrySparesTheNewest ==
  ASSUME MaxFaults + 1 < Sectors
  PROVE  Spec => EntrySparesNewest
<1>1. RInv /\ [Next]_vars => RInv'
  BY RNext
<1>2. RInv /\ [Next]_vars
        => [op = "erase" /\ ~halfWiped => DraftIn(ring') = DraftIn(ring)]_vars
  <2> SUFFICES ASSUME RInv, [Next]_vars, op = "erase", ~halfWiped
               PROVE  DraftIn(ring') = DraftIn(ring)
    OBVIOUS
  <2>1. TypeOK /\ sec \in Sec
    BY DEF RInv, IInv, TypeOK
  <2>2. CASE ring' = ring
    BY <2>2
  <2>3. CASE EnterSector \/ EraseFails \/ PowerCut
    <3>1. /\ ring' \in Rings /\ Fewer(ring', ring)
          /\ \A a \in ValidIn(ring) : a[1] # sec => a \in ValidIn(ring')
      BY <2>1, <2>3, EnterFewer, CutFewer DEF EnterSector, EraseFails
    <3> QED BY <3>1, EntrySpares
  <2>4. CASE UNCHANGED vars
    BY <2>2, <2>4 DEF vars
  <2> QED
    BY <2>2, <2>3, <2>4 DEF Next, Scan, StartWrite, ProgramSlot, WipeSector, FinishWipe,
       ProgramFails, WipeFails, Reset, Disable, EraseForShelf, SystemOff, StartWipe, Ready
<1> QED BY <1>1, <1>2, RInit, PTL DEF Spec, EntrySparesNewest

-----------------------------------------------------------------------------
(* What a boot recovers. *)

Wiping == op = "wipe" \/ halfWiped

Behind(r) == TimesIn(r) \ {DraftIn(r)}

\* A record put in the ring is what a boot would find, before what it would
\* have found till then.
LEMMA ProgramPuts ==
  ASSUME RInv, op = "program", ring[sec][idx] = Blank,
         ring' = [ring EXCEPT ![sec][idx] = Record(seq, now)]
  PROVE  /\ now \in 1..MaxTime
         /\ DraftIn(ring') = now
         /\ Behind(ring') = (Behind(ring) \union {DraftIn(ring)}) \ {0}
<1>1. /\ ring \in Rings /\ sec \in Sec /\ idx \in Idx /\ seq \in Nat /\ now \in 0..MaxTime
      /\ scanned /\ TypeOK /\ Numbered
  BY DEF RInv, IInv, TypeOK, Rings, Phases
<1>2. \A a \in ValidIn(ring) : RecordAt(ring, a).seq < seq
  BY <1>1 DEF Numbered
<1>3. /\ ring' \in Rings
      /\ ValidIn(ring') = ValidIn(ring) \union {<<sec, idx>>}
      /\ \A a \in ValidIn(ring) : RecordAt(ring', a) = RecordAt(ring, a)
      /\ RecordAt(ring', <<sec, idx>>) = Record(seq, now)
      /\ <<sec, idx>> \in NewestIn(ring')
  BY <1>1, <1>2, RecordPut
<1>4. now \in 1..MaxTime
  BY <1>1 DEF Numbered
<1>5. DraftIn(ring') = now
  BY <1>3, DraftOfNewest DEF Record
<1>6. /\ TimesIn(ring) = {RecordAt(ring, a).time : a \in ValidIn(ring)}
      /\ TimesIn(ring') = {RecordAt(ring', a).time : a \in ValidIn(ring')}
  BY DEF TimesIn, RecordAt
<1>7. TimesIn(ring') = TimesIn(ring) \union {now}
  <2>1. RecordAt(ring', <<sec, idx>>).time = now
    BY <1>3 DEF Record
  <2> QED BY <1>3, <1>6, <2>1, Zenon
<1>8. 0 \notin TimesIn(ring) /\ now \notin TimesIn(ring)
  BY <1>1, <1>6 DEF Numbered
<1>9. DraftIn(ring) \in TimesIn(ring) \union {0}
  <2>1. CASE NewestIn(ring) = {}
    BY <2>1 DEF DraftIn
  <2>2. CASE NewestIn(ring) # {}
    <3>1. PICK a \in NewestIn(ring) : TRUE
      BY <2>2
    <3>2. a \in ValidIn(ring) /\ DraftIn(ring) = RecordAt(ring, a).time
      BY <1>1, NewestOrder, DraftOfNewest
    <3> QED BY <1>6, <3>2
  <2> QED BY <2>1, <2>2
<1>10. DraftIn(ring) = 0 => TimesIn(ring) = {}
  <2> SUFFICES ASSUME TimesIn(ring) # {} PROVE DraftIn(ring) # 0
    OBVIOUS
  <2>1. ValidIn(ring) # {}
    BY <1>6
  <2>2. PICK a \in NewestIn(ring) : TRUE
    BY <1>1, <2>1, NumberedExists
  <2>3. a \in ValidIn(ring) /\ DraftIn(ring) = RecordAt(ring, a).time
    BY <1>1, NewestOrder, DraftOfNewest
  <2> QED BY <1>6, <1>8, <2>3
<1>11. Behind(ring') = TimesIn(ring)
  BY <1>5, <1>7, <1>8 DEF Behind
<1>12. (Behind(ring) \union {DraftIn(ring)}) \ {0} = TimesIn(ring)
  BY <1>8, <1>9 DEF Behind
<1> QED BY <1>4, <1>5, <1>11, <1>12

\* Outside a wipe no step but programming changes what a boot would find.
LEMMA QuietStep ==
  ASSUME RInv, TypeOK', [Next]_vars, ~Wiping,
         ~(ProgramSlot /\ ring[sec][idx] = Blank)
  PROVE  /\ DraftIn(ring') = DraftIn(ring) /\ Behind(ring') \subseteq Behind(ring)
         /\ Wiping' => ring' = ring
<1>1. TypeOK /\ Phases /\ ring \in Rings /\ sec \in Sec /\ ~halfWiped /\ op # "wipe"
  BY DEF RInv, IInv, TypeOK, Rings, Wiping
<1>2. ~ProgramSlot
  <2> SUFFICES ASSUME ProgramSlot PROVE FALSE
    OBVIOUS
  <2>1. op = "program" /\ scanned
    BY <1>1 DEF ProgramSlot, Phases
  <2>2. ring[sec][idx] = Blank
    BY <1>1, <2>1 DEF RInv, IInv, HeadClean, TypeOK, Idx
  <2> QED BY <2>2
<1>3. ring' \in Rings /\ Fewer(ring', ring)
  BY <1>1, <1>2, NextFewer
<1>4. CASE DraftIn(ring') = DraftIn(ring) /\ ~Wiping'
  <2>1. TimesIn(ring') \subseteq TimesIn(ring)
    BY <1>3 DEF TimesIn, Fewer, RecordAt
  <2> QED BY <1>4, <2>1 DEF Behind
<1>5. CASE ring' = ring
  BY <1>5
<1>6. CASE EnterSector \/ EraseFails \/ ProgramFails
  <2>1. ~Wiping'
    BY <1>1, <1>6 DEF EnterSector, EraseFails, ProgramFails, Wiping, ramVars, headVars
  <2>2. CASE op = "erase"
    <3>1. \A a \in ValidIn(ring) : a[1] # sec => a \in ValidIn(ring')
      BY <1>1, <1>6, <2>2, EnterFewer DEF EnterSector, EraseFails, ProgramFails
    <3> QED BY <1>1, <1>3, <1>4, <2>1, <2>2, <3>1, EntrySpares
  <2>3. CASE op = "program"
    <3>1. ring[sec][idx] = Blank => \A a \in ValidIn(ring) : a \in ValidIn(ring')
      BY <1>1, <1>6, <2>3, TornFewer DEF EnterSector, EraseFails, ProgramFails
    <3> QED BY <1>1, <1>3, <1>4, <2>1, <2>3, <3>1, ProgramSpares
  <2> QED BY <1>6, <2>2, <2>3 DEF EnterSector, EraseFails, ProgramFails
<1>7. CASE PowerCut
  <2>1. ~Wiping'
    BY <1>7 DEF PowerCut, Restarts, Wiping
  <2>2. CASE op = "erase"
    BY <1>1, <1>3, <1>4, <1>7, <2>1, <2>2, CutFewer, EntrySpares
  <2>3. CASE op = "program"
    BY <1>1, <1>3, <1>4, <1>7, <2>1, <2>3, CutFewer, ProgramSpares
  <2>4. CASE op \notin {"erase", "program"}
    BY <1>1, <1>5, <1>7, <2>4 DEF PowerCut
  <2> QED BY <2>2, <2>3, <2>4
<1>8. CASE Scan \/ StartWrite \/ Reset \/ Disable \/ EraseForShelf \/ SystemOff
  BY <1>5, <1>8 DEF Scan, StartWrite, Reset, Disable, EraseForShelf, StartWipe, SystemOff
<1>9. CASE WipeSector \/ FinishWipe \/ WipeFails
  BY <1>1, <1>9 DEF WipeSector, FinishWipe, WipeFails
<1>10. CASE UNCHANGED vars
  BY <1>5, <1>10 DEF vars
<1> QED BY <1>2, <1>6, <1>7, <1>8, <1>9, <1>10 DEF Next

LEMMA DraftInit == Init => Draft!Init
<1> SUFFICES ASSUME Init PROVE Draft!Init
  OBVIOUS
<1>1. ValidIn(ring) = {}
  BY DEF Init, ValidIn, BlankSector, Blank
<1>2. DraftIn(ring) = 0 /\ TimesIn(ring) = {}
  BY <1>1 DEF DraftIn, NewestIn, TimesIn
<1>3. ~(op = "wipe" \/ halfWiped)
  BY DEF Init
<1> QED BY <1>2, <1>3 DEF Draft!Init

LEMMA DraftStep ==
  ASSUME RInv, TypeOK', [Next]_vars
  PROVE  [Draft!Next]_(Draft!vars)
<1>1. TypeOK /\ ring \in Rings /\ Apart(ring) /\ \A a \in ValidIn(ring) : RecordAt(ring, a).time # 0
  BY DEF RInv, IInv, TypeOK, Rings, Numbered
<1>2. CASE ProgramSlot /\ ring[sec][idx] = Blank
  <2>1. op = "program" /\ ring' = [ring EXCEPT ![sec][idx] = Record(seq, now)]
    BY <1>1, <1>2, ProgramCases DEF ProgramSlot
  <2>2. /\ now \in 1..MaxTime
        /\ DraftIn(ring') = now
        /\ Behind(ring') = (Behind(ring) \union {DraftIn(ring)}) \ {0}
    BY <1>2, <2>1, ProgramPuts
  <2>3. Wiping' <=> Wiping
    BY <1>2, <2>1 DEF ProgramSlot, Wiping
  <2>4. Draft!Put(now)
    BY <2>2, <2>3 DEF Draft!Put, Wiping, Behind
  <2> QED BY <2>2, <2>4 DEF Draft!Next
<1>3. CASE Wiping /\ ~(ProgramSlot /\ ring[sec][idx] = Blank)
  <2>1. ring' \in Rings /\ Fewer(ring', ring)
    <3>1. CASE ProgramSlot
      BY <1>1, <1>3, <3>1, ProgramCases, TornFewer
    <3> QED BY <1>1, <3>1, NextFewer
  <2>2. CASE DraftIn(ring') = DraftIn(ring) /\ Behind(ring') \subseteq Behind(ring)
    <3>1. CASE Wiping'
      BY <1>3, <2>2, <3>1 DEF Draft!Next, Draft!Forget, Wiping, Behind
    <3>2. CASE ~Wiping'
      BY <1>3, <2>2, <3>2 DEF Draft!Next, Draft!Abandon, Wiping, Behind
    <3> QED BY <3>1, <3>2
  <2>3. CASE /\ DraftIn(ring') \in Behind(ring) \union {0}
             /\ Behind(ring') \subseteq Behind(ring) \ {DraftIn(ring')}
    BY <1>3, <2>3 DEF Draft!Next, Draft!Uncover, Wiping, Behind
  <2> QED BY <1>1, <2>1, <2>2, <2>3, FewerDraft DEF Behind
<1>4. CASE ~Wiping /\ ~(ProgramSlot /\ ring[sec][idx] = Blank)
  <2>1. /\ DraftIn(ring') = DraftIn(ring) /\ Behind(ring') \subseteq Behind(ring)
        /\ Wiping' => ring' = ring
    BY <1>4, QuietStep
  <2>2. CASE Wiping'
    BY <1>4, <2>1, <2>2 DEF Draft!Next, Draft!BeginWipe, Wiping, Behind
  <2>3. CASE ~Wiping'
    BY <1>4, <2>1, <2>3 DEF Draft!Next, Draft!Forget, Wiping, Behind
  <2> QED BY <2>2, <2>3
<1> QED BY <1>2, <1>3, <1>4

\* A boot finds the last record that was written, and nothing but a wipe brings
\* an older one back: not a power cut anywhere, and not failing operations as
\* long as they are fewer than there are other sectors.
THEOREM RingImplementsDraft ==
  ASSUME MaxFaults + 1 < Sectors
  PROVE  Spec => ImplementsDraft
<1>1. RInv /\ [Next]_vars => RInv'
  BY RNext
<1>2. RInv /\ RInv' /\ [Next]_vars => [Draft!Next]_(Draft!vars)
  BY DraftStep DEF RInv, IInv
<1> QED BY <1>1, <1>2, RInit, DraftInit, PTL DEF Spec, ImplementsDraft, Draft!Spec

=============================================================================
