-------------------------- MODULE LifecycleProofs --------------------------
(***************************************************************************)
(* Proofs about Lifecycle, for any number of boots and faults and anything *)
(* the environment may do: type correctness, and, as long as nothing has   *)
(* failed, that a session nobody has ended can be resumed after any order  *)
(* of power cuts and resets, that one that ended with System OFF is not,   *)
(* that a draft that is resumed is one of the last session, and that a     *)
(* breadcrumb is reported, and once only.                                  *)
(***************************************************************************)
EXTENDS Lifecycle, TLAPS

\* A boot starts one session at most.
OneSession ==
  pc \in {"decide", "init", "dfu", "sync", "ready"} => session < boot_count

\* Who has claimed enter_shelf_mode is in it.
OneOwner == owner = "none" <=> shelf = "no"

TInv == TypeOK /\ OneSession /\ OneOwner

\* A session that enter_shelf_mode has got hold of is no longer owed.
Ended == owner # "none" => ~owed

\* Nothing is owed in System OFF, up to the decision of the boot that ends it.
Asleep ==
  /\ pc = "off" => ~owed
  /\ pc \in {"reset", "decide"} /\ RESETREAS = "off" => ~owed

\* The ring is wiped only when nothing is owed.
Wiping == pc = "wipe" \/ wq = "wipe" => ~owed

\* Drafts are written in production only, when a session has started.
Ticks ==
  /\ ticking => pc \in {"rows", "clear", "prod", "shelf", "parked"}
  /\ pc \in {"wipe", "mode"} \/ ticking => session # 0
  /\ restored # 0 => recovery_attempted

\* From juxta_settings_init on the copy of op_mode is right, and so is op_mode.
Copied ==
  owner = "none" =>
    /\ pc \in {"sync", "ready", "wipe", "mode", "rows", "clear", "prod"} =>
         current_op_mode = op_mode
    /\ ticking /\ faults = 0 => op_mode = "prod"

RInv == Ended /\ Asleep /\ Wiping /\ Ticks /\ Copied /\ InterruptedIsResumable

-----------------------------------------------------------------------------
(* Type correctness. *)

\* Per group of actions: the numbers (Counts), the flags (Flags), and where the
\* threads are (Places).
LEMMA CountsPower ==
  ASSUME BoundAssumption, Numbers, OneSession, Power
  PROVE  (Numbers /\ OneSession)'
<1> USE DEF Numbers, OneSession
<1>1. CASE PowerCut BY <1>1 DEF PowerCut, RamLost, nvsVars
<1>2. CASE PowerOn BY <1>2 DEF PowerOn, nvsVars, copyVars, lifeVars, workVars,
  shelfVars, histVars, syncVars, resumeVars, rowVars
<1>3. CASE MagnetWakes BY <1>3 DEF MagnetWakes, nvsVars, copyVars, lifeVars, workVars,
  shelfVars, histVars, syncVars, resumeVars, rowVars
<1>4. CASE SilentReset BY <1>4 DEF SilentReset, RamLost, nvsVars
<1> QED BY <1>1, <1>2, <1>3, <1>4 DEF Power

LEMMA FlagsPower ==
  ASSUME Flags, Power
  PROVE  Flags'
<1> USE DEF Flags
<1>1. CASE PowerCut BY <1>1 DEF PowerCut, RamLost, nvsVars
<1>2. CASE PowerOn BY <1>2 DEF PowerOn, nvsVars, copyVars, lifeVars, workVars,
  shelfVars, histVars, syncVars, resumeVars, rowVars
<1>3. CASE MagnetWakes BY <1>3 DEF MagnetWakes, nvsVars, copyVars, lifeVars, workVars,
  shelfVars, histVars, syncVars, resumeVars, rowVars
<1>4. CASE SilentReset BY <1>4 DEF SilentReset, RamLost, nvsVars
<1> QED BY <1>1, <1>2, <1>3, <1>4 DEF Power

LEMMA PlacesPower ==
  ASSUME Places, OneOwner, Power
  PROVE  (Places /\ OneOwner)'
<1> USE DEF Places, Modes, OneOwner
<1>1. CASE PowerCut BY <1>1 DEF PowerCut, RamLost, nvsVars
<1>2. CASE PowerOn BY <1>2 DEF PowerOn, nvsVars, copyVars, lifeVars, workVars,
  shelfVars, histVars, syncVars, resumeVars, rowVars
<1>3. CASE MagnetWakes BY <1>3 DEF MagnetWakes, nvsVars, copyVars, lifeVars, workVars,
  shelfVars, histVars, syncVars, resumeVars, rowVars
<1>4. CASE SilentReset BY <1>4 DEF SilentReset, RamLost, nvsVars
<1> QED BY <1>1, <1>2, <1>3, <1>4 DEF Power

LEMMA CountsShelving ==
  ASSUME BoundAssumption, Numbers, OneSession, Shelving
  PROVE  (Numbers /\ OneSession)'
<1> USE DEF Numbers, OneSession
<1>1. CASE ShelfDisables BY <1>1 DEF ShelfDisables, Fault, lifeVars, workVars,
  histVars, syncVars, resumeVars, rowVars
<1>2. CASE ShelfSetsMode BY <1>2 DEF ShelfSetsMode, SetMode, Fault, lifeVars, workVars,
  syncVars, resumeVars, rowVars
<1>3. CASE ShelfErases BY <1>3 DEF ShelfErases, nvsVars, copyVars, lifeVars, workVars,
  histVars, syncVars, resumeVars, rowVars
<1>4. CASE ShelfErased BY <1>4 DEF ShelfErased, WipeEnds, Fault, nvsVars, copyVars,
  lifeVars, workVars, histVars, syncVars, resumeVars, rowVars
<1>5. CASE ShelfPowersOff BY <1>5 DEF ShelfPowersOff, RamLost, nvsVars
<1>6. CASE ShelfStuck BY <1>6 DEF ShelfStuck, Fault, nvsVars, copyVars, lifeVars,
  workVars, histVars, syncVars, resumeVars, rowVars
<1> QED BY <1>1, <1>2, <1>3, <1>4, <1>5, <1>6 DEF Shelving

LEMMA FlagsShelving ==
  ASSUME Flags, Shelving
  PROVE  Flags'
<1> USE DEF Flags
<1>1. CASE ShelfDisables BY <1>1 DEF ShelfDisables, Fault, lifeVars, workVars,
  histVars, syncVars, resumeVars, rowVars
<1>2. CASE ShelfSetsMode BY <1>2 DEF ShelfSetsMode, SetMode, Fault, lifeVars, workVars,
  syncVars, resumeVars, rowVars
<1>3. CASE ShelfErases BY <1>3 DEF ShelfErases, nvsVars, copyVars, lifeVars, workVars,
  histVars, syncVars, resumeVars, rowVars
<1>4. CASE ShelfErased BY <1>4 DEF ShelfErased, WipeEnds, Fault, nvsVars, copyVars,
  lifeVars, workVars, histVars, syncVars, resumeVars, rowVars
<1>5. CASE ShelfPowersOff BY <1>5 DEF ShelfPowersOff, RamLost, nvsVars
<1>6. CASE ShelfStuck BY <1>6 DEF ShelfStuck, Fault, nvsVars, copyVars, lifeVars,
  workVars, histVars, syncVars, resumeVars, rowVars
<1> QED BY <1>1, <1>2, <1>3, <1>4, <1>5, <1>6 DEF Shelving

LEMMA PlacesShelving ==
  ASSUME Places, OneOwner, Shelving
  PROVE  (Places /\ OneOwner)'
<1> USE DEF Places, Modes, OneOwner
<1>1. CASE ShelfDisables BY <1>1 DEF ShelfDisables, Fault, lifeVars, workVars,
  histVars, syncVars, resumeVars, rowVars
<1>2. CASE ShelfSetsMode BY <1>2 DEF ShelfSetsMode, SetMode, Fault, lifeVars, workVars,
  syncVars, resumeVars, rowVars
<1>3. CASE ShelfErases BY <1>3 DEF ShelfErases, nvsVars, copyVars, lifeVars, workVars,
  histVars, syncVars, resumeVars, rowVars
<1>4. CASE ShelfErased BY <1>4 DEF ShelfErased, WipeEnds, Fault, nvsVars, copyVars,
  lifeVars, workVars, histVars, syncVars, resumeVars, rowVars
<1>5. CASE ShelfPowersOff BY <1>5 DEF ShelfPowersOff, RamLost, nvsVars
<1>6. CASE ShelfStuck BY <1>6 DEF ShelfStuck, Fault, nvsVars, copyVars, lifeVars,
  workVars, histVars, syncVars, resumeVars, rowVars
<1> QED BY <1>1, <1>2, <1>3, <1>4, <1>5, <1>6 DEF Shelving

LEMMA CountsBooting ==
  ASSUME BoundAssumption, Numbers, OneSession, Booting
  PROVE  (Numbers /\ OneSession)'
<1> USE DEF Numbers, OneSession
<1>1. CASE StartMain BY <1>1 DEF StartMain, copyVars, lifeVars, workVars, shelfVars,
  histVars, syncVars, resumeVars, rowVars
<1>2. CASE EarlyShelf BY <1>2 DEF EarlyShelf, MainShelves, Claim, Claimed, Resumable,
  nvsVars, copyVars, lifeVars, workVars, shelfVars, syncVars, resumeVars, rowVars
<1>3. CASE PowerOnResumes BY <1>3 DEF PowerOnResumes, ToInit, Resumable, nvsVars,
  copyVars, rowVars, workVars, shelfVars, histVars
<1>4. CASE MagnetHeld BY <1>4 DEF MagnetHeld, ToInit, nvsVars, copyVars, rowVars,
  workVars, shelfVars, histVars
<1>5. CASE SilentBoots BY <1>5 DEF SilentBoots, ToInit, nvsVars, copyVars, rowVars,
  workVars, shelfVars, histVars
<1>6. CASE MagnetHeldLong BY <1>6 DEF MagnetHeldLong, SetMode, Fault, lifeVars,
  workVars, shelfVars, histVars, syncVars, resumeVars, rowVars
<1>7. CASE DfuEnds BY <1>7 DEF DfuEnds, MainShelves, Claim, Claimed, nvsVars, copyVars,
  lifeVars, workVars, shelfVars, syncVars, resumeVars, rowVars
<1>8. CASE DfuFails BY <1>8 DEF DfuFails, Fault, nvsVars, copyVars, lifeVars, workVars,
  shelfVars, histVars, syncVars, resumeVars, rowVars
<1>9. CASE RecoversSnapshot BY <1>9 DEF RecoversSnapshot, Recovers, InitEnds,
  SilentInProd, nvsVars, rowVars, workVars, shelfVars, histVars
<1>10. CASE RecoversDraft BY <1>10 DEF RecoversDraft, Recovers, InitEnds, SilentInProd,
  nvsVars, rowVars, workVars, shelfVars, histVars
<1>11. CASE RecoversNothing BY <1>11 DEF RecoversNothing, Recovers, InitEnds,
  SilentInProd, nvsVars, rowVars, workVars, shelfVars, histVars
<1>12. CASE ResumesDraft BY <1>12 DEF ResumesDraft, Recovers, InitEnds, nvsVars,
  rowVars, workVars, shelfVars, histVars
<1>13. CASE NoRecovery BY <1>13 DEF NoRecovery, InitEnds, nvsVars, rowVars, workVars,
  shelfVars, histVars
<1>14. CASE InitFails BY <1>14 DEF InitFails, Fault, nvsVars, copyVars, lifeVars,
  workVars, shelfVars, histVars, syncVars, resumeVars, rowVars
<1> QED BY <1>1, <1>2, <1>3, <1>4, <1>5, <1>6, <1>7, <1>8, <1>9, <1>10, <1>11, <1>12, <1>13, <1>14 DEF Booting

LEMMA FlagsBooting ==
  ASSUME Flags, Booting
  PROVE  Flags'
<1> USE DEF Flags
<1>1. CASE StartMain BY <1>1 DEF StartMain, copyVars, lifeVars, workVars, shelfVars,
  histVars, syncVars, resumeVars, rowVars
<1>2. CASE EarlyShelf BY <1>2 DEF EarlyShelf, MainShelves, Claim, Claimed, Resumable,
  nvsVars, copyVars, lifeVars, workVars, shelfVars, syncVars, resumeVars, rowVars
<1>3. CASE PowerOnResumes BY <1>3 DEF PowerOnResumes, ToInit, Resumable, nvsVars,
  copyVars, rowVars, workVars, shelfVars, histVars
<1>4. CASE MagnetHeld BY <1>4 DEF MagnetHeld, ToInit, nvsVars, copyVars, rowVars,
  workVars, shelfVars, histVars
<1>5. CASE SilentBoots BY <1>5 DEF SilentBoots, ToInit, nvsVars, copyVars, rowVars,
  workVars, shelfVars, histVars
<1>6. CASE MagnetHeldLong BY <1>6 DEF MagnetHeldLong, SetMode, Fault, lifeVars,
  workVars, shelfVars, histVars, syncVars, resumeVars, rowVars
<1>7. CASE DfuEnds BY <1>7 DEF DfuEnds, MainShelves, Claim, Claimed, nvsVars, copyVars,
  lifeVars, workVars, shelfVars, syncVars, resumeVars, rowVars
<1>8. CASE DfuFails BY <1>8 DEF DfuFails, Fault, nvsVars, copyVars, lifeVars, workVars,
  shelfVars, histVars, syncVars, resumeVars, rowVars
<1>9. CASE RecoversSnapshot BY <1>9 DEF RecoversSnapshot, Recovers, InitEnds,
  SilentInProd, nvsVars, rowVars, workVars, shelfVars, histVars
<1>10. CASE RecoversDraft BY <1>10 DEF RecoversDraft, Recovers, InitEnds, SilentInProd,
  nvsVars, rowVars, workVars, shelfVars, histVars
<1>11. CASE RecoversNothing BY <1>11 DEF RecoversNothing, Recovers, InitEnds,
  SilentInProd, nvsVars, rowVars, workVars, shelfVars, histVars
<1>12. CASE ResumesDraft BY <1>12 DEF ResumesDraft, Recovers, InitEnds, nvsVars,
  rowVars, workVars, shelfVars, histVars
<1>13. CASE NoRecovery BY <1>13 DEF NoRecovery, InitEnds, nvsVars, rowVars, workVars,
  shelfVars, histVars
<1>14. CASE InitFails BY <1>14 DEF InitFails, Fault, nvsVars, copyVars, lifeVars,
  workVars, shelfVars, histVars, syncVars, resumeVars, rowVars
<1> QED BY <1>1, <1>2, <1>3, <1>4, <1>5, <1>6, <1>7, <1>8, <1>9, <1>10, <1>11, <1>12, <1>13, <1>14 DEF Booting

LEMMA PlacesBooting ==
  ASSUME Places, OneOwner, Booting
  PROVE  (Places /\ OneOwner)'
<1> USE DEF Places, Modes, OneOwner
<1>1. CASE StartMain BY <1>1 DEF StartMain, copyVars, lifeVars, workVars, shelfVars,
  histVars, syncVars, resumeVars, rowVars
<1>2. CASE EarlyShelf BY <1>2 DEF EarlyShelf, MainShelves, Claim, Claimed, Resumable,
  nvsVars, copyVars, lifeVars, workVars, shelfVars, syncVars, resumeVars, rowVars
<1>3. CASE PowerOnResumes BY <1>3 DEF PowerOnResumes, ToInit, Resumable, nvsVars,
  copyVars, rowVars, workVars, shelfVars, histVars
<1>4. CASE MagnetHeld BY <1>4 DEF MagnetHeld, ToInit, nvsVars, copyVars, rowVars,
  workVars, shelfVars, histVars
<1>5. CASE SilentBoots BY <1>5 DEF SilentBoots, ToInit, nvsVars, copyVars, rowVars,
  workVars, shelfVars, histVars
<1>6. CASE MagnetHeldLong BY <1>6 DEF MagnetHeldLong, SetMode, Fault, lifeVars,
  workVars, shelfVars, histVars, syncVars, resumeVars, rowVars
<1>7. CASE DfuEnds BY <1>7 DEF DfuEnds, MainShelves, Claim, Claimed, nvsVars, copyVars,
  lifeVars, workVars, shelfVars, syncVars, resumeVars, rowVars
<1>8. CASE DfuFails BY <1>8 DEF DfuFails, Fault, nvsVars, copyVars, lifeVars, workVars,
  shelfVars, histVars, syncVars, resumeVars, rowVars
<1>9. CASE RecoversSnapshot BY <1>9 DEF RecoversSnapshot, Recovers, InitEnds,
  SilentInProd, nvsVars, rowVars, workVars, shelfVars, histVars
<1>10. CASE RecoversDraft BY <1>10 DEF RecoversDraft, Recovers, InitEnds, SilentInProd,
  nvsVars, rowVars, workVars, shelfVars, histVars
<1>11. CASE RecoversNothing BY <1>11 DEF RecoversNothing, Recovers, InitEnds,
  SilentInProd, nvsVars, rowVars, workVars, shelfVars, histVars
<1>12. CASE ResumesDraft BY <1>12 DEF ResumesDraft, Recovers, InitEnds, nvsVars,
  rowVars, workVars, shelfVars, histVars
<1>13. CASE NoRecovery BY <1>13 DEF NoRecovery, InitEnds, nvsVars, rowVars, workVars,
  shelfVars, histVars
<1>14. CASE InitFails BY <1>14 DEF InitFails, Fault, nvsVars, copyVars, lifeVars,
  workVars, shelfVars, histVars, syncVars, resumeVars, rowVars
<1> QED BY <1>1, <1>2, <1>3, <1>4, <1>5, <1>6, <1>7, <1>8, <1>9, <1>10, <1>11, <1>12, <1>13, <1>14 DEF Booting

LEMMA CountsSyncing ==
  ASSUME BoundAssumption, Numbers, OneSession, Syncing
  PROVE  (Numbers /\ OneSession)'
<1> USE DEF Numbers, OneSession
<1>1. CASE Connects BY <1>1 DEF Connects, Unchanged, resumeVars, rowVars, workVars,
  shelfVars
<1>2. CASE Disconnects BY <1>2 DEF Disconnects, Unchanged, resumeVars, rowVars,
  workVars, shelfVars
<1>3. CASE GatewaySetsClock BY <1>3 DEF GatewaySetsClock, Unchanged, resumeVars,
  rowVars, shelfVars
<1>4. CASE GatewayIdentity BY <1>4 DEF GatewayIdentity, Unchanged, LogIdentity,
  Pending, resumeVars, shelfVars
<1>5. CASE GatewayClears BY <1>5 DEF GatewayClears, Unchanged, ClearBreadcrumb, Fault,
  resumeVars, rowVars, shelfVars
<1>6. CASE GatewayRequests BY <1>6 DEF GatewayRequests, Unchanged, resumeVars, rowVars,
  shelfVars
<1>7. CASE SyncEnds BY <1>7 DEF SyncEnds, Unchanged, resumeVars, rowVars, workVars,
  shelfVars
<1> QED BY <1>1, <1>2, <1>3, <1>4, <1>5, <1>6, <1>7 DEF Syncing

LEMMA FlagsSyncing ==
  ASSUME Flags, Syncing
  PROVE  Flags'
<1> USE DEF Flags
<1>1. CASE Connects BY <1>1 DEF Connects, Unchanged, resumeVars, rowVars, workVars,
  shelfVars
<1>2. CASE Disconnects BY <1>2 DEF Disconnects, Unchanged, resumeVars, rowVars,
  workVars, shelfVars
<1>3. CASE GatewaySetsClock BY <1>3 DEF GatewaySetsClock, Unchanged, resumeVars,
  rowVars, shelfVars
<1>4. CASE GatewayIdentity BY <1>4 DEF GatewayIdentity, Unchanged, LogIdentity,
  Pending, resumeVars, shelfVars
<1>5. CASE GatewayClears BY <1>5 DEF GatewayClears, Unchanged, ClearBreadcrumb, Fault,
  resumeVars, rowVars, shelfVars
<1>6. CASE GatewayRequests BY <1>6 DEF GatewayRequests, Unchanged, resumeVars, rowVars,
  shelfVars
<1>7. CASE SyncEnds BY <1>7 DEF SyncEnds, Unchanged, resumeVars, rowVars, workVars,
  shelfVars
<1> QED BY <1>1, <1>2, <1>3, <1>4, <1>5, <1>6, <1>7 DEF Syncing

LEMMA PlacesSyncing ==
  ASSUME Places, OneOwner, Syncing
  PROVE  (Places /\ OneOwner)'
<1> USE DEF Places, Modes, OneOwner
<1>1. CASE Connects BY <1>1 DEF Connects, Unchanged, resumeVars, rowVars, workVars,
  shelfVars
<1>2. CASE Disconnects BY <1>2 DEF Disconnects, Unchanged, resumeVars, rowVars,
  workVars, shelfVars
<1>3. CASE GatewaySetsClock BY <1>3 DEF GatewaySetsClock, Unchanged, resumeVars,
  rowVars, shelfVars
<1>4. CASE GatewayIdentity BY <1>4 DEF GatewayIdentity, Unchanged, LogIdentity,
  Pending, resumeVars, shelfVars
<1>5. CASE GatewayClears BY <1>5 DEF GatewayClears, Unchanged, ClearBreadcrumb, Fault,
  resumeVars, rowVars, shelfVars
<1>6. CASE GatewayRequests
  <2>1. requested' \subseteq {"reset", "clear"}
    BY <1>6 DEF GatewayRequests
  <2> QED BY <1>6, <2>1 DEF GatewayRequests, Unchanged, resumeVars, rowVars, shelfVars
<1>7. CASE SyncEnds BY <1>7 DEF SyncEnds, Unchanged, resumeVars, rowVars, workVars,
  shelfVars
<1> QED BY <1>1, <1>2, <1>3, <1>4, <1>5, <1>6, <1>7 DEF Syncing

LEMMA CountsProducing ==
  ASSUME BoundAssumption, Numbers, OneSession, Producing
  PROVE  (Numbers /\ OneSession)'
<1> USE DEF Numbers, OneSession
<1>1. CASE Activates BY <1>1 DEF Activates, Ready, StartsSession, Wipes, nvsVars,
  copyVars, syncVars, resumeVars, rowVars, workVars, shelfVars
<1>2. CASE RingReset BY <1>2 DEF RingReset, WipeEnables, WipeEnds, Fault, nvsVars,
  copyVars, lifeVars, workVars, shelfVars, histVars, syncVars, resumeVars, rowVars
<1>3. CASE EntersProd BY <1>3 DEF EntersProd, SetMode, Fault, syncVars, resumeVars,
  rowVars, workVars, shelfVars, histVars
<1>4. CASE MainIdentity BY <1>4 DEF MainIdentity, LogIdentity, Pending, nvsVars,
  copyVars, syncVars, resumeVars, workVars, shelfVars
<1>5. CASE MainClears BY <1>5 DEF MainClears, ClearBreadcrumb, Fault, lifeVars,
  workVars, shelfVars, syncVars, resumeVars, rowVars
<1>6. CASE ProdEnds BY <1>6 DEF ProdEnds, MainShelves, Claim, Claimed, nvsVars,
  copyVars, lifeVars, workVars, shelfVars, syncVars, resumeVars, rowVars
<1>7. CASE Tick BY <1>7 DEF Tick, nvsVars, copyVars, lifeVars, workVars, shelfVars,
  histVars, syncVars, resumeVars, rowVars
<1>8. CASE Checkpoint BY <1>8 DEF Checkpoint, nvsVars, copyVars, lifeVars, workVars,
  shelfVars, syncVars, resumeVars, rowVars
<1>9. CASE WorkShelves BY <1>9 DEF WorkShelves, Claim, Claimed, nvsVars, copyVars,
  lifeVars, shelfVars, syncVars, resumeVars, rowVars
<1>10. CASE ClearBegins BY <1>10 DEF ClearBegins, nvsVars, copyVars, lifeVars,
  shelfVars, histVars, syncVars, resumeVars, rowVars
<1>11. CASE ClearWipes BY <1>11 DEF ClearWipes, nvsVars, copyVars, lifeVars, shelfVars,
  syncVars, resumeVars, rowVars
<1>12. CASE ClearEnds BY <1>12 DEF ClearEnds, WipeEnables, WipeEnds, Fault, nvsVars,
  copyVars, lifeVars, shelfVars, histVars, syncVars, resumeVars, rowVars
<1> QED BY <1>1, <1>2, <1>3, <1>4, <1>5, <1>6, <1>7, <1>8, <1>9, <1>10, <1>11, <1>12 DEF Producing

LEMMA FlagsProducing ==
  ASSUME Flags, Producing
  PROVE  Flags'
<1> USE DEF Flags
<1>1. CASE Activates BY <1>1 DEF Activates, Ready, StartsSession, Wipes, nvsVars,
  copyVars, syncVars, resumeVars, rowVars, workVars, shelfVars
<1>2. CASE RingReset BY <1>2 DEF RingReset, WipeEnables, WipeEnds, Fault, nvsVars,
  copyVars, lifeVars, workVars, shelfVars, histVars, syncVars, resumeVars, rowVars
<1>3. CASE EntersProd BY <1>3 DEF EntersProd, SetMode, Fault, syncVars, resumeVars,
  rowVars, workVars, shelfVars, histVars
<1>4. CASE MainIdentity BY <1>4 DEF MainIdentity, LogIdentity, Pending, nvsVars,
  copyVars, syncVars, resumeVars, workVars, shelfVars
<1>5. CASE MainClears BY <1>5 DEF MainClears, ClearBreadcrumb, Fault, lifeVars,
  workVars, shelfVars, syncVars, resumeVars, rowVars
<1>6. CASE ProdEnds BY <1>6 DEF ProdEnds, MainShelves, Claim, Claimed, nvsVars,
  copyVars, lifeVars, workVars, shelfVars, syncVars, resumeVars, rowVars
<1>7. CASE Tick BY <1>7 DEF Tick, nvsVars, copyVars, lifeVars, workVars, shelfVars,
  histVars, syncVars, resumeVars, rowVars
<1>8. CASE Checkpoint BY <1>8 DEF Checkpoint, nvsVars, copyVars, lifeVars, workVars,
  shelfVars, syncVars, resumeVars, rowVars
<1>9. CASE WorkShelves BY <1>9 DEF WorkShelves, Claim, Claimed, nvsVars, copyVars,
  lifeVars, shelfVars, syncVars, resumeVars, rowVars
<1>10. CASE ClearBegins BY <1>10 DEF ClearBegins, nvsVars, copyVars, lifeVars,
  shelfVars, histVars, syncVars, resumeVars, rowVars
<1>11. CASE ClearWipes BY <1>11 DEF ClearWipes, nvsVars, copyVars, lifeVars, shelfVars,
  syncVars, resumeVars, rowVars
<1>12. CASE ClearEnds BY <1>12 DEF ClearEnds, WipeEnables, WipeEnds, Fault, nvsVars,
  copyVars, lifeVars, shelfVars, histVars, syncVars, resumeVars, rowVars
<1> QED BY <1>1, <1>2, <1>3, <1>4, <1>5, <1>6, <1>7, <1>8, <1>9, <1>10, <1>11, <1>12 DEF Producing

LEMMA PlacesProducing ==
  ASSUME Places, OneOwner, Producing
  PROVE  (Places /\ OneOwner)'
<1> USE DEF Places, Modes, OneOwner
<1>1. CASE Activates BY <1>1 DEF Activates, Ready, StartsSession, Wipes, nvsVars,
  copyVars, syncVars, resumeVars, rowVars, workVars, shelfVars
<1>2. CASE RingReset BY <1>2 DEF RingReset, WipeEnables, WipeEnds, Fault, nvsVars,
  copyVars, lifeVars, workVars, shelfVars, histVars, syncVars, resumeVars, rowVars
<1>3. CASE EntersProd BY <1>3 DEF EntersProd, SetMode, Fault, syncVars, resumeVars,
  rowVars, workVars, shelfVars, histVars
<1>4. CASE MainIdentity BY <1>4 DEF MainIdentity, LogIdentity, Pending, nvsVars,
  copyVars, syncVars, resumeVars, workVars, shelfVars
<1>5. CASE MainClears BY <1>5 DEF MainClears, ClearBreadcrumb, Fault, lifeVars,
  workVars, shelfVars, syncVars, resumeVars, rowVars
<1>6. CASE ProdEnds BY <1>6 DEF ProdEnds, MainShelves, Claim, Claimed, nvsVars,
  copyVars, lifeVars, workVars, shelfVars, syncVars, resumeVars, rowVars
<1>7. CASE Tick BY <1>7 DEF Tick, nvsVars, copyVars, lifeVars, workVars, shelfVars,
  histVars, syncVars, resumeVars, rowVars
<1>8. CASE Checkpoint BY <1>8 DEF Checkpoint, nvsVars, copyVars, lifeVars, workVars,
  shelfVars, syncVars, resumeVars, rowVars
<1>9. CASE WorkShelves
  <2>1. requested' \subseteq {"reset", "clear"}
    BY <1>9 DEF WorkShelves
  <2>2. owner' \in {"none", "main", "wq"} /\ wq' \in {"shelf", "parked"} /\ OneOwner'
    BY <1>9 DEF WorkShelves, Claim, Claimed, shelfVars
  <2>3. shelf' \in {shelf, "claimed"}
    BY <1>9 DEF WorkShelves, Claim, shelfVars
  <2> QED BY <1>9, <2>1, <2>2, <2>3 DEF WorkShelves, nvsVars, copyVars
<1>10. CASE ClearBegins BY <1>10 DEF ClearBegins, nvsVars, copyVars, lifeVars,
  shelfVars, histVars, syncVars, resumeVars, rowVars
<1>11. CASE ClearWipes BY <1>11 DEF ClearWipes, nvsVars, copyVars, lifeVars, shelfVars,
  syncVars, resumeVars, rowVars
<1>12. CASE ClearEnds BY <1>12 DEF ClearEnds, WipeEnables, WipeEnds, Fault, nvsVars,
  copyVars, lifeVars, shelfVars, histVars, syncVars, resumeVars, rowVars
<1> QED BY <1>1, <1>2, <1>3, <1>4, <1>5, <1>6, <1>7, <1>8, <1>9, <1>10, <1>11, <1>12 DEF Producing

LEMMA TypesStutter ==
  ASSUME TInv, UNCHANGED vars
  PROVE  TInv'
BY DEF TInv, TypeOK, Numbers, Flags, Places, OneSession,
     OneOwner, vars, nvsVars, copyVars, lifeVars, syncVars, resumeVars, rowVars, workVars, shelfVars,
     histVars

LEMMA TypesInit == Init => TInv
<1> SUFFICES ASSUME Init PROVE TInv
  OBVIOUS
<1>1. Numbers /\ OneSession
  BY BoundAssumption DEF Init, Numbers, OneSession
<1>2. Flags
  BY DEF Init, Flags
<1>3. Places /\ OneOwner
  BY DEF Init, Places, Modes, OneOwner
<1> QED BY <1>1, <1>2, <1>3 DEF TInv, TypeOK

LEMMA TypesStep ==
  ASSUME TInv, [Next]_vars
  PROVE  TInv'
<1>1. Numbers /\ OneSession /\ Flags /\ Places /\ OneOwner
  BY DEF TInv, TypeOK
<1>2. CASE Power BY <1>1, <1>2, BoundAssumption, CountsPower, FlagsPower, PlacesPower DEF TInv, TypeOK
<1>3. CASE Shelving BY <1>1, <1>3, BoundAssumption, CountsShelving, FlagsShelving, PlacesShelving DEF TInv, TypeOK
<1>4. CASE Booting BY <1>1, <1>4, BoundAssumption, CountsBooting, FlagsBooting, PlacesBooting DEF TInv, TypeOK
<1>5. CASE Syncing BY <1>1, <1>5, BoundAssumption, CountsSyncing, FlagsSyncing, PlacesSyncing DEF TInv, TypeOK
<1>6. CASE Producing BY <1>1, <1>6, BoundAssumption, CountsProducing, FlagsProducing, PlacesProducing DEF TInv, TypeOK
<1>7. CASE UNCHANGED vars BY <1>7, TypesStutter
<1> QED BY <1>2, <1>3, <1>4, <1>5, <1>6, <1>7 DEF Next

\* Type correctness (TypeOK): for any number of boots, no session outnumbers the
\* boots, and drafts, snapshots and breadcrumbs are of sessions and boots there were.
THEOREM TypeCorrect == Spec => []TypeOK
<1>1. Init => TInv
  BY TypesInit
<1>2. TInv /\ [Next]_vars => TInv'
  BY TypesStep
<1>3. TInv => TypeOK
  BY DEF TInv
<1> QED BY <1>1, <1>2, <1>3, PTL DEF Spec

-----------------------------------------------------------------------------
(* The resume rule. *)

\* What the steps need to know of the counters.
LEMMA FaultCounts == ASSUME TInv, Fault PROVE faults' # 0
BY DEF TInv, TypeOK, Numbers, Fault

LEMMA SessionCounts ==
  TInv => session + 1 # 0 /\ (restored # 0 => session # 0)
BY BoundAssumption DEF TInv, TypeOK, Numbers

\* RInv is preserved, per group of actions.
LEMMA ResumePower ==
  ASSUME TInv, OneOwner, RInv, Power
  PROVE  RInv'
<1> USE DEF OneOwner, RInv, Ended, Asleep, Wiping, Ticks, Copied, InterruptedIsResumable
<1>1. CASE PowerCut BY <1>1 DEF PowerCut, RamLost, nvsVars
<1>2. CASE PowerOn BY <1>2 DEF PowerOn, nvsVars, copyVars, lifeVars, workVars,
  shelfVars, histVars, syncVars, resumeVars, rowVars
<1>3. CASE MagnetWakes BY <1>3 DEF MagnetWakes, nvsVars, copyVars, lifeVars, workVars,
  shelfVars, histVars, syncVars, resumeVars, rowVars
<1>4. CASE SilentReset BY <1>4 DEF SilentReset, RamLost, nvsVars
<1> QED BY <1>1, <1>2, <1>3, <1>4 DEF Power

LEMMA ResumeShelving ==
  ASSUME TInv, OneOwner, RInv, Shelving
  PROVE  RInv'
<1> USE DEF OneOwner, RInv, Ended, Asleep, Wiping, Ticks, Copied, InterruptedIsResumable
<1>1. CASE ShelfDisables BY <1>1, FaultCounts DEF ShelfDisables, lifeVars, workVars,
  histVars, syncVars, resumeVars, rowVars
<1>2. CASE ShelfSetsMode BY <1>2, FaultCounts DEF ShelfSetsMode, SetMode, lifeVars,
  workVars, syncVars, resumeVars, rowVars
<1>3. CASE ShelfErases BY <1>3 DEF ShelfErases, nvsVars, copyVars, lifeVars, workVars,
  histVars, syncVars, resumeVars, rowVars
<1>4. CASE ShelfErased BY <1>4, FaultCounts DEF ShelfErased, WipeEnds, nvsVars,
  copyVars, lifeVars, workVars, histVars, syncVars, resumeVars, rowVars
<1>5. CASE ShelfPowersOff BY <1>5 DEF ShelfPowersOff, RamLost, nvsVars
<1>6. CASE ShelfStuck BY <1>6, FaultCounts DEF ShelfStuck, nvsVars, copyVars, lifeVars,
  workVars, histVars, syncVars, resumeVars, rowVars
<1> QED BY <1>1, <1>2, <1>3, <1>4, <1>5, <1>6 DEF Shelving

LEMMA ResumeBooting ==
  ASSUME TInv, OneOwner, RInv, Booting
  PROVE  RInv'
<1> USE DEF OneOwner, RInv, Ended, Asleep, Wiping, Ticks, Copied, InterruptedIsResumable
<1>1. CASE StartMain BY <1>1 DEF StartMain, copyVars, lifeVars, workVars, shelfVars,
  histVars, syncVars, resumeVars, rowVars
<1>2. CASE EarlyShelf BY <1>2 DEF EarlyShelf, MainShelves, Claim, Claimed, Resumable,
  nvsVars, copyVars, lifeVars, workVars, shelfVars, syncVars, resumeVars, rowVars
<1>3. CASE PowerOnResumes BY <1>3 DEF PowerOnResumes, ToInit, Resumable, nvsVars,
  copyVars, rowVars, workVars, shelfVars, histVars
<1>4. CASE MagnetHeld BY <1>4 DEF MagnetHeld, ToInit, nvsVars, copyVars, rowVars,
  workVars, shelfVars, histVars
<1>5. CASE SilentBoots BY <1>5 DEF SilentBoots, ToInit, nvsVars, copyVars, rowVars,
  workVars, shelfVars, histVars
<1>6. CASE MagnetHeldLong BY <1>6, FaultCounts DEF MagnetHeldLong, SetMode, lifeVars,
  workVars, shelfVars, histVars, syncVars, resumeVars, rowVars
<1>7. CASE DfuEnds BY <1>7 DEF DfuEnds, MainShelves, Claim, Claimed, nvsVars, copyVars,
  lifeVars, workVars, shelfVars, syncVars, resumeVars, rowVars
<1>8. CASE DfuFails BY <1>8, FaultCounts DEF DfuFails, nvsVars, copyVars, lifeVars,
  workVars, shelfVars, histVars, syncVars, resumeVars, rowVars
<1>9. CASE RecoversSnapshot BY <1>9 DEF RecoversSnapshot, Recovers, InitEnds,
  SilentInProd, nvsVars, rowVars, workVars, shelfVars, histVars
<1>10. CASE RecoversDraft BY <1>10 DEF RecoversDraft, Recovers, InitEnds, SilentInProd,
  nvsVars, rowVars, workVars, shelfVars, histVars
<1>11. CASE RecoversNothing BY <1>11 DEF RecoversNothing, Recovers, InitEnds,
  SilentInProd, nvsVars, rowVars, workVars, shelfVars, histVars
<1>12. CASE ResumesDraft BY <1>12 DEF ResumesDraft, Recovers, InitEnds, nvsVars,
  rowVars, workVars, shelfVars, histVars
<1>13. CASE NoRecovery BY <1>13 DEF NoRecovery, InitEnds, nvsVars, rowVars, workVars,
  shelfVars, histVars
<1>14. CASE InitFails BY <1>14, FaultCounts DEF InitFails, nvsVars, copyVars, lifeVars,
  workVars, shelfVars, histVars, syncVars, resumeVars, rowVars
<1> QED BY <1>1, <1>2, <1>3, <1>4, <1>5, <1>6, <1>7, <1>8, <1>9, <1>10, <1>11, <1>12, <1>13, <1>14 DEF Booting

LEMMA ResumeSyncing ==
  ASSUME TInv, OneOwner, RInv, Syncing
  PROVE  RInv'
<1> USE DEF OneOwner, RInv, Ended, Asleep, Wiping, Ticks, Copied, InterruptedIsResumable
<1>1. CASE Connects BY <1>1 DEF Connects, Unchanged, resumeVars, rowVars, workVars,
  shelfVars
<1>2. CASE Disconnects BY <1>2 DEF Disconnects, Unchanged, resumeVars, rowVars,
  workVars, shelfVars
<1>3. CASE GatewaySetsClock BY <1>3 DEF GatewaySetsClock, Unchanged, resumeVars,
  rowVars, shelfVars
<1>4. CASE GatewayIdentity BY <1>4 DEF GatewayIdentity, Unchanged, LogIdentity,
  Pending, resumeVars, shelfVars
<1>5. CASE GatewayClears BY <1>5, FaultCounts DEF GatewayClears, Unchanged,
  ClearBreadcrumb, resumeVars, rowVars, shelfVars
<1>6. CASE GatewayRequests BY <1>6 DEF GatewayRequests, Unchanged, resumeVars, rowVars,
  shelfVars
<1>7. CASE SyncEnds BY <1>7 DEF SyncEnds, Unchanged, resumeVars, rowVars, workVars,
  shelfVars
<1> QED BY <1>1, <1>2, <1>3, <1>4, <1>5, <1>6, <1>7 DEF Syncing

LEMMA ResumeProducing ==
  ASSUME TInv, OneOwner, RInv, Producing
  PROVE  RInv'
<1> USE DEF OneOwner, RInv, Ended, Asleep, Wiping, Ticks, Copied, InterruptedIsResumable
<1>1. CASE Activates BY <1>1, SessionCounts DEF Activates, Ready, StartsSession, Wipes,
  nvsVars, copyVars, syncVars, resumeVars, rowVars, workVars, shelfVars
<1>2. CASE RingReset BY <1>2, FaultCounts DEF RingReset, WipeEnables, WipeEnds,
  nvsVars, copyVars, lifeVars, workVars, shelfVars, histVars, syncVars, resumeVars,
  rowVars
<1>3. CASE EntersProd BY <1>3, FaultCounts DEF EntersProd, SetMode, syncVars,
  resumeVars, rowVars, workVars, shelfVars, histVars
<1>4. CASE MainIdentity BY <1>4 DEF MainIdentity, LogIdentity, Pending, nvsVars,
  copyVars, syncVars, resumeVars, workVars, shelfVars
<1>5. CASE MainClears BY <1>5, FaultCounts DEF MainClears, ClearBreadcrumb, lifeVars,
  workVars, shelfVars, syncVars, resumeVars, rowVars
<1>6. CASE ProdEnds BY <1>6 DEF ProdEnds, MainShelves, Claim, Claimed, nvsVars,
  copyVars, lifeVars, workVars, shelfVars, syncVars, resumeVars, rowVars
<1>7. CASE Tick BY <1>7 DEF Tick, nvsVars, copyVars, lifeVars, workVars, shelfVars,
  histVars, syncVars, resumeVars, rowVars
<1>8. CASE Checkpoint BY <1>8 DEF Checkpoint, nvsVars, copyVars, lifeVars, workVars,
  shelfVars, syncVars, resumeVars, rowVars
<1>9. CASE WorkShelves BY <1>9 DEF WorkShelves, Claim, Claimed, nvsVars, copyVars,
  lifeVars, shelfVars, syncVars, resumeVars, rowVars
<1>10. CASE ClearBegins BY <1>10 DEF ClearBegins, nvsVars, copyVars, lifeVars,
  shelfVars, histVars, syncVars, resumeVars, rowVars
<1>11. CASE ClearWipes BY <1>11 DEF ClearWipes, nvsVars, copyVars, lifeVars, shelfVars,
  syncVars, resumeVars, rowVars
<1>12. CASE ClearEnds BY <1>12, FaultCounts DEF ClearEnds, WipeEnables, WipeEnds,
  nvsVars, copyVars, lifeVars, shelfVars, histVars, syncVars, resumeVars, rowVars
<1> QED BY <1>1, <1>2, <1>3, <1>4, <1>5, <1>6, <1>7, <1>8, <1>9, <1>10, <1>11, <1>12 DEF Producing

LEMMA ResumeStutter ==
  ASSUME RInv, UNCHANGED vars
  PROVE  RInv'
BY DEF RInv, Ended, Asleep, Wiping, Ticks, Copied, InterruptedIsResumable,
     vars, nvsVars, copyVars, lifeVars, syncVars, resumeVars, rowVars, workVars, shelfVars,
     histVars

-----------------------------------------------------------------------------
(* What System OFF ends. *)

\* The thread that has claimed enter_shelf_mode is the one that is in it.
Whose ==
  /\ owner = "main" => pc = "shelf"
  /\ owner = "wq" => wq = "shelf"

\* System OFF leaves no snapshot, and no draft that op_mode would let a boot use.
Gone ==
  ending = "off" /\ faults = 0 => retained = 0 /\ (op_mode # "prod" \/ draft = 0)

\* A session that runs, or is resumed, did not end with System OFF.
Open ==
  (pc \in {"wipe", "mode"} \/ ticking \/ restored # 0) /\ faults = 0 => ending # "off"

\* The erase is final, except for the main thread leaving production: there the
\* workqueue may write once more, but then op_mode is right.
Erased ==
  faults = 0 =>
    /\ shelf = "erased" /\ (owner = "wq" \/ ~ticking) => draft = 0
    /\ owner = "main" /\ ticking =>
         IF shelf \in {"claimed", "disabled"}
           THEN current_op_mode = op_mode
           ELSE op_mode # "prod"

OInv == Whose /\ Gone /\ Open /\ Erased

\* OInv is preserved, per group of actions.
LEMMA OffPower ==
  ASSUME TInv, OneOwner, RInv, OInv, Power
  PROVE  OInv'
<1> USE DEF OneOwner, RInv, Ticks, Copied, OInv, Whose, Gone, Open, Erased
<1>1. CASE PowerCut BY <1>1 DEF PowerCut, RamLost, nvsVars
<1>2. CASE PowerOn BY <1>2 DEF PowerOn, nvsVars, copyVars, lifeVars, workVars,
  shelfVars, histVars, syncVars, resumeVars, rowVars
<1>3. CASE MagnetWakes BY <1>3 DEF MagnetWakes, nvsVars, copyVars, lifeVars, workVars,
  shelfVars, histVars, syncVars, resumeVars, rowVars
<1>4. CASE SilentReset BY <1>4 DEF SilentReset, RamLost, nvsVars
<1> QED BY <1>1, <1>2, <1>3, <1>4 DEF Power

LEMMA OffShelving ==
  ASSUME TInv, OneOwner, RInv, OInv, Shelving
  PROVE  OInv'
<1> USE DEF OneOwner, RInv, Ticks, Copied, OInv, Whose, Gone, Open, Erased
<1>1. CASE ShelfDisables BY <1>1, FaultCounts DEF ShelfDisables, lifeVars, workVars,
  histVars, syncVars, resumeVars, rowVars
<1>2. CASE ShelfSetsMode BY <1>2, FaultCounts DEF ShelfSetsMode, SetMode, lifeVars,
  workVars, syncVars, resumeVars, rowVars
<1>3. CASE ShelfErases BY <1>3 DEF ShelfErases, nvsVars, copyVars, lifeVars, workVars,
  histVars, syncVars, resumeVars, rowVars
<1>4. CASE ShelfErased BY <1>4, FaultCounts DEF ShelfErased, WipeEnds, nvsVars,
  copyVars, lifeVars, workVars, histVars, syncVars, resumeVars, rowVars
<1>5. CASE ShelfPowersOff
  <2>1. owner \in {"none", "main", "wq"}
    BY DEF TInv, TypeOK, Places
  <2> QED BY <1>5, <2>1 DEF ShelfPowersOff, RamLost, nvsVars
<1>6. CASE ShelfStuck BY <1>6, FaultCounts DEF ShelfStuck, nvsVars, copyVars, lifeVars,
  workVars, histVars, syncVars, resumeVars, rowVars
<1> QED BY <1>1, <1>2, <1>3, <1>4, <1>5, <1>6 DEF Shelving

LEMMA OffBooting ==
  ASSUME TInv, OneOwner, RInv, OInv, Booting
  PROVE  OInv'
<1> USE DEF OneOwner, RInv, Ticks, Copied, OInv, Whose, Gone, Open, Erased
<1>1. CASE StartMain BY <1>1 DEF StartMain, copyVars, lifeVars, workVars, shelfVars,
  histVars, syncVars, resumeVars, rowVars
<1>2. CASE EarlyShelf BY <1>2 DEF EarlyShelf, MainShelves, Claim, Claimed, Resumable,
  nvsVars, copyVars, lifeVars, workVars, shelfVars, syncVars, resumeVars, rowVars
<1>3. CASE PowerOnResumes BY <1>3 DEF PowerOnResumes, ToInit, Resumable, nvsVars,
  copyVars, rowVars, workVars, shelfVars, histVars
<1>4. CASE MagnetHeld BY <1>4 DEF MagnetHeld, ToInit, nvsVars, copyVars, rowVars,
  workVars, shelfVars, histVars
<1>5. CASE SilentBoots BY <1>5 DEF SilentBoots, ToInit, nvsVars, copyVars, rowVars,
  workVars, shelfVars, histVars
<1>6. CASE MagnetHeldLong BY <1>6, FaultCounts DEF MagnetHeldLong, SetMode, lifeVars,
  workVars, shelfVars, histVars, syncVars, resumeVars, rowVars
<1>7. CASE DfuEnds BY <1>7 DEF DfuEnds, MainShelves, Claim, Claimed, nvsVars, copyVars,
  lifeVars, workVars, shelfVars, syncVars, resumeVars, rowVars
<1>8. CASE DfuFails BY <1>8, FaultCounts DEF DfuFails, nvsVars, copyVars, lifeVars,
  workVars, shelfVars, histVars, syncVars, resumeVars, rowVars
<1>9. CASE RecoversSnapshot BY <1>9 DEF RecoversSnapshot, Recovers, InitEnds,
  SilentInProd, nvsVars, rowVars, workVars, shelfVars, histVars
<1>10. CASE RecoversDraft BY <1>10 DEF RecoversDraft, Recovers, InitEnds, SilentInProd,
  nvsVars, rowVars, workVars, shelfVars, histVars
<1>11. CASE RecoversNothing BY <1>11 DEF RecoversNothing, Recovers, InitEnds,
  SilentInProd, nvsVars, rowVars, workVars, shelfVars, histVars
<1>12. CASE ResumesDraft BY <1>12 DEF ResumesDraft, Recovers, InitEnds, nvsVars,
  rowVars, workVars, shelfVars, histVars
<1>13. CASE NoRecovery BY <1>13 DEF NoRecovery, InitEnds, nvsVars, rowVars, workVars,
  shelfVars, histVars
<1>14. CASE InitFails BY <1>14, FaultCounts DEF InitFails, nvsVars, copyVars, lifeVars,
  workVars, shelfVars, histVars, syncVars, resumeVars, rowVars
<1> QED BY <1>1, <1>2, <1>3, <1>4, <1>5, <1>6, <1>7, <1>8, <1>9, <1>10, <1>11, <1>12, <1>13, <1>14 DEF Booting

LEMMA OffSyncing ==
  ASSUME TInv, OneOwner, RInv, OInv, Syncing
  PROVE  OInv'
<1> USE DEF OneOwner, RInv, Ticks, Copied, OInv, Whose, Gone, Open, Erased
<1>1. CASE Connects BY <1>1 DEF Connects, Unchanged, resumeVars, rowVars, workVars,
  shelfVars
<1>2. CASE Disconnects BY <1>2 DEF Disconnects, Unchanged, resumeVars, rowVars,
  workVars, shelfVars
<1>3. CASE GatewaySetsClock BY <1>3 DEF GatewaySetsClock, Unchanged, resumeVars,
  rowVars, shelfVars
<1>4. CASE GatewayIdentity BY <1>4 DEF GatewayIdentity, Unchanged, LogIdentity,
  Pending, resumeVars, shelfVars
<1>5. CASE GatewayClears BY <1>5, FaultCounts DEF GatewayClears, Unchanged,
  ClearBreadcrumb, resumeVars, rowVars, shelfVars
<1>6. CASE GatewayRequests BY <1>6 DEF GatewayRequests, Unchanged, resumeVars, rowVars,
  shelfVars
<1>7. CASE SyncEnds BY <1>7 DEF SyncEnds, Unchanged, resumeVars, rowVars, workVars,
  shelfVars
<1> QED BY <1>1, <1>2, <1>3, <1>4, <1>5, <1>6, <1>7 DEF Syncing

LEMMA OffProducing ==
  ASSUME TInv, OneOwner, RInv, OInv, Producing
  PROVE  OInv'
<1> USE DEF OneOwner, RInv, Ticks, Copied, OInv, Whose, Gone, Open, Erased
<1>1. CASE Activates BY <1>1, SessionCounts DEF Activates, Ready, StartsSession, Wipes,
  nvsVars, copyVars, syncVars, resumeVars, rowVars, workVars, shelfVars
<1>2. CASE RingReset BY <1>2, FaultCounts DEF RingReset, WipeEnables, WipeEnds,
  nvsVars, copyVars, lifeVars, workVars, shelfVars, histVars, syncVars, resumeVars,
  rowVars
<1>3. CASE EntersProd BY <1>3, FaultCounts DEF EntersProd, SetMode, syncVars,
  resumeVars, rowVars, workVars, shelfVars, histVars
<1>4. CASE MainIdentity BY <1>4 DEF MainIdentity, LogIdentity, Pending, nvsVars,
  copyVars, syncVars, resumeVars, workVars, shelfVars
<1>5. CASE MainClears BY <1>5, FaultCounts DEF MainClears, ClearBreadcrumb, lifeVars,
  workVars, shelfVars, syncVars, resumeVars, rowVars
<1>6. CASE ProdEnds BY <1>6 DEF ProdEnds, MainShelves, Claim, Claimed, nvsVars,
  copyVars, lifeVars, workVars, shelfVars, syncVars, resumeVars, rowVars
<1>7. CASE Tick BY <1>7 DEF Tick, nvsVars, copyVars, lifeVars, workVars, shelfVars,
  histVars, syncVars, resumeVars, rowVars
<1>8. CASE Checkpoint BY <1>8 DEF Checkpoint, nvsVars, copyVars, lifeVars, workVars,
  shelfVars, syncVars, resumeVars, rowVars
<1>9. CASE WorkShelves BY <1>9 DEF WorkShelves, Claim, Claimed, nvsVars, copyVars,
  lifeVars, shelfVars, syncVars, resumeVars, rowVars
<1>10. CASE ClearBegins BY <1>10 DEF ClearBegins, nvsVars, copyVars, lifeVars,
  shelfVars, histVars, syncVars, resumeVars, rowVars
<1>11. CASE ClearWipes BY <1>11 DEF ClearWipes, nvsVars, copyVars, lifeVars, shelfVars,
  syncVars, resumeVars, rowVars
<1>12. CASE ClearEnds BY <1>12, FaultCounts DEF ClearEnds, WipeEnables, WipeEnds,
  nvsVars, copyVars, lifeVars, shelfVars, histVars, syncVars, resumeVars, rowVars
<1> QED BY <1>1, <1>2, <1>3, <1>4, <1>5, <1>6, <1>7, <1>8, <1>9, <1>10, <1>11, <1>12 DEF Producing

LEMMA OffStutter ==
  ASSUME OInv, UNCHANGED vars
  PROVE  OInv'
BY DEF OInv, Whose, Gone, Open, Erased, vars, nvsVars, copyVars, lifeVars, syncVars,
     resumeVars, rowVars, workVars, shelfVars, histVars

-----------------------------------------------------------------------------
(* Which session a draft is of. *)

\* System OFF ends a life, and the boot that follows it knows.
Woken ==
  /\ pc = "off" => ending = "off"
  /\ pc \in {"reset", "decide", "dfu", "init"} /\ RESETREAS = "off" => ending = "off"
  /\ pc = "dfu" => RESETREAS = "off"
  /\ pc \in {"dead", "off", "reset", "decide", "dfu", "init"} => ~recovery_attempted
  /\ pc = "init" /\ RESETREAS = "por" => por_resume

\* A draft that op_mode lets a boot use is one of the last session.
Newest == op_mode = "prod" /\ faults = 0 => draft \in {0, session}

\* Before a session starts, drafts of older ones are gone or about to be wiped.
Entering ==
  faults = 0 =>
    /\ pc \in {"sync", "ready"} =>
         IF recovery_attempted
           THEN draft \in {0, session} /\ (restored = 0 => draft = 0)
           ELSE op_mode = "prod" => draft = 0
    /\ pc = "mode" => draft \in {0, session}

NInv == Woken /\ Newest /\ Entering

\* NInv is preserved, per group of actions.
LEMMA NewestPower ==
  ASSUME TInv, OneOwner, RInv, OInv, NInv, Power
  PROVE  NInv'
<1> USE DEF OneOwner, RInv, Ticks, Copied, OInv, Gone, Open, NInv, Woken, Newest, Entering
<1>1. CASE PowerCut BY <1>1 DEF PowerCut, RamLost, nvsVars
<1>2. CASE PowerOn BY <1>2 DEF PowerOn, nvsVars, copyVars, lifeVars, workVars,
  shelfVars, histVars, syncVars, resumeVars, rowVars
<1>3. CASE MagnetWakes BY <1>3 DEF MagnetWakes, nvsVars, copyVars, lifeVars, workVars,
  shelfVars, histVars, syncVars, resumeVars, rowVars
<1>4. CASE SilentReset BY <1>4 DEF SilentReset, RamLost, nvsVars
<1> QED BY <1>1, <1>2, <1>3, <1>4 DEF Power

LEMMA NewestShelving ==
  ASSUME TInv, OneOwner, RInv, OInv, NInv, Shelving
  PROVE  NInv'
<1> USE DEF OneOwner, RInv, Ticks, Copied, OInv, Gone, Open, NInv, Woken, Newest, Entering
<1>1. CASE ShelfDisables BY <1>1, FaultCounts DEF ShelfDisables, lifeVars, workVars,
  histVars, syncVars, resumeVars, rowVars
<1>2. CASE ShelfSetsMode BY <1>2, FaultCounts DEF ShelfSetsMode, SetMode, lifeVars,
  workVars, syncVars, resumeVars, rowVars
<1>3. CASE ShelfErases BY <1>3 DEF ShelfErases, nvsVars, copyVars, lifeVars, workVars,
  histVars, syncVars, resumeVars, rowVars
<1>4. CASE ShelfErased BY <1>4, FaultCounts DEF ShelfErased, WipeEnds, nvsVars,
  copyVars, lifeVars, workVars, histVars, syncVars, resumeVars, rowVars
<1>5. CASE ShelfPowersOff BY <1>5 DEF ShelfPowersOff, RamLost, nvsVars
<1>6. CASE ShelfStuck BY <1>6, FaultCounts DEF ShelfStuck, nvsVars, copyVars, lifeVars,
  workVars, histVars, syncVars, resumeVars, rowVars
<1> QED BY <1>1, <1>2, <1>3, <1>4, <1>5, <1>6 DEF Shelving

LEMMA NewestBooting ==
  ASSUME TInv, OneOwner, RInv, OInv, NInv, Booting
  PROVE  NInv'
<1> USE DEF OneOwner, RInv, Ticks, Copied, OInv, Gone, Open, NInv, Woken, Newest, Entering
<1>1. CASE StartMain BY <1>1 DEF StartMain, copyVars, lifeVars, workVars, shelfVars,
  histVars, syncVars, resumeVars, rowVars
<1>2. CASE EarlyShelf BY <1>2 DEF EarlyShelf, MainShelves, Claim, Claimed, Resumable,
  nvsVars, copyVars, lifeVars, workVars, shelfVars, syncVars, resumeVars, rowVars
<1>3. CASE PowerOnResumes BY <1>3 DEF PowerOnResumes, ToInit, Resumable, nvsVars,
  copyVars, rowVars, workVars, shelfVars, histVars
<1>4. CASE MagnetHeld BY <1>4 DEF MagnetHeld, ToInit, nvsVars, copyVars, rowVars,
  workVars, shelfVars, histVars
<1>5. CASE SilentBoots BY <1>5 DEF SilentBoots, ToInit, nvsVars, copyVars, rowVars,
  workVars, shelfVars, histVars
<1>6. CASE MagnetHeldLong BY <1>6, FaultCounts DEF MagnetHeldLong, SetMode, lifeVars,
  workVars, shelfVars, histVars, syncVars, resumeVars, rowVars
<1>7. CASE DfuEnds BY <1>7 DEF DfuEnds, MainShelves, Claim, Claimed, nvsVars, copyVars,
  lifeVars, workVars, shelfVars, syncVars, resumeVars, rowVars
<1>8. CASE DfuFails BY <1>8, FaultCounts DEF DfuFails, nvsVars, copyVars, lifeVars,
  workVars, shelfVars, histVars, syncVars, resumeVars, rowVars
<1>9. CASE RecoversSnapshot BY <1>9 DEF RecoversSnapshot, Recovers, InitEnds,
  SilentInProd, nvsVars, rowVars, workVars, shelfVars, histVars
<1>10. CASE RecoversDraft BY <1>10 DEF RecoversDraft, Recovers, InitEnds, SilentInProd,
  nvsVars, rowVars, workVars, shelfVars, histVars
<1>11. CASE RecoversNothing BY <1>11 DEF RecoversNothing, Recovers, InitEnds,
  SilentInProd, nvsVars, rowVars, workVars, shelfVars, histVars
<1>12. CASE ResumesDraft BY <1>12 DEF ResumesDraft, Recovers, InitEnds, nvsVars,
  rowVars, workVars, shelfVars, histVars
<1>13. CASE NoRecovery
  <2>1. RESETREAS \in {"por", "off", "silent"}
    BY DEF TInv, TypeOK, Places
  <2> QED BY <1>13, <2>1 DEF NoRecovery, SilentInProd, InitEnds, nvsVars, rowVars, workVars,
         shelfVars, histVars
<1>14. CASE InitFails BY <1>14, FaultCounts DEF InitFails, nvsVars, copyVars, lifeVars,
  workVars, shelfVars, histVars, syncVars, resumeVars, rowVars
<1> QED BY <1>1, <1>2, <1>3, <1>4, <1>5, <1>6, <1>7, <1>8, <1>9, <1>10, <1>11, <1>12, <1>13, <1>14 DEF Booting

LEMMA NewestSyncing ==
  ASSUME TInv, OneOwner, RInv, OInv, NInv, Syncing
  PROVE  NInv'
<1> USE DEF OneOwner, RInv, Ticks, Copied, OInv, Gone, Open, NInv, Woken, Newest, Entering
<1>1. CASE Connects BY <1>1 DEF Connects, Unchanged, resumeVars, rowVars, workVars,
  shelfVars
<1>2. CASE Disconnects BY <1>2 DEF Disconnects, Unchanged, resumeVars, rowVars,
  workVars, shelfVars
<1>3. CASE GatewaySetsClock BY <1>3 DEF GatewaySetsClock, Unchanged, resumeVars,
  rowVars, shelfVars
<1>4. CASE GatewayIdentity BY <1>4 DEF GatewayIdentity, Unchanged, LogIdentity,
  Pending, resumeVars, shelfVars
<1>5. CASE GatewayClears BY <1>5, FaultCounts DEF GatewayClears, Unchanged,
  ClearBreadcrumb, resumeVars, rowVars, shelfVars
<1>6. CASE GatewayRequests BY <1>6 DEF GatewayRequests, Unchanged, resumeVars, rowVars,
  shelfVars
<1>7. CASE SyncEnds BY <1>7 DEF SyncEnds, Unchanged, resumeVars, rowVars, workVars,
  shelfVars
<1> QED BY <1>1, <1>2, <1>3, <1>4, <1>5, <1>6, <1>7 DEF Syncing

LEMMA NewestProducing ==
  ASSUME TInv, OneOwner, RInv, OInv, NInv, Producing
  PROVE  NInv'
<1> USE DEF OneOwner, RInv, Ticks, Copied, OInv, Gone, Open, NInv, Woken, Newest, Entering
<1>1. CASE Activates BY <1>1, SessionCounts DEF Activates, Ready, StartsSession, Wipes,
  nvsVars, copyVars, syncVars, resumeVars, rowVars, workVars, shelfVars
<1>2. CASE RingReset BY <1>2, FaultCounts DEF RingReset, WipeEnables, WipeEnds,
  nvsVars, copyVars, lifeVars, workVars, shelfVars, histVars, syncVars, resumeVars,
  rowVars
<1>3. CASE EntersProd BY <1>3, FaultCounts DEF EntersProd, SetMode, syncVars,
  resumeVars, rowVars, workVars, shelfVars, histVars
<1>4. CASE MainIdentity BY <1>4 DEF MainIdentity, LogIdentity, Pending, nvsVars,
  copyVars, syncVars, resumeVars, workVars, shelfVars
<1>5. CASE MainClears BY <1>5, FaultCounts DEF MainClears, ClearBreadcrumb, lifeVars,
  workVars, shelfVars, syncVars, resumeVars, rowVars
<1>6. CASE ProdEnds BY <1>6 DEF ProdEnds, MainShelves, Claim, Claimed, nvsVars,
  copyVars, lifeVars, workVars, shelfVars, syncVars, resumeVars, rowVars
<1>7. CASE Tick BY <1>7 DEF Tick, nvsVars, copyVars, lifeVars, workVars, shelfVars,
  histVars, syncVars, resumeVars, rowVars
<1>8. CASE Checkpoint BY <1>8 DEF Checkpoint, nvsVars, copyVars, lifeVars, workVars,
  shelfVars, syncVars, resumeVars, rowVars
<1>9. CASE WorkShelves BY <1>9 DEF WorkShelves, Claim, Claimed, nvsVars, copyVars,
  lifeVars, shelfVars, syncVars, resumeVars, rowVars
<1>10. CASE ClearBegins BY <1>10 DEF ClearBegins, nvsVars, copyVars, lifeVars,
  shelfVars, histVars, syncVars, resumeVars, rowVars
<1>11. CASE ClearWipes BY <1>11 DEF ClearWipes, nvsVars, copyVars, lifeVars, shelfVars,
  syncVars, resumeVars, rowVars
<1>12. CASE ClearEnds BY <1>12, FaultCounts DEF ClearEnds, WipeEnables, WipeEnds,
  nvsVars, copyVars, lifeVars, shelfVars, histVars, syncVars, resumeVars, rowVars
<1> QED BY <1>1, <1>2, <1>3, <1>4, <1>5, <1>6, <1>7, <1>8, <1>9, <1>10, <1>11, <1>12 DEF Producing

LEMMA NewestStutter ==
  ASSUME NInv, UNCHANGED vars
  PROVE  NInv'
BY DEF NInv, Woken, Newest, Entering, vars, nvsVars, copyVars, lifeVars, syncVars,
     resumeVars, rowVars, workVars, shelfVars, histVars

-----------------------------------------------------------------------------
(* What the breadcrumb tells. *)

\* The gateway is connected only while main waits for the time.
Linked ==
  /\ ble_connected => pc = "sync"
  /\ rx # "idle" => ble_connected

\* Until the shelf saves this life's breadcrumb, all there is to report is of
\* earlier lives.
Fresh ==
  pc \notin {"dead", "off", "reset"} /\ shelf \in {"no", "claimed"} =>
    breadcrumb < boot_count /\ current_breadcrumb < boot_count

\* No thread runs before main does.
Quiet ==
  pc \in {"dead", "off", "reset"} => owner = "none" /\ requested = {} /\ ~ticking

\* Who reports a breadcrumb has logged this life.
Logged == pc = "clear" \/ (pc = "prod" /\ clock) => boot_logged

\* The copy of the breadcrumb is right; once the rows of this life are out, the
\* breadcrumb of another one is gone, or about to be.
Crumbs ==
  /\ pc \in {"dead", "off", "reset", "decide", "init", "dfu"} => ~forensics_emitted
  /\ faults = 0 =>
       /\ pc \in {"sync", "ready", "wipe", "mode", "rows", "clear", "prod"} =>
            current_breadcrumb = breadcrumb
       /\ forensics_emitted => breadcrumb \in {0, boot_count} \/ Reporting

CInv == Linked /\ Quiet /\ Fresh /\ Logged /\ ReportedOnce /\ Crumbs /\ ProductionIdentified

\* CInv is preserved, per group of actions.
LEMMA CrumbsPower ==
  ASSUME TInv, Numbers, OneOwner, CInv, Power
  PROVE  CInv'
<1> USE DEF CInv, Linked, Quiet, Fresh, Logged, ReportedOnce, Reporting, Crumbs,
  ProductionIdentified, Numbers, OneOwner
<1>1. CASE PowerCut BY <1>1 DEF PowerCut, RamLost, nvsVars
<1>2. CASE PowerOn BY <1>2 DEF PowerOn, nvsVars, copyVars, lifeVars, workVars,
  shelfVars, histVars, syncVars, resumeVars, rowVars
<1>3. CASE MagnetWakes BY <1>3 DEF MagnetWakes, nvsVars, copyVars, lifeVars, workVars,
  shelfVars, histVars, syncVars, resumeVars, rowVars
<1>4. CASE SilentReset BY <1>4 DEF SilentReset, RamLost, nvsVars
<1> QED BY <1>1, <1>2, <1>3, <1>4 DEF Power

LEMMA CrumbsShelving ==
  ASSUME TInv, Numbers, OneOwner, CInv, Shelving
  PROVE  CInv'
<1> USE DEF CInv, Linked, Quiet, Fresh, Logged, ReportedOnce, Reporting, Crumbs,
  ProductionIdentified, Numbers, OneOwner
<1>1. CASE ShelfDisables BY <1>1, FaultCounts DEF ShelfDisables, lifeVars, workVars,
  histVars, syncVars, resumeVars, rowVars
<1>2. CASE ShelfSetsMode BY <1>2, FaultCounts DEF ShelfSetsMode, SetMode, lifeVars,
  workVars, syncVars, resumeVars, rowVars
<1>3. CASE ShelfErases BY <1>3 DEF ShelfErases, nvsVars, copyVars, lifeVars, workVars,
  histVars, syncVars, resumeVars, rowVars
<1>4. CASE ShelfErased BY <1>4, FaultCounts DEF ShelfErased, WipeEnds, nvsVars,
  copyVars, lifeVars, workVars, histVars, syncVars, resumeVars, rowVars
<1>5. CASE ShelfPowersOff BY <1>5 DEF ShelfPowersOff, RamLost, nvsVars
<1>6. CASE ShelfStuck BY <1>6, FaultCounts DEF ShelfStuck, nvsVars, copyVars, lifeVars,
  workVars, histVars, syncVars, resumeVars, rowVars
<1> QED BY <1>1, <1>2, <1>3, <1>4, <1>5, <1>6 DEF Shelving

LEMMA CrumbsBooting ==
  ASSUME TInv, Numbers, OneOwner, CInv, Booting
  PROVE  CInv'
<1> USE DEF CInv, Linked, Quiet, Fresh, Logged, ReportedOnce, Reporting, Crumbs,
  ProductionIdentified, Numbers, OneOwner
<1>1. CASE StartMain BY <1>1 DEF StartMain, copyVars, lifeVars, workVars, shelfVars,
  histVars, syncVars, resumeVars, rowVars
<1>2. CASE EarlyShelf BY <1>2 DEF EarlyShelf, MainShelves, Claim, Claimed, Resumable,
  nvsVars, copyVars, lifeVars, workVars, shelfVars, syncVars, resumeVars, rowVars
<1>3. CASE PowerOnResumes BY <1>3 DEF PowerOnResumes, ToInit, Resumable, nvsVars,
  copyVars, rowVars, workVars, shelfVars, histVars
<1>4. CASE MagnetHeld BY <1>4 DEF MagnetHeld, ToInit, nvsVars, copyVars, rowVars,
  workVars, shelfVars, histVars
<1>5. CASE SilentBoots BY <1>5 DEF SilentBoots, ToInit, nvsVars, copyVars, rowVars,
  workVars, shelfVars, histVars
<1>6. CASE MagnetHeldLong BY <1>6, FaultCounts DEF MagnetHeldLong, SetMode, lifeVars,
  workVars, shelfVars, histVars, syncVars, resumeVars, rowVars
<1>7. CASE DfuEnds BY <1>7 DEF DfuEnds, MainShelves, Claim, Claimed, nvsVars, copyVars,
  lifeVars, workVars, shelfVars, syncVars, resumeVars, rowVars
<1>8. CASE DfuFails BY <1>8, FaultCounts DEF DfuFails, nvsVars, copyVars, lifeVars,
  workVars, shelfVars, histVars, syncVars, resumeVars, rowVars
<1>9. CASE RecoversSnapshot BY <1>9 DEF RecoversSnapshot, Recovers, InitEnds,
  SilentInProd, nvsVars, rowVars, workVars, shelfVars, histVars
<1>10. CASE RecoversDraft BY <1>10 DEF RecoversDraft, Recovers, InitEnds, SilentInProd,
  nvsVars, rowVars, workVars, shelfVars, histVars
<1>11. CASE RecoversNothing BY <1>11 DEF RecoversNothing, Recovers, InitEnds,
  SilentInProd, nvsVars, rowVars, workVars, shelfVars, histVars
<1>12. CASE ResumesDraft BY <1>12 DEF ResumesDraft, Recovers, InitEnds, nvsVars,
  rowVars, workVars, shelfVars, histVars
<1>13. CASE NoRecovery BY <1>13 DEF NoRecovery, InitEnds, nvsVars, rowVars, workVars,
  shelfVars, histVars
<1>14. CASE InitFails BY <1>14, FaultCounts DEF InitFails, nvsVars, copyVars, lifeVars,
  workVars, shelfVars, histVars, syncVars, resumeVars, rowVars
<1> QED BY <1>1, <1>2, <1>3, <1>4, <1>5, <1>6, <1>7, <1>8, <1>9, <1>10, <1>11, <1>12, <1>13, <1>14 DEF Booting

LEMMA CrumbsSyncing ==
  ASSUME TInv, Numbers, OneOwner, CInv, Syncing
  PROVE  CInv'
<1> USE DEF CInv, Linked, Quiet, Fresh, Logged, ReportedOnce, Reporting, Crumbs,
  ProductionIdentified, Numbers, OneOwner
<1>1. CASE Connects BY <1>1 DEF Connects, Unchanged, resumeVars, rowVars, workVars,
  shelfVars
<1>2. CASE Disconnects BY <1>2 DEF Disconnects, Unchanged, resumeVars, rowVars,
  workVars, shelfVars
<1>3. CASE GatewaySetsClock BY <1>3 DEF GatewaySetsClock, Unchanged, resumeVars,
  rowVars, shelfVars
<1>4. CASE GatewayIdentity
  <2> USE <1>4 DEF GatewayIdentity, Unchanged, LogIdentity, resumeVars, shelfVars
  <2>1. rx = "identity" /\ pc = "sync"
    OBVIOUS
  <2>2. CASE Pending
    <3>1. told <= missed \/ breadcrumb = 0
      BY <2>1
    <3>2. ReportedOnce' BY <2>1, <2>2, <3>1
    <3>3. (Linked /\ Quiet /\ Fresh /\ Logged /\ Crumbs /\ ProductionIdentified)'
      BY <2>1, <2>2 DEF Pending
    <3> QED BY <3>2, <3>3
  <2>3. CASE ~Pending BY <2>1, <2>3 DEF Pending
  <2> QED BY <2>2, <2>3
<1>5. CASE GatewayClears
  <2> USE <1>5 DEF GatewayClears, Unchanged, resumeVars, rowVars, shelfVars
  <2>1. rx = "clear" /\ pc = "sync"
    OBVIOUS
  <2>2. CASE breadcrumb' = 0 BY <2>1, <2>2, FaultCounts DEF ClearBreadcrumb
  <2>3. CASE Fault /\ missed' = missed + 1 /\ UNCHANGED <<breadcrumb, told>>
    BY <2>1, <2>3, FaultCounts DEF ClearBreadcrumb
  <2> QED BY <2>2, <2>3 DEF ClearBreadcrumb
<1>6. CASE GatewayRequests BY <1>6 DEF GatewayRequests, Unchanged, resumeVars, rowVars,
  shelfVars
<1>7. CASE SyncEnds BY <1>7 DEF SyncEnds, Unchanged, resumeVars, rowVars, workVars,
  shelfVars
<1> QED BY <1>1, <1>2, <1>3, <1>4, <1>5, <1>6, <1>7 DEF Syncing

LEMMA CrumbsProducing ==
  ASSUME TInv, Numbers, OneOwner, CInv, Producing
  PROVE  CInv'
<1> USE DEF CInv, Linked, Quiet, Fresh, Logged, ReportedOnce, Reporting, Crumbs,
  ProductionIdentified, Numbers, OneOwner
<1>1. CASE Activates BY <1>1, SessionCounts DEF Activates, Ready, StartsSession, Wipes,
  nvsVars, copyVars, syncVars, resumeVars, rowVars, workVars, shelfVars
<1>2. CASE RingReset BY <1>2, FaultCounts DEF RingReset, WipeEnables, WipeEnds,
  nvsVars, copyVars, lifeVars, workVars, shelfVars, histVars, syncVars, resumeVars,
  rowVars
<1>3. CASE EntersProd BY <1>3, FaultCounts DEF EntersProd, SetMode, syncVars,
  resumeVars, rowVars, workVars, shelfVars, histVars
<1>4. CASE MainIdentity
  <2> USE <1>4 DEF MainIdentity, nvsVars, copyVars, syncVars, resumeVars, workVars,
    shelfVars
  <2>1. rx = "idle" /\ pc = "rows"
    OBVIOUS
  <2>2. CASE Pending
    <3> USE <2>1, <2>2 DEF Pending, LogIdentity
    <3>1. told <= missed \/ breadcrumb = 0
      OBVIOUS
    <3>2. ReportedOnce' BY <3>1
    <3>3. (Linked /\ Quiet /\ Fresh /\ Logged /\ Crumbs /\ ProductionIdentified)'
      OBVIOUS
    <3> QED BY <3>2, <3>3
  <2>3. CASE ~Pending BY <2>1, <2>3 DEF Pending, LogIdentity
  <2> QED BY <2>2, <2>3
<1>5. CASE MainClears
  <2> USE <1>5 DEF MainClears, lifeVars, workVars, shelfVars, syncVars, resumeVars,
    rowVars
  <2>1. rx = "idle" /\ pc = "clear" /\ boot_logged
    OBVIOUS
  <2>2. CASE breadcrumb' = 0 BY <2>1, <2>2, FaultCounts DEF ClearBreadcrumb
  <2>3. CASE Fault /\ missed' = missed + 1 /\ UNCHANGED <<breadcrumb, told>>
    BY <2>1, <2>3, FaultCounts DEF ClearBreadcrumb
  <2> QED BY <2>2, <2>3 DEF ClearBreadcrumb
<1>6. CASE ProdEnds BY <1>6 DEF ProdEnds, MainShelves, Claim, Claimed, nvsVars,
  copyVars, lifeVars, workVars, shelfVars, syncVars, resumeVars, rowVars
<1>7. CASE Tick BY <1>7 DEF Tick, nvsVars, copyVars, lifeVars, workVars, shelfVars,
  histVars, syncVars, resumeVars, rowVars
<1>8. CASE Checkpoint BY <1>8 DEF Checkpoint, nvsVars, copyVars, lifeVars, workVars,
  shelfVars, syncVars, resumeVars, rowVars
<1>9. CASE WorkShelves BY <1>9 DEF WorkShelves, Claim, Claimed, nvsVars, copyVars,
  lifeVars, shelfVars, syncVars, resumeVars, rowVars
<1>10. CASE ClearBegins BY <1>10 DEF ClearBegins, nvsVars, copyVars, lifeVars,
  shelfVars, histVars, syncVars, resumeVars, rowVars
<1>11. CASE ClearWipes BY <1>11 DEF ClearWipes, nvsVars, copyVars, lifeVars, shelfVars,
  syncVars, resumeVars, rowVars
<1>12. CASE ClearEnds BY <1>12, FaultCounts DEF ClearEnds, WipeEnables, WipeEnds,
  nvsVars, copyVars, lifeVars, shelfVars, histVars, syncVars, resumeVars, rowVars
<1> QED BY <1>1, <1>2, <1>3, <1>4, <1>5, <1>6, <1>7, <1>8, <1>9, <1>10, <1>11, <1>12 DEF Producing

LEMMA CrumbsStutter ==
  ASSUME CInv, UNCHANGED vars
  PROVE  CInv'
BY DEF CInv, Linked, Quiet, Fresh, Logged, ReportedOnce, Reporting, Crumbs,
     ProductionIdentified, vars, nvsVars, copyVars, lifeVars, syncVars, resumeVars,
     rowVars, workVars, shelfVars, histVars

-----------------------------------------------------------------------------
(* What a boot resumes. *)

\* Only a recovery resumes, and what it resumes from is there.
LEMMA ResumesFrom ==
  ASSUME [Next]_vars, Resumes
  PROVE  op_mode = "prod" /\ (retained = 0 => draft # 0)
<1> USE DEF Resumes
<1>1. CASE Power
  <2>1. CASE PowerCut BY <2>1 DEF PowerCut, RamLost
  <2>2. CASE PowerOn BY <2>2 DEF PowerOn, lifeVars, syncVars, resumeVars, rowVars
  <2>3. CASE MagnetWakes BY <2>3 DEF MagnetWakes, lifeVars, syncVars, resumeVars,
  rowVars
  <2>4. CASE SilentReset BY <2>4 DEF SilentReset, RamLost
  <2> QED BY <1>1, <2>1, <2>2, <2>3, <2>4 DEF Power
<1>2. CASE Shelving
  <2>1. CASE ShelfDisables BY <2>1 DEF ShelfDisables, lifeVars, syncVars, resumeVars,
  rowVars
  <2>2. CASE ShelfSetsMode BY <2>2 DEF ShelfSetsMode, lifeVars, syncVars, resumeVars,
  rowVars
  <2>3. CASE ShelfErases BY <2>3 DEF ShelfErases, lifeVars, syncVars, resumeVars,
  rowVars
  <2>4. CASE ShelfErased BY <2>4 DEF ShelfErased, lifeVars, syncVars, resumeVars,
  rowVars
  <2>5. CASE ShelfPowersOff BY <2>5 DEF ShelfPowersOff, RamLost
  <2>6. CASE ShelfStuck BY <2>6 DEF ShelfStuck, lifeVars, syncVars, resumeVars, rowVars
  <2> QED BY <1>2, <2>1, <2>2, <2>3, <2>4, <2>5, <2>6 DEF Shelving
<1>3. CASE Booting
  <2>1. CASE StartMain BY <2>1 DEF StartMain, lifeVars, syncVars, resumeVars, rowVars
  <2>2. CASE EarlyShelf BY <2>2 DEF EarlyShelf, MainShelves, lifeVars, syncVars,
  resumeVars, rowVars
  <2>3. CASE PowerOnResumes BY <2>3 DEF PowerOnResumes, ToInit, rowVars
  <2>4. CASE MagnetHeld BY <2>4 DEF MagnetHeld, ToInit, rowVars
  <2>5. CASE SilentBoots BY <2>5 DEF SilentBoots, ToInit, rowVars
  <2>6. CASE MagnetHeldLong BY <2>6 DEF MagnetHeldLong, lifeVars, syncVars, resumeVars,
  rowVars
  <2>7. CASE DfuEnds BY <2>7 DEF DfuEnds, MainShelves, lifeVars, syncVars, resumeVars,
  rowVars
  <2>8. CASE DfuFails BY <2>8 DEF DfuFails, lifeVars, syncVars, resumeVars, rowVars
  <2>9. CASE RecoversSnapshot BY <2>9 DEF RecoversSnapshot, Recovers, InitEnds,
  SilentInProd, rowVars
  <2>10. CASE RecoversDraft BY <2>10 DEF RecoversDraft, Recovers, InitEnds,
  SilentInProd, rowVars
  <2>11. CASE RecoversNothing BY <2>11 DEF RecoversNothing, Recovers, InitEnds,
  SilentInProd, rowVars
  <2>12. CASE ResumesDraft BY <2>12 DEF ResumesDraft, Recovers, InitEnds, rowVars
  <2>13. CASE NoRecovery BY <2>13 DEF NoRecovery, InitEnds, rowVars
  <2>14. CASE InitFails BY <2>14 DEF InitFails, lifeVars, syncVars, resumeVars, rowVars
  <2> QED BY <1>3, <2>1, <2>2, <2>3, <2>4, <2>5, <2>6, <2>7, <2>8, <2>9, <2>10, <2>11, <2>12, <2>13, <2>14 DEF Booting
<1>4. CASE Syncing
  <2>1. CASE Connects BY <2>1 DEF Connects, Unchanged, resumeVars, rowVars
  <2>2. CASE Disconnects BY <2>2 DEF Disconnects, Unchanged, resumeVars, rowVars
  <2>3. CASE GatewaySetsClock BY <2>3 DEF GatewaySetsClock, Unchanged, resumeVars,
  rowVars
  <2>4. CASE GatewayIdentity BY <2>4 DEF GatewayIdentity, Unchanged, resumeVars
  <2>5. CASE GatewayClears BY <2>5 DEF GatewayClears, Unchanged, resumeVars, rowVars
  <2>6. CASE GatewayRequests BY <2>6 DEF GatewayRequests, Unchanged, resumeVars,
  rowVars
  <2>7. CASE SyncEnds BY <2>7 DEF SyncEnds, Unchanged, resumeVars, rowVars
  <2> QED BY <1>4, <2>1, <2>2, <2>3, <2>4, <2>5, <2>6, <2>7 DEF Syncing
<1>5. CASE Producing
  <2>1. CASE Activates BY <2>1 DEF Activates, Ready, syncVars, resumeVars, rowVars
  <2>2. CASE RingReset BY <2>2 DEF RingReset, lifeVars, syncVars, resumeVars, rowVars
  <2>3. CASE EntersProd BY <2>3 DEF EntersProd, syncVars, resumeVars, rowVars
  <2>4. CASE MainIdentity BY <2>4 DEF MainIdentity, syncVars, resumeVars
  <2>5. CASE MainClears BY <2>5 DEF MainClears, lifeVars, syncVars, resumeVars, rowVars
  <2>6. CASE ProdEnds BY <2>6 DEF ProdEnds, MainShelves, lifeVars, syncVars,
  resumeVars, rowVars
  <2>7. CASE Tick BY <2>7 DEF Tick, lifeVars, syncVars, resumeVars, rowVars
  <2>8. CASE Checkpoint BY <2>8 DEF Checkpoint, lifeVars, syncVars, resumeVars, rowVars
  <2>9. CASE WorkShelves BY <2>9 DEF WorkShelves, lifeVars, syncVars, resumeVars,
  rowVars
  <2>10. CASE ClearBegins BY <2>10 DEF ClearBegins, lifeVars, syncVars, resumeVars,
  rowVars
  <2>11. CASE ClearWipes BY <2>11 DEF ClearWipes, lifeVars, syncVars, resumeVars,
  rowVars
  <2>12. CASE ClearEnds BY <2>12 DEF ClearEnds, lifeVars, syncVars, resumeVars, rowVars
  <2> QED BY <1>5, <2>1, <2>2, <2>3, <2>4, <2>5, <2>6, <2>7, <2>8, <2>9, <2>10, <2>11, <2>12 DEF Producing
<1>6. CASE UNCHANGED vars BY <1>6 DEF vars, lifeVars, resumeVars
<1> QED BY <1>1, <1>2, <1>3, <1>4, <1>5, <1>6 DEF Next

\* The inductive invariant.
Inv == TInv /\ RInv /\ OInv /\ NInv /\ CInv

LEMMA Invariant == Spec => []Inv
<1>1. Init => Inv
  BY TypesInit DEF Init, Inv, RInv, Ended, Asleep, Wiping, Ticks, Copied,
     InterruptedIsResumable, OInv, Whose, Gone, Open, Erased, NInv, Woken, Newest,
     Entering, CInv, Linked, Quiet, Fresh, Logged, ReportedOnce, Crumbs,
     ProductionIdentified
<1>2. Inv /\ [Next]_vars => Inv'
  <2> SUFFICES ASSUME TInv, Numbers, OneOwner, RInv, OInv, NInv, CInv,
                      [Next]_vars
               PROVE  TInv' /\ RInv' /\ OInv' /\ NInv' /\ CInv'
    BY DEF Inv, TInv, TypeOK
  <2>1. TInv'
    BY TypesStep
  <2>2. RInv'
    BY ResumePower, ResumeShelving, ResumeBooting, ResumeSyncing, ResumeProducing,
       ResumeStutter DEF Next
  <2>3. OInv'
    BY OffPower, OffShelving, OffBooting, OffSyncing, OffProducing, OffStutter DEF Next
  <2>4. NInv'
    BY NewestPower, NewestShelving, NewestBooting, NewestSyncing, NewestProducing,
       NewestStutter DEF Next
  <2>5. CInv'
    BY CrumbsPower, CrumbsShelving, CrumbsBooting, CrumbsSyncing, CrumbsProducing,
       CrumbsStutter DEF Next
  <2> QED BY <2>1, <2>2, <2>3, <2>4, <2>5
<1> QED BY <1>1, <1>2, PTL DEF Spec

\* InterruptedIsResumable: as long as nothing has failed, a session that has a draft
\* and that nobody has ended is found by the next boot, with op_mode and draft in
\* place, however often power was cut or the device reset in between.
THEOREM InterruptedStaysResumable == Spec => []InterruptedIsResumable
<1>1. Inv => InterruptedIsResumable
  BY DEF Inv, RInv
<1> QED BY <1>1, Invariant, PTL

\* OffEndsSession: as long as nothing has failed, no boot resumes a session that
\* ended with System OFF, whatever race there was on the way there.
THEOREM OffStaysEnded == Spec => OffEndsSession
<1>1. Inv /\ [Next]_vars => (Resumes /\ faults = 0 => ending # "off")
  BY ResumesFrom DEF Inv, OInv, Gone
<1> QED BY <1>1, Invariant, PTL DEF Spec, OffEndsSession

\* ResumesNewest: as long as nothing has failed, the draft a boot resumes from is of
\* the session that was started last.
THEOREM NewestIsResumed == Spec => ResumesNewest
<1>1. Inv /\ [Next]_vars => (Resumes /\ retained = 0 /\ faults = 0 => draft = session)
  BY ResumesFrom DEF Inv, NInv, Newest
<1> QED BY <1>1, Invariant, PTL DEF Spec, ResumesNewest

\* ReportedOnce: for any faults, power cuts and resets, the rows that report a breadcrumb
\* outnumber the deletes of it that did not come off by one at most, and only while the
\* thread that wrote the last row has still to delete it.
THEOREM BreadcrumbReportedOnce == Spec => []ReportedOnce
<1>1. Inv => ReportedOnce
  BY DEF Inv, CInv
<1> QED BY <1>1, Invariant, PTL

\* ProductionIdentified: production with a clock has logged its identity and, as long
\* as nothing has failed, no breadcrumb of an earlier life is left.
THEOREM ProductionIsIdentified == Spec => []ProductionIdentified
<1>1. Inv => ProductionIdentified
  BY DEF Inv, CInv
<1> QED BY <1>1, Invariant, PTL

=============================================================================
