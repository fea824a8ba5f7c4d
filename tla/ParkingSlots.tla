---------------------------- MODULE ParkingSlots ----------------------------
(***************************************************************************)
(* Why a vehicle keeps its slot and its reservation, and no slot leaks:    *)
(* the proofs of HolderKeepsSlot and ClaimIsOurs, for any number of        *)
(* requests that race and die at any point, and of OccupiedIsHeld when     *)
(* none dies.                                                              *)
(***************************************************************************)
EXTENDS ParkingSettlement

(* An exit request that is past closing has a closed entry. *)
PastCloseIsClosed ==
    \A x \in ExitReq : outPc[x] \in {"complete", "free"} =>
        entry[outJob[x].entry].status = "closed"

(* A request has no slot before it looked for a reservation. *)
NoSlotYet ==
    \A e \in EntryReq : inPc[e] \in {"number", "find"} => inJob[e].slot = None

SlotInv == TypeOK /\ SettleInv /\ PastCloseIsClosed /\ NoSlotYet /\ HolderKeepsSlot

HeldPc == {"claim", "undo", "photo", "insert", "unclaim", "vacate"}

EntryReqStep(e) ==
    \/ \E v \in Vehicle, t \in Tag \cup {None}, post \in PostedAt : BeginEntry(e, v, t, post)
    \/ InStep(e)
    \/ DropEntry(e)

ExitReqStep(x) ==
    \/ \E e \in EntryReq, owing \in BOOLEAN : BeginExit(x, e, owing)
    \/ OutStep(x)
    \/ DropExit(x)

LEMMA SlotInit == Init => PastCloseIsClosed /\ NoSlotYet /\ HolderKeepsSlot
BY StoreAssumption
DEF Init, StoreInit, OpsInit, PastCloseIsClosed, NoSlotYet, HolderKeepsSlot, Holds, NoEntry, NoInJob

-----------------------------------------------------------------------------
(* A request whose entry is not stored holds at most what its job names.   *)
LEMMA HoldsByJob ==
    ASSUME TypeOK, SettleInv, NEW e \in EntryReq, NEW s \in Slot,
           entry[e].status = "absent", Holds(e, s)
    PROVE  inPc[e] \in HeldPc /\ inJob[e].slot = s
BY DEF Holds, HeldPc, SettleInv, ExitHasEntry, OutRunning

(* A request of create_entry holds nothing new, unless it occupies a slot. *)
LEMMA InHoldsLess ==
    ASSUME SlotInv, NEW e \in EntryReq, EntryReqStep(e), ~OccupySlot(e),
           NEW s \in Slot, Holds(e, s)'
    PROVE  Holds(e, s)
<1> USE DEF SlotInv, TypeOK, OpsTypeOK, InGoto, InReturn, Holds, exitVars
<1>1. CASE \E v \in Vehicle, t \in Tag \cup {None}, post \in PostedAt : BeginEntry(e, v, t, post)
  BY <1>1 DEF BeginEntry
<1>2. CASE TakeNumber(e)
  BY <1>2 DEF TakeNumber
<1>3. CASE FindReservation(e)
  <2>1. inJob[e].slot = None /\ s # None /\ UNCHANGED <<entry, outPc, outJob>>
    BY <1>3, StoreAssumption DEF FindReservation, NoSlotYet
  <2>2. inPc'[e] \in HeldPc => UNCHANGED inJob
    BY <1>3 DEF FindReservation, HeldPc
  <2> QED BY <2>1, <2>2 DEF HeldPc
<1>4. CASE ClaimReservation(e) \/ UndoOccupy(e)
  BY <1>4 DEF ClaimReservation, UndoOccupy
<1>5. CASE SavePhoto(e)
  BY <1>5 DEF SavePhoto
<1>6. CASE InsertEntry(e)
  BY <1>6 DEF InsertEntry
<1>7. CASE ReleaseReservation(e) \/ ReleaseSlot(e)
  BY <1>7 DEF ReleaseReservation, ReleaseSlot
<1>8. CASE DeletePhoto(e) \/ DropEntry(e)
  BY <1>8 DEF DeletePhoto, DropEntry
<1> QED BY <1>1, <1>2, <1>3, <1>4, <1>5, <1>6, <1>7, <1>8 DEF InStep, EntryReqStep

(* What belongs to other requests, create_entry does not change. *)
LEMMA InFrame ==
    ASSUME SlotInv, NEW e \in EntryReq, EntryReqStep(e), NEW o \in EntryReq \ {e}
    PROVE  /\ inPc'[o] = inPc[o] /\ inJob'[o] = inJob[o] /\ entry'[o] = entry[o]
           /\ UNCHANGED <<outPc, outJob>>
<1> USE DEF SlotInv, TypeOK, OpsTypeOK, InGoto, InReturn, exitVars
<1>1. CASE \E v \in Vehicle, t \in Tag \cup {None}, post \in PostedAt : BeginEntry(e, v, t, post)
  BY <1>1 DEF BeginEntry
<1>2. CASE TakeNumber(e) \/ FindReservation(e) \/ OccupySlot(e) \/ ClaimReservation(e)
  BY <1>2 DEF TakeNumber, FindReservation, OccupySlot, ClaimReservation
<1>3. CASE UndoOccupy(e) \/ SavePhoto(e) \/ InsertEntry(e) \/ ReleaseReservation(e)
  BY <1>3 DEF UndoOccupy, SavePhoto, InsertEntry, ReleaseReservation
<1>4. CASE ReleaseSlot(e) \/ DeletePhoto(e) \/ DropEntry(e)
  BY <1>4 DEF ReleaseSlot, DeletePhoto, DropEntry
<1> QED BY <1>1, <1>2, <1>3, <1>4 DEF InStep, EntryReqStep

LEMMA InKeepsOthers ==
    ASSUME SlotInv, NEW e \in EntryReq, EntryReqStep(e), NEW o \in EntryReq \ {e}, NEW s \in Slot
    PROVE  Holds(o, s)' => Holds(o, s)
BY InFrame DEF Holds

(* A step of create_entry leaves every holder its slot. *)
LEMMA SlotIn ==
    ASSUME SlotInv, NEW e \in EntryReq, EntryReqStep(e)
    PROVE  HolderKeepsSlot'
<1> SUFFICES ASSUME NEW s \in Slot, NEW o \in EntryReq, Holds(o, s)'
             PROVE  slot'[s] = [status |-> "occupied", entry |-> o]
  BY DEF HolderKeepsSlot
<1>0. slot \in [Slot -> SlotDoc]
  BY DEF SlotInv, TypeOK, StoreTypeOK
<1>1. CASE OccupySlot(e)
  <2>1. /\ inPc[e] = "occupy" /\ entry[e].status = "absent"
        /\ UNCHANGED <<entry, outPc, outJob>>
    BY <1>1 DEF OccupySlot, SlotInv, SettleInv, EntryFollowsAcceptance, exitVars
  <2>2. CASE slot[inJob[e].slot].status \in {"available", "reserved"}
    <3>1. /\ slot' = [slot EXCEPT ![inJob[e].slot] = [status |-> "occupied", entry |-> e]]
          /\ UNCHANGED inJob
      BY <1>1, <2>2 DEF OccupySlot
    <3>2. CASE o = e
      <4>1. inJob[e].slot = s
        BY <2>1, <3>1, <3>2 DEF Holds, SlotInv, SettleInv, ExitHasEntry, OutRunning
      <4> QED BY <1>0, <3>1, <3>2, <4>1
    <3>3. CASE o # e
      <4>1. slot[s] = [status |-> "occupied", entry |-> o]
        BY <3>3, InKeepsOthers DEF SlotInv, HolderKeepsSlot
      <4> QED BY <1>0, <2>2, <3>1, <4>1
    <3> QED BY <3>2, <3>3
  <2>3. CASE ~(slot[inJob[e].slot].status \in {"available", "reserved"})
    <3>1. /\ inPc' = [inPc EXCEPT ![e] = "refused"] /\ UNCHANGED slot
      BY <1>1, <2>3 DEF OccupySlot, InReturn, InGoto
    <3>2. o # e
      BY <2>1, <3>1 DEF Holds, SlotInv, SettleInv, ExitHasEntry, OutRunning, TypeOK, OpsTypeOK
    <3> QED BY <3>1, <3>2, InKeepsOthers DEF SlotInv, HolderKeepsSlot
  <2> QED BY <2>2, <2>3
<1>2. CASE ~OccupySlot(e)
  <2>1. Holds(o, s)
    BY <1>2, InHoldsLess, InKeepsOthers
  <2>2. slot[s] = [status |-> "occupied", entry |-> o]
    BY <2>1 DEF SlotInv, HolderKeepsSlot
  <2>3. CASE UndoOccupy(e) \/ ReleaseSlot(e)
    <3>1. /\ entry[e].status = "absent" /\ UNCHANGED <<entry, outPc, outJob>>
          /\ inPc'[e] \notin HeldPc
      BY <2>3 DEF UndoOccupy, ReleaseSlot, SlotInv, SettleInv, EntryFollowsAcceptance,
                  exitVars, InReturn, InGoto, TypeOK, OpsTypeOK, HeldPc
    <3>2. o # e
      BY <3>1 DEF Holds, HeldPc, SlotInv, SettleInv, ExitHasEntry, OutRunning
    <3> QED BY <1>0, <2>2, <2>3, <3>2 DEF UndoOccupy, ReleaseSlot
  <2>4. CASE ~UndoOccupy(e) /\ ~ReleaseSlot(e)
    <3>1. UNCHANGED slot
      BY <1>2, <2>4 DEF EntryReqStep, InStep, BeginEntry, TakeNumber, FindReservation,
             ClaimReservation, SavePhoto, InsertEntry, ReleaseReservation, DeletePhoto,
             DropEntry, storeVars
    <3> QED BY <2>2, <3>1
  <2> QED BY <2>3, <2>4
<1> QED BY <1>1, <1>2

(* ... and a request that has not looked yet without a slot.               *)
LEMMA NoSlotIn ==
    ASSUME SlotInv, NEW e \in EntryReq, EntryReqStep(e)
    PROVE  NoSlotYet'
<1> USE DEF SlotInv, TypeOK, OpsTypeOK, InGoto, InReturn, NoSlotYet
<1>1. CASE \E v \in Vehicle, t \in Tag \cup {None}, post \in PostedAt : BeginEntry(e, v, t, post)
  BY <1>1 DEF BeginEntry
<1>2. CASE TakeNumber(e)
  <2>1. /\ inPc[e] = "number" /\ inJob' = [inJob EXCEPT ![e].token = sequence + 1]
        /\ inPc' = [inPc EXCEPT ![e] = "find"]
    BY <1>2 DEF TakeNumber
  <2>2. inJob'[e].slot = inJob[e].slot
    BY <2>1 DEF InJob
  <2> QED BY <2>1, <2>2
<1>3. CASE ~TakeNumber(e) /\ InStep(e)
  <2>1. /\ inPc'[e] \notin {"number", "find"}
        /\ \A o \in EntryReq \ {e} : inPc'[o] = inPc[o] /\ inJob'[o] = inJob[o]
    BY <1>3 DEF InStep, FindReservation, OccupySlot, ClaimReservation, UndoOccupy, SavePhoto,
                InsertEntry, ReleaseReservation, ReleaseSlot, DeletePhoto
  <2> QED BY <2>1
<1>4. CASE DropEntry(e)
  BY <1>4 DEF DropEntry
<1> QED BY <1>1, <1>2, <1>3, <1>4 DEF EntryReqStep

LEMMA PastCloseIn ==
    ASSUME SlotInv, NEW e \in EntryReq, EntryReqStep(e)
    PROVE  PastCloseIsClosed'
<1>1. /\ UNCHANGED <<outPc, outJob>>
      /\ \A o \in EntryReq : entry[o].status = "closed" => entry'[o].status = "closed"
  <2>1. CASE InsertEntry(e)
    <3>1. entry[e].status = "absent"
      BY <2>1 DEF InsertEntry, SlotInv, SettleInv, EntryFollowsAcceptance
    <3> QED BY <2>1, <3>1 DEF InsertEntry, SlotInv, TypeOK, OpsTypeOK, exitVars
  <2>2. CASE ~InsertEntry(e)
    BY <2>2, InKeepsSettlement DEF InStep, EntryReqStep, SlotInv
  <2> QED BY <2>1, <2>2
<1> QED BY <1>1 DEF SlotInv, PastCloseIsClosed, SettleInv, ExitHasEntry, OutRunning

-----------------------------------------------------------------------------
(* Only closing moves a hold, from the open entry to the exit request.     *)
LEMMA OutHoldsLess ==
    ASSUME SlotInv, NEW x \in ExitReq, ExitReqStep(x),
           NEW o \in EntryReq, NEW s \in Slot, Holds(o, s)'
    PROVE  Holds(o, s)
<1> USE DEF SlotInv, TypeOK, OpsTypeOK, OutGoto, OutReturn, Holds
<1>1. CASE \E e \in EntryReq, owing \in BOOLEAN : BeginExit(x, e, owing)
  BY <1>1 DEF BeginExit, entryVars
<1>2. CASE InsertPayment(x) \/ InsertExit(x) \/ DeletePayment(x)
  BY <1>2 DEF InsertPayment, InsertExit, DeletePayment, entryVars
<1>3. CASE CloseEntry(x)
  <2> DEFINE e == outJob[x].entry
  <2>1. /\ e \in EntryReq /\ entry[e] \in EntryDoc /\ outPc[x] = "close"
        /\ UNCHANGED <<inPc, inJob>>
        /\ \A y \in ExitReq \ {x} : outPc'[y] = outPc[y] /\ outJob'[y] = outJob[y]
        /\ outPc'[x] \in {"complete", "free"} => outJob'[x] = outJob[x]
    BY <1>3 DEF CloseEntry, SettleInv, ExitHasEntry, OutRunning
  <2>2. CASE entry[e].status = "open"
    <3>1. entry' = [entry EXCEPT ![e] = [entry[e] EXCEPT !.status = "closed", !.exit = x]]
      BY <1>3, <2>2 DEF CloseEntry
    <3>2. e = outJob[x].entry
      BY DEF e
    <3> HIDE DEF e
    <3>3. /\ entry'[e].status = "closed" /\ entry'[e].slot = entry[e].slot
          /\ \A p \in EntryReq \ {e} : entry'[p] = entry[p]
      BY <2>1, <3>1 DEF EntryDoc
    <3>4. CASE o = e
      BY <2>1, <2>2, <3>2, <3>3, <3>4
    <3>5. CASE o # e
      BY <2>1, <3>2, <3>3, <3>5
    <3> QED BY <3>4, <3>5
  <2>3. CASE entry[e].status # "open"
    BY <1>3, <2>3 DEF CloseEntry
  <2> QED BY <2>2, <2>3
<1>4. CASE CompleteReservation(x)
  BY <1>4 DEF CompleteReservation, entryVars
<1>5. CASE FreeSlot(x)
  BY <1>5 DEF FreeSlot, entryVars
<1>6. CASE DropExit(x)
  BY <1>6 DEF DropExit, entryVars
<1> QED BY <1>1, <1>2, <1>3, <1>4, <1>5, <1>6 DEF OutStep, ExitReqStep

(* A step of create_exit leaves every holder its slot: the one whose slot  *)
(* it frees holds it no more, for no other request settled the same entry. *)
LEMMA SlotOut ==
    ASSUME SlotInv, NEW x \in ExitReq, ExitReqStep(x)
    PROVE  HolderKeepsSlot'
<1> SUFFICES ASSUME NEW s \in Slot, NEW o \in EntryReq, Holds(o, s)'
             PROVE  slot'[s] = [status |-> "occupied", entry |-> o]
  BY DEF HolderKeepsSlot
<1>0. slot \in [Slot -> SlotDoc]
  BY DEF SlotInv, TypeOK, StoreTypeOK
<1>1. slot[s] = [status |-> "occupied", entry |-> o]
  BY OutHoldsLess DEF SlotInv, HolderKeepsSlot
<1>2. CASE FreeSlot(x)
  <2> DEFINE e == outJob[x].entry
  <2>1. /\ outPc[x] = "free" /\ outPc'[x] = "settled" /\ e \in EntryReq
        /\ exits[x].entry = e /\ entry[e].status = "closed"
        /\ UNCHANGED <<entry, inPc, inJob>>
        /\ \A y \in ExitReq \ {x} : outPc'[y] = outPc[y] /\ outJob'[y] = outJob[y]
    BY <1>2 DEF FreeSlot, SlotInv, SettleInv, ExitHasEntry, ExitFollowsInsert,
                PastCloseIsClosed, OutRunning, OutReturn, OutGoto, entryVars, TypeOK, OpsTypeOK
  <2>2. \A y \in ExitReq \ {x} : outPc[y] \in {"complete", "free"} => outJob[y].entry # e
    BY <2>1, StoreAssumption DEF SlotInv, SettleInv, OneExitPerEntry, ExitFollowsInsert
  <2>3. inPc[e] = "accepted"
    BY <2>1 DEF SlotInv, SettleInv, EntryFollowsAcceptance
  <2> HIDE DEF e
  <2>4. o # e
    BY <2>1, <2>2, <2>3 DEF Holds
  <2> QED BY <1>0, <1>1, <1>2, <2>4 DEF FreeSlot, e
<1>3. CASE ~FreeSlot(x)
  <2>1. UNCHANGED slot
    BY <1>3 DEF ExitReqStep, OutStep, BeginExit, InsertPayment, InsertExit, DeletePayment,
                CloseEntry, CompleteReservation, DropExit, storeVars
  <2> QED BY <1>1, <2>1
<1> QED BY <1>2, <1>3

LEMMA PastCloseOut ==
    ASSUME SlotInv, NEW x \in ExitReq, ExitReqStep(x)
    PROVE  PastCloseIsClosed'
<1> USE DEF SlotInv, TypeOK, OpsTypeOK, OutGoto, OutReturn, PastCloseIsClosed
<1>1. CASE \E e \in EntryReq, owing \in BOOLEAN : BeginExit(x, e, owing)
  BY <1>1 DEF BeginExit, entryVars
<1>2. CASE InsertPayment(x) \/ InsertExit(x) \/ DeletePayment(x)
  BY <1>2 DEF InsertPayment, InsertExit, DeletePayment, entryVars
<1>3. CASE CloseEntry(x)
  <2> DEFINE e == outJob[x].entry
  <2>1. /\ e \in EntryReq /\ entry[e] \in EntryDoc
        /\ \A y \in ExitReq \ {x} : outPc'[y] = outPc[y] /\ outJob'[y] = outJob[y]
        /\ outPc'[x] \in {"complete", "free"} => outJob'[x] = outJob[x]
        /\ \A y \in ExitReq : outPc[y] \in {"complete", "free"} => outJob[y].entry \in EntryReq
    BY <1>3 DEF CloseEntry, SettleInv, ExitHasEntry, OutRunning
  <2>2. CASE entry[e].status = "open"
    <3>1. entry' = [entry EXCEPT ![e] = [entry[e] EXCEPT !.status = "closed", !.exit = x]]
      BY <1>3, <2>2 DEF CloseEntry
    <3>2. e = outJob[x].entry
      BY DEF e
    <3> HIDE DEF e
    <3>3. /\ entry'[e].status = "closed"
          /\ \A p \in EntryReq \ {e} : entry'[p] = entry[p]
      BY <2>1, <3>1 DEF EntryDoc
    <3> QED BY <2>1, <3>2, <3>3
  <2>3. CASE entry[e].status # "open"
    BY <1>3, <2>3 DEF CloseEntry
  <2> QED BY <2>2, <2>3
<1>4. CASE CompleteReservation(x) \/ FreeSlot(x) \/ DropExit(x)
  BY <1>4 DEF CompleteReservation, FreeSlot, DropExit, entryVars
<1> QED BY <1>1, <1>2, <1>3, <1>4 DEF OutStep, ExitReqStep

-----------------------------------------------------------------------------
(* The slot administration takes no slot from its holder, as long as the   *)
(* slot screen leaves occupied slots alone.                                *)
LEMMA SlotAdmin ==
    ASSUME SlotInv, ~AdminOverride, AdminStep
    PROVE  HolderKeepsSlot'
<1>1. UNCHANGED <<entry, inPc, inJob, outPc, outJob>>
  BY DEF AdminStep, opsVars, entryVars, exitVars
<1>2. \A s \in Slot : slot[s].status = "occupied" => slot'[s] = slot[s]
  <2> USE DEF SlotInv, TypeOK, StoreTypeOK
  <2>1. ASSUME NEW s \in Slot, NEW status \in AdminStatus,
               CreateSlot(s, status) \/ UpdateSlot(s, status)
        PROVE  \A p \in Slot : slot[p].status = "occupied" => slot'[p] = slot[p]
    BY <2>1 DEF CreateSlot, UpdateSlot
  <2>2. ASSUME NEW a \in AdminReq, SyncWrite(a)
        PROVE  \A p \in Slot : slot[p].status = "occupied" => slot'[p] = slot[p]
    BY <2>2 DEF SyncWrite
  <2>3. ASSUME NEW a \in AdminReq, ~SyncWrite(a),
               \/ \E v \in Vehicle, s \in Slot, w \in Window,
                     status \in (ReservationStatus \ {"active"}) \cup {None} :
                     BeginCreate(a, v, s, w, status)
               \/ \E r \in AdminReq, change \in Change : BeginUpdate(a, r, change)
               \/ AdmStep(a)
               \/ DropAdmin(a)
        PROVE  UNCHANGED slot
    BY <2>3 DEF AdmStep, BeginCreate, BeginUpdate, CheckOverlap, InsertReservation,
                RecheckOverlap, WriteReservation, SyncSlot, SyncReservations, DropAdmin, storeVars
  <2> QED BY <2>1, <2>2, <2>3 DEF AdminStep, AdmNext
<1>3. \A s \in Slot, e \in EntryReq : Holds(e, s)' => Holds(e, s)
  BY <1>1 DEF Holds
<1> QED BY <1>2, <1>3 DEF SlotInv, HolderKeepsSlot

LEMMA SlotNext ==
    ~AdminOverride /\ SlotInv /\ [Next]_vars => (PastCloseIsClosed /\ NoSlotYet /\ HolderKeepsSlot)'
<1> SUFFICES ASSUME ~AdminOverride, SlotInv, [Next]_vars
             PROVE  (PastCloseIsClosed /\ NoSlotYet /\ HolderKeepsSlot)'
  OBVIOUS
<1>1. CASE \E e \in EntryReq : EntryReqStep(e)
  BY <1>1, SlotIn, NoSlotIn, PastCloseIn
<1>2. CASE \E x \in ExitReq : ExitReqStep(x)
  <2>1. UNCHANGED <<inPc, inJob>>
    BY <1>2 DEF ExitReqStep, OutStep, BeginExit, InsertPayment, InsertExit, DeletePayment,
                CloseEntry, CompleteReservation, FreeSlot, DropExit, entryVars
  <2> QED BY <1>2, <2>1, SlotOut, PastCloseOut DEF SlotInv, NoSlotYet
<1>3. CASE AdminStep
  <2>1. UNCHANGED <<entry, inPc, inJob, outPc, outJob>>
    BY <1>3 DEF AdminStep, opsVars, entryVars, exitVars
  <2> QED BY <1>3, <2>1, SlotAdmin DEF SlotInv, PastCloseIsClosed, NoSlotYet
<1>4. CASE ClockStep \/ UNCHANGED vars
  <2>1. UNCHANGED <<slot, entry, inPc, inJob, outPc, outJob>>
    BY <1>4 DEF ClockStep, Tick, vars, storeVars, opsVars, entryVars, exitVars
  <2> QED BY <2>1 DEF SlotInv, PastCloseIsClosed, NoSlotYet, HolderKeepsSlot, Holds
<1> QED BY <1>1, <1>2, <1>3, <1>4 DEF Next, DeskStep, OpsNext, EntryReqStep, ExitReqStep

(* The invariant behind the theorems on slots.                             *)
LEMMA SpecSlotInv == ASSUME ~AdminOverride PROVE Spec => []SlotInv
<1>1. SlotInv /\ [Next]_vars => (PastCloseIsClosed /\ NoSlotYet /\ HolderKeepsSlot)'
  BY SlotNext
<1> QED BY <1>1, SlotInit, ThmTypeOK, ThmSettleInv, PTL DEF Spec, SlotInv

(* Whoever has a slot keeps it, whatever is reserved, moved, cancelled or  *)
(* synchronised meanwhile and whatever dies: assumed is only that the slot *)
(* screen leaves occupied slots alone.                                     *)
THEOREM ThmHolderKeepsSlot == ASSUME ~AdminOverride PROVE Spec => []HolderKeepsSlot
<1>1. SlotInv => HolderKeepsSlot
  BY DEF SlotInv
<1> QED BY <1>1, SpecSlotInv, PTL

-----------------------------------------------------------------------------
(* No slot leaks: what is in an entry's name is occupied, and held by that *)
(* entry.                                                                  *)
NamedIsOccupied == \A s \in Slot : slot[s].entry # None => slot[s].status = "occupied"

LeakInv == NamedIsOccupied /\ OccupiedIsHeld

LEMMA LeakInit == Init => LeakInv
BY StoreAssumption DEF Init, StoreInit, LeakInv, NamedIsOccupied, OccupiedIsHeld

(* A slot comes into an entry's name when its request occupies it, and     *)
(* the request keeps it until it gives it back.                            *)
LEMMA LeakIn ==
    ASSUME SlotInv, LeakInv, ~MayFail, NEW e \in EntryReq, EntryReqStep(e)
    PROVE  LeakInv'
<1> USE DEF SlotInv, TypeOK, OpsTypeOK, InGoto, InReturn
<1> SUFFICES ASSUME NEW s \in Slot
             PROVE  /\ slot'[s].entry # None => slot'[s].status = "occupied"
                    /\ \A o \in EntryReq : slot'[s] = [status |-> "occupied", entry |-> o] => Holds(o, s)'
  BY DEF LeakInv, NamedIsOccupied, OccupiedIsHeld
<1>0. slot \in [Slot -> SlotDoc] /\ inPc[e] # "accepted" /\ entry[e].status = "absent"
  <2>1. inPc[e] # "accepted"
    BY DEF EntryReqStep, InStep, BeginEntry, TakeNumber, FindReservation, OccupySlot, ClaimReservation, UndoOccupy,
           SavePhoto, InsertEntry, ReleaseReservation, ReleaseSlot, DeletePhoto, DropEntry, InRunning
  <2> QED BY <2>1 DEF StoreTypeOK, SettleInv, EntryFollowsAcceptance
<1>1. ASSUME slot'[s] = slot[s], NEW o \in EntryReq, slot[s] = [status |-> "occupied", entry |-> o]
      PROVE  Holds(o, s)'
  <2>1. Holds(o, s)
    BY <1>1 DEF LeakInv, OccupiedIsHeld
  <2>2. CASE o # e
    BY <2>1, <2>2, InFrame DEF Holds
  <2>3. CASE o = e
    <3>1. inPc[e] \in HeldPc /\ inJob[e].slot = s
      BY <1>0, <2>1, <2>3, HoldsByJob
    <3>2. CASE ClaimReservation(e) \/ ReleaseReservation(e)
      BY <2>3, <3>1, <3>2 DEF ClaimReservation, ReleaseReservation, Holds, HeldPc
    <3>3. CASE SavePhoto(e)
      BY <2>3, <3>1, <3>3, StoreAssumption DEF SavePhoto, Holds, HeldPc
    <3>4. CASE InsertEntry(e)
      BY <2>3, <3>1, <3>4, StoreAssumption DEF InsertEntry, Holds, HeldPc
    <3>5. CASE UndoOccupy(e) \/ ReleaseSlot(e)
      BY <1>0, <1>1, <2>3, <3>1, <3>5, StoreAssumption DEF UndoOccupy, ReleaseSlot
    <3> QED BY <3>1, <3>2, <3>3, <3>4, <3>5
            DEF EntryReqStep, InStep, BeginEntry, TakeNumber, FindReservation, OccupySlot, DeletePhoto, DropEntry, HeldPc
  <2> QED BY <2>2, <2>3
<1>2. CASE OccupySlot(e)
  <2>1. /\ inPc[e] = "occupy"
        /\ \/ UNCHANGED slot
           \/ /\ slot' = [slot EXCEPT ![inJob[e].slot] = [status |-> "occupied", entry |-> e]]
              /\ inPc'[e] = "claim" /\ inJob'[e] = inJob[e]
    BY <1>2 DEF OccupySlot
  <2>2. slot'[s] = slot[s] \/ (slot'[s] = [status |-> "occupied", entry |-> e] /\ Holds(e, s)')
    BY <1>0, <2>1 DEF Holds
  <2>3. CASE slot'[s] = slot[s]
    BY <1>1, <2>3 DEF LeakInv, NamedIsOccupied
  <2>4. CASE slot'[s] = [status |-> "occupied", entry |-> e] /\ Holds(e, s)'
    <3>1. \A o \in EntryReq : slot'[s] = [status |-> "occupied", entry |-> o] => o = e
      BY <2>4
    <3> QED BY <2>4, <3>1 DEF Holds
  <2> QED BY <2>2, <2>3, <2>4
<1>3. CASE ~OccupySlot(e)
  <2>1. slot'[s] = slot[s] \/ slot'[s].entry = None
    <3>1. CASE UndoOccupy(e)
      BY <1>0, <3>1 DEF UndoOccupy
    <3>2. CASE ReleaseSlot(e)
      BY <1>0, <3>2 DEF ReleaseSlot
    <3>3. CASE ~UndoOccupy(e) /\ ~ReleaseSlot(e)
      BY <1>3, <3>3 DEF EntryReqStep, InStep, BeginEntry, TakeNumber, FindReservation, ClaimReservation,
           SavePhoto, InsertEntry, ReleaseReservation, DeletePhoto, DropEntry, storeVars
    <3> QED BY <3>1, <3>2, <3>3
  <2> QED BY <1>1, <2>1, StoreAssumption DEF LeakInv, NamedIsOccupied
<1> QED BY <1>2, <1>3

(* Closing hands the slot to the exit request, which frees it.             *)
LEMMA LeakOut ==
    ASSUME SlotInv, LeakInv, ~MayFail, NEW x \in ExitReq, ExitReqStep(x)
    PROVE  LeakInv'
<1> USE DEF SlotInv, TypeOK, OpsTypeOK, OutGoto, OutReturn
<1> SUFFICES ASSUME NEW s \in Slot
             PROVE  /\ slot'[s].entry # None => slot'[s].status = "occupied"
                    /\ \A o \in EntryReq : slot'[s] = [status |-> "occupied", entry |-> o] => Holds(o, s)'
  BY DEF LeakInv, NamedIsOccupied, OccupiedIsHeld
<1>0. slot \in [Slot -> SlotDoc]
  BY DEF StoreTypeOK
<1>1. slot'[s] = slot[s] \/ slot'[s].entry = None
  BY <1>0 DEF ExitReqStep, OutStep, BeginExit, InsertPayment, InsertExit, DeletePayment, CloseEntry,
              CompleteReservation, FreeSlot, DropExit, storeVars
<1>2. ASSUME slot'[s] = slot[s], NEW o \in EntryReq, slot[s] = [status |-> "occupied", entry |-> o]
      PROVE  Holds(o, s)'
  <2>1. Holds(o, s)
    BY <1>2 DEF LeakInv, OccupiedIsHeld
  <2>2. UNCHANGED <<inPc, inJob>> /\ \A y \in ExitReq \ {x} : outPc'[y] = outPc[y] /\ outJob'[y] = outJob[y]
    BY DEF ExitReqStep, OutStep, BeginExit, InsertPayment, InsertExit, DeletePayment, CloseEntry,
           CompleteReservation, FreeSlot, DropExit, entryVars
  <2>3. CASE CloseEntry(x)
    <3> DEFINE e == outJob[x].entry
    <3>1. e \in EntryReq /\ entry[e] \in EntryDoc /\ outPc[x] = "close" /\ entry[e].status = "open"
      BY <2>3, FindsOpen DEF CloseEntry, CloseNeverRefused, SettleInv, ExitHasEntry, OutRunning
    <3>2. /\ entry' = [entry EXCEPT ![e] = [entry[e] EXCEPT !.status = "closed", !.exit = x]]
          /\ entry[e].slot # None => outPc'[x] = "complete" /\ outJob'[x] = outJob[x]
      BY <2>3, <3>1 DEF CloseEntry
    <3>3. e = outJob[x].entry
      BY DEF e
    <3> HIDE DEF e
    <3>4. /\ entry'[e].slot = entry[e].slot
          /\ \A p \in EntryReq \ {e} : entry'[p] = entry[p]
      BY <3>1, <3>2 DEF EntryDoc
    <3>5. CASE entry[o].status = "open" /\ entry[o].slot = s /\ o = e
      BY <3>2, <3>3, <3>4, <3>5, StoreAssumption DEF Holds
    <3>6. CASE entry[o].status = "open" /\ entry[o].slot = s /\ o # e
      BY <3>4, <3>6 DEF Holds
    <3>7. CASE ~(entry[o].status = "open" /\ entry[o].slot = s)
      BY <2>1, <2>2, <3>1, <3>4, <3>7 DEF Holds
    <3> QED BY <3>5, <3>6, <3>7
  <2>4. CASE ~CloseEntry(x)
    <3>1. UNCHANGED entry
      BY <2>4 DEF ExitReqStep, OutStep, BeginExit, InsertPayment, InsertExit, DeletePayment,
             CompleteReservation, FreeSlot, DropExit, entryVars
    <3>2. CASE FreeSlot(x) /\ outJob[x].entry = o /\ entry[o].slot = s
      BY <1>0, <1>2, <3>2, StoreAssumption DEF FreeSlot
    <3>3. CASE ~(FreeSlot(x) /\ outJob[x].entry = o /\ entry[o].slot = s)
      <4>1. outPc[x] \in {"complete", "free"} /\ outJob[x].entry = o /\ entry[o].slot = s
            => outPc'[x] \in {"complete", "free"} /\ outJob'[x].entry = o
        BY <2>4, <3>3 DEF ExitReqStep, OutStep, BeginExit, InsertPayment, InsertExit, DeletePayment,
             CompleteReservation, DropExit
      <4> QED BY <2>1, <2>2, <3>1, <4>1 DEF Holds
    <3> QED BY <3>2, <3>3
  <2> QED BY <2>3, <2>4
<1> QED BY <1>1, <1>2, StoreAssumption DEF LeakInv, NamedIsOccupied

(* The slot administration writes no slot that is in an entry's name.      *)
LEMMA LeakAdmin ==
    ASSUME SlotInv, LeakInv, ~AdminOverride, AdminStep
    PROVE  LeakInv'
<1>1. UNCHANGED <<entry, inPc, inJob, outPc, outJob>>
  BY DEF AdminStep, opsVars, entryVars, exitVars
<1>2. \A s \in Slot : slot'[s] = slot[s] \/ slot'[s].entry = None
  <2> USE DEF SlotInv, TypeOK, StoreTypeOK, LeakInv, NamedIsOccupied
  <2>1. ASSUME NEW s \in Slot, NEW status \in AdminStatus,
               CreateSlot(s, status) \/ UpdateSlot(s, status)
        PROVE  \A p \in Slot : slot'[p] = slot[p] \/ slot'[p].entry = None
    BY <2>1 DEF CreateSlot, UpdateSlot, SlotDoc
  <2>2. ASSUME NEW a \in AdminReq, SyncWrite(a)
        PROVE  \A p \in Slot : slot'[p] = slot[p] \/ slot'[p].entry = None
    BY <2>2 DEF SyncWrite, SlotDoc
  <2>3. ASSUME NEW a \in AdminReq, ~SyncWrite(a),
               \/ \E v \in Vehicle, s \in Slot, w \in Window,
                     status \in (ReservationStatus \ {"active"}) \cup {None} :
                     BeginCreate(a, v, s, w, status)
               \/ \E r \in AdminReq, change \in Change : BeginUpdate(a, r, change)
               \/ AdmStep(a)
               \/ DropAdmin(a)
        PROVE  UNCHANGED slot
    BY <2>3 DEF AdmStep, BeginCreate, BeginUpdate, CheckOverlap, InsertReservation,
                RecheckOverlap, WriteReservation, SyncSlot, SyncReservations, DropAdmin, storeVars
  <2> QED BY <2>1, <2>2, <2>3 DEF AdminStep, AdmNext
<1>3. \A s \in Slot, e \in EntryReq : Holds(e, s) => Holds(e, s)'
  BY <1>1 DEF Holds
<1> QED BY <1>2, <1>3, StoreAssumption DEF LeakInv, NamedIsOccupied, OccupiedIsHeld

LEMMA LeakNext == ~MayFail /\ ~AdminOverride /\ SlotInv /\ LeakInv /\ [Next]_vars => LeakInv'
<1> SUFFICES ASSUME ~MayFail, ~AdminOverride, SlotInv, LeakInv, [Next]_vars PROVE LeakInv'
  OBVIOUS
<1>1. CASE DeskStep
  BY <1>1, LeakIn, LeakOut DEF DeskStep, OpsNext, EntryReqStep, ExitReqStep
<1>2. CASE AdminStep
  BY <1>2, LeakAdmin
<1>3. CASE ClockStep \/ UNCHANGED vars
  <2>1. UNCHANGED <<slot, entry, inPc, inJob, outPc, outJob>>
    BY <1>3 DEF ClockStep, Tick, vars, storeVars, opsVars, entryVars, exitVars
  <2> QED BY <2>1 DEF LeakInv, NamedIsOccupied, OccupiedIsHeld, Holds
<1> QED BY <1>1, <1>2, <1>3 DEF Next

(* No slot leaks, as long as no request dies: every refusal of create_entry *)
(* and every settled exit gives back what it had.                          *)
THEOREM ThmOccupiedIsHeld == ASSUME ~MayFail, ~AdminOverride PROVE Spec => []OccupiedIsHeld
<1>1. SlotInv /\ LeakInv /\ [Next]_vars => LeakInv'
  BY LeakNext
<1>2. LeakInv => OccupiedIsHeld
  BY DEF LeakInv
<1> QED BY <1>1, <1>2, LeakInit, SpecSlotInv, PTL DEF Spec
-----------------------------------------------------------------------------
(* A vehicle keeps its reservation. *)

(* The reservation a request found is for its vehicle and its slot, and is *)
(* its own from the claim on.                                              *)
JobClaims(e) ==
    LET r == inJob[e].resv IN
    inPc[e] \in {"occupy", "claim"} \/ (inPc[e] \in {"photo", "insert"} /\ inJob[e].slot # None) =>
        /\ r \in AdminReq /\ resv[r].status # "absent"
        /\ resv[r].slot = inJob[e].slot /\ resv[r].vehicle = inJob[e].vehicle
        /\ inPc[e] \in {"photo", "insert"} => resv[r].claimed = e

EntryClaims(e) ==
    LET r == entry[e].resv IN
    entry[e].status = "open" /\ entry[e].slot # None =>
        /\ r \in AdminReq /\ resv[r].status # "absent"
        /\ resv[r].slot = entry[e].slot /\ resv[r].vehicle = entry[e].vehicle
        /\ resv[r].claimed = e

(* A reservation that exists is not inserted again, and only one that      *)
(* exists is updated.                                                      *)
InsertedOnce ==
    \A a \in AdminReq :
        /\ admPc[a] \in {"idle", "overlap", "insert"} => resv[a].status = "absent"
        /\ admPc[a] \in {"reoverlap", "write"} =>
              admJob[a].resv \in AdminReq /\ resv[admJob[a].resv].status # "absent"

ClaimInv == (\A e \in EntryReq : JobClaims(e) /\ EntryClaims(e)) /\ InsertedOnce

LEMMA ClaimInit == Init => ClaimInv
BY DEF Init, StoreInit, OpsInit, AdmInit, ClaimInv, JobClaims, EntryClaims, InsertedOnce,
       NoReservation, NoEntry

(* A reservation stays, and stays what it is. *)
Stays(r) ==
    /\ resv'[r].status # "absent"
    /\ resv'[r].slot = resv[r].slot /\ resv'[r].vehicle = resv[r].vehicle

AllStay == \A r \in AdminReq : resv[r].status # "absent" => Stays(r)

(* A step that leaves an entry alone, or closes it, and its reservation.   *)
LEMMA ClaimFrame ==
    ASSUME NEW e \in EntryReq, JobClaims(e), EntryClaims(e), AllStay,
           inPc'[e] = inPc[e], inJob'[e] = inJob[e],
           entry'[e].status = "open" => entry'[e] = entry[e],
           \A r \in AdminReq :
               /\ resv[r].claimed = e /\ resv[r].status # "absent"
               /\ \/ inPc[e] \in {"photo", "insert"} /\ inJob[e].slot # None /\ inJob[e].resv = r
                  \/ entry[e].status = "open" /\ entry[e].slot # None /\ entry[e].resv = r
               => resv'[r].claimed = e
    PROVE  JobClaims(e)' /\ EntryClaims(e)'
<1>1. JobClaims(e)'
  BY DEF JobClaims, AllStay, Stays
<1>2. EntryClaims(e)'
  BY DEF EntryClaims, AllStay, Stays
<1> QED BY <1>1, <1>2

(* What is claimed by one entry is claimed by no other, for the slot that  *)
(* goes with it is in the hands of one.                                    *)
LEMMA ClaimedByOne ==
    ASSUME SlotInv, ClaimInv, NEW e \in EntryReq, NEW o \in EntryReq \ {e}, inPc[e] = "claim",
           \/ inPc[o] \in {"photo", "insert"} /\ inJob[o].slot # None /\ inJob[o].resv = inJob[e].resv
           \/ entry[o].status = "open" /\ entry[o].slot # None /\ entry[o].resv = inJob[e].resv
    PROVE  FALSE
<1> DEFINE s == inJob[e].slot
<1>1. resv[inJob[e].resv].slot = s
  BY DEF ClaimInv, JobClaims
<1>2. CASE inPc[o] \in {"photo", "insert"} /\ inJob[o].slot # None /\ inJob[o].resv = inJob[e].resv
  <2>1. inJob[o].slot = s /\ s \in Slot
    BY <1>1, <1>2 DEF ClaimInv, JobClaims, SlotInv, TypeOK, OpsTypeOK, InJob
  <2>2. Holds(e, s) /\ Holds(o, s)
    BY <1>2, <2>1 DEF Holds
  <2>3. /\ slot[s] = [status |-> "occupied", entry |-> e]
        /\ slot[s] = [status |-> "occupied", entry |-> o]
    BY <2>1, <2>2 DEF SlotInv, HolderKeepsSlot
  <2> QED BY <2>3
<1>3. CASE entry[o].status = "open" /\ entry[o].slot # None /\ entry[o].resv = inJob[e].resv
  <2>1. entry[o].slot = s /\ s \in Slot
    BY <1>1, <1>3 DEF ClaimInv, EntryClaims, SlotInv, TypeOK, OpsTypeOK, EntryDoc
  <2>2. Holds(e, s) /\ Holds(o, s)
    BY <1>3, <2>1 DEF Holds
  <2>3. /\ slot[s] = [status |-> "occupied", entry |-> e]
        /\ slot[s] = [status |-> "occupied", entry |-> o]
    BY <2>1, <2>2 DEF SlotInv, HolderKeepsSlot
  <2> QED BY <2>3
<1> QED BY <1>2, <1>3

(* A step of create_entry takes no reservation that is somebody else's.    *)
LEMMA ClaimIn ==
    ASSUME SlotInv, ClaimInv, NEW e \in EntryReq, EntryReqStep(e), UNCHANGED admVars
    PROVE  ClaimInv'
<1> USE DEF SlotInv, TypeOK, OpsTypeOK, StoreTypeOK, InGoto, InReturn
<1>a. inPc[e] # "accepted" /\ entry[e].status = "absent"
  <2>1. inPc[e] # "accepted"
    BY DEF EntryReqStep, InStep, BeginEntry, TakeNumber, FindReservation, OccupySlot, ClaimReservation, UndoOccupy,
           SavePhoto, InsertEntry, ReleaseReservation, ReleaseSlot, DeletePhoto, DropEntry, InRunning
  <2> QED BY <2>1 DEF SettleInv, EntryFollowsAcceptance
<1>b. AllStay /\ \A r \in AdminReq : resv[r].status = "absent" => resv'[r].status = "absent"
  <2>1. CASE ClaimReservation(e) \/ ReleaseReservation(e)
    <3>1. \/ UNCHANGED resv
          \/ \E c \in EntryReq \cup {None} : resv' = [resv EXCEPT ![inJob[e].resv].claimed = c]
      BY <2>1 DEF ClaimReservation, ReleaseReservation
    <3>2. CASE UNCHANGED resv
      BY <3>2 DEF AllStay, Stays
    <3>3. ASSUME NEW c \in EntryReq \cup {None}, resv' = [resv EXCEPT ![inJob[e].resv].claimed = c],
                 NEW r \in AdminReq
          PROVE  resv'[r].status = resv[r].status /\ resv'[r].slot = resv[r].slot
                 /\ resv'[r].vehicle = resv[r].vehicle
      BY <3>3 DEF ReservationDoc
    <3> QED BY <3>1, <3>2, <3>3 DEF AllStay, Stays
  <2>2. CASE ~ClaimReservation(e) /\ ~ReleaseReservation(e)
    <3>1. UNCHANGED resv
      BY <2>2 DEF EntryReqStep, InStep, BeginEntry, TakeNumber, FindReservation, OccupySlot,
             UndoOccupy, SavePhoto, InsertEntry, ReleaseSlot, DeletePhoto, DropEntry, storeVars
    <3> QED BY <3>1 DEF AllStay, Stays
  <2> QED BY <2>1, <2>2
<1>1. InsertedOnce'
  BY <1>b DEF ClaimInv, InsertedOnce, AllStay, Stays, admVars
<1>2. ASSUME NEW o \in EntryReq \ {e} PROVE JobClaims(o)' /\ EntryClaims(o)'
  <2>1. ASSUME NEW r \in AdminReq, resv[r].claimed = o,
               \/ inPc[o] \in {"photo", "insert"} /\ inJob[o].slot # None /\ inJob[o].resv = r
               \/ entry[o].status = "open" /\ entry[o].slot # None /\ entry[o].resv = r
        PROVE  resv'[r].claimed = o
    <3>1. CASE ClaimReservation(e)
      <4>1. inPc[e] = "claim" /\ (UNCHANGED resv \/ resv' = [resv EXCEPT ![inJob[e].resv].claimed = e])
        BY <3>1 DEF ClaimReservation
      <4>2. inJob[e].resv # r
        BY <2>1, <4>1, ClaimedByOne
      <4> QED BY <2>1, <4>1, <4>2
    <3>2. CASE ReleaseReservation(e)
      BY <2>1, <3>2 DEF ReleaseReservation
    <3>3. CASE ~ClaimReservation(e) /\ ~ReleaseReservation(e)
      <4>1. UNCHANGED resv
        BY <3>3 DEF EntryReqStep, InStep, BeginEntry, TakeNumber, FindReservation, OccupySlot,
               UndoOccupy, SavePhoto, InsertEntry, ReleaseSlot, DeletePhoto, DropEntry, storeVars
      <4> QED BY <2>1, <4>1
    <3> QED BY <3>1, <3>2, <3>3
  <2>2. inPc'[o] = inPc[o] /\ inJob'[o] = inJob[o] /\ entry'[o] = entry[o]
    BY InFrame
  <2>3. JobClaims(o) /\ EntryClaims(o)
    BY DEF ClaimInv
  <2> QED BY <1>b, <2>1, <2>2, <2>3, ClaimFrame
<1>3. JobClaims(e)'
  <2>1. JobClaims(e)
    BY DEF ClaimInv
  <2>2. CASE FindReservation(e)
    <3>1. inPc[e] = "find" /\ inJob[e].slot = None /\ UNCHANGED resv
      BY <2>2 DEF FindReservation, NoSlotYet, storeVars
    <3>2. CASE inPc' = [inPc EXCEPT ![e] = "photo"] /\ UNCHANGED inJob
      BY <3>1, <3>2 DEF JobClaims
    <3>3. CASE inPc'[e] = "refused"
      BY <3>3 DEF JobClaims
    <3>4. ASSUME NEW r \in AdminReq, CurrentReservation(r, inJob[e].vehicle, inJob[e].at), inPc'[e] = "occupy",
                 inJob' = [inJob EXCEPT ![e] = [@ EXCEPT !.resv = r, !.slot = resv[r].slot]]
          PROVE  JobClaims(e)'
      <4>1. inJob'[e].resv = r /\ inJob'[e].slot = resv[r].slot /\ inJob'[e].vehicle = inJob[e].vehicle
        BY <3>4 DEF InJob
      <4> QED BY <3>1, <3>4, <4>1 DEF JobClaims, CurrentReservation, ActiveAt
    <3> QED BY <2>2, <3>2, <3>3, <3>4 DEF FindReservation
  <2>3. CASE OccupySlot(e) \/ SavePhoto(e)
    BY <2>1, <2>3 DEF OccupySlot, SavePhoto, JobClaims, storeVars
  <2>4. CASE ClaimReservation(e)
    <3>1. inPc[e] = "claim" /\ UNCHANGED inJob
      BY <2>4 DEF ClaimReservation
    <3>2. \/ inPc'[e] = "undo"
          \/ inPc'[e] = "photo" /\ resv' = [resv EXCEPT ![inJob[e].resv].claimed = e]
      BY <2>4 DEF ClaimReservation
    <3> QED BY <2>1, <3>1, <3>2 DEF JobClaims, ReservationDoc
  <2>5. CASE ~FindReservation(e) /\ ~OccupySlot(e) /\ ~SavePhoto(e) /\ ~ClaimReservation(e)
    <3>1. inPc'[e] \notin {"occupy", "claim", "photo", "insert"}
      BY <2>5 DEF EntryReqStep, InStep, BeginEntry, TakeNumber, UndoOccupy, InsertEntry, ReleaseReservation,
             ReleaseSlot, DeletePhoto, DropEntry
    <3> QED BY <3>1 DEF JobClaims
  <2> QED BY <2>2, <2>3, <2>4, <2>5
<1>4. EntryClaims(e)'
  <2>1. CASE InsertEntry(e)
    <3>1. JobClaims(e) /\ inPc[e] = "insert" /\ UNCHANGED resv
      BY <2>1 DEF InsertEntry, ClaimInv, storeVars
    <3> QED BY <1>a, <2>1, <3>1 DEF InsertEntry, EntryClaims, JobClaims
  <2>2. CASE ~InsertEntry(e)
    <3>1. UNCHANGED entry
      BY <2>2 DEF EntryReqStep, InStep, BeginEntry, TakeNumber, FindReservation, OccupySlot, ClaimReservation,
             UndoOccupy, SavePhoto, ReleaseReservation, ReleaseSlot, DeletePhoto, DropEntry
    <3> QED BY <1>a, <3>1 DEF EntryClaims
  <2> QED BY <2>1, <2>2
<1> QED BY <1>1, <1>2, <1>3, <1>4 DEF ClaimInv

(* A step of create_exit completes a reservation and leaves it claimed.    *)
LEMMA ClaimOut ==
    ASSUME SlotInv, ClaimInv, NEW x \in ExitReq, ExitReqStep(x), UNCHANGED admVars
    PROVE  ClaimInv'
<1> USE DEF SlotInv, TypeOK, OpsTypeOK, StoreTypeOK
<1>1. /\ AllStay
      /\ \A r \in AdminReq : /\ resv[r].status = "absent" => resv'[r].status = "absent"
                             /\ resv'[r].claimed = resv[r].claimed
  <2>1. CASE CompleteReservation(x)
    BY <2>1 DEF AllStay, Stays, CompleteReservation, ReservationDoc
  <2>2. CASE ~CompleteReservation(x)
    <3>1. UNCHANGED resv
      BY <2>2 DEF ExitReqStep, OutStep, BeginExit, InsertPayment, InsertExit, DeletePayment, CloseEntry,
             FreeSlot, DropExit, storeVars
    <3> QED BY <3>1 DEF AllStay, Stays
  <2> QED BY <2>1, <2>2
<1>2. UNCHANGED <<inPc, inJob>>
  BY DEF ExitReqStep, OutStep, BeginExit, InsertPayment, InsertExit, DeletePayment,
         CloseEntry, CompleteReservation, FreeSlot, DropExit, entryVars
<1>3. \A e \in EntryReq : entry'[e].status = "open" => entry'[e] = entry[e]
  <2>1. CASE CloseEntry(x)
    <3> DEFINE e == outJob[x].entry
    <3>1. e \in EntryReq /\ entry[e] \in EntryDoc /\ entry[e].status = "open"
      BY <2>1, FindsOpen DEF CloseEntry, CloseNeverRefused, SettleInv, ExitHasEntry, OutRunning
    <3>2. entry' = [entry EXCEPT ![e] = [entry[e] EXCEPT !.status = "closed", !.exit = x]]
      BY <2>1, <3>1 DEF CloseEntry
    <3> HIDE DEF e
    <3> QED BY <3>1, <3>2 DEF EntryDoc
  <2>2. CASE ~CloseEntry(x)
    BY <2>2 DEF ExitReqStep, OutStep, BeginExit, InsertPayment, InsertExit, DeletePayment,
         CompleteReservation, FreeSlot, DropExit, entryVars
  <2> QED BY <2>1, <2>2
<1>4. \A e \in EntryReq : JobClaims(e)' /\ EntryClaims(e)'
  BY <1>1, <1>2, <1>3, ClaimFrame DEF ClaimInv
<1>5. InsertedOnce'
  BY <1>1 DEF ClaimInv, InsertedOnce, AllStay, Stays, admVars
<1> QED BY <1>4, <1>5 DEF ClaimInv

(* A reservation request changes windows and statuses, nothing else.       *)
LEMMA ClaimAdmin ==
    ASSUME SlotInv, ClaimInv, AdminStep
    PROVE  ClaimInv'
<1> USE DEF SlotInv, TypeOK, StoreTypeOK, AdmTypeOK
<1>a. UNCHANGED <<entry, inPc, inJob>>
  BY DEF AdminStep, opsVars, entryVars
<1> DEFINE Kept == AllStay /\ \A r \in AdminReq : resv[r].status # "absent" => resv'[r].claimed = resv[r].claimed
<1>1. Kept => \A e \in EntryReq : JobClaims(e)' /\ EntryClaims(e)'
  BY <1>a, ClaimFrame DEF ClaimInv
<1>2. ASSUME NEW a \in AdminReq, InsertReservation(a) PROVE Kept /\ InsertedOnce'
  <2>1. /\ resv[a].status = "absent" /\ admPc[a] = "insert" /\ UNCHANGED admJob
        /\ admPc' = [admPc EXCEPT ![a] = "syncSlot"]
        /\ \A r \in AdminReq \ {a} : resv'[r] = resv[r]
    BY <1>2 DEF InsertReservation, AdmGoto, ClaimInv, InsertedOnce
  <2>2. Kept
    BY <2>1 DEF AllStay, Stays
  <2>3. InsertedOnce'
    BY <2>1 DEF ClaimInv, InsertedOnce
  <2> QED BY <2>2, <2>3
<1>3. ASSUME NEW a \in AdminReq, WriteReservation(a) PROVE Kept /\ InsertedOnce'
  <2> DEFINE r == admJob[a].resv
  <2>1. /\ r \in AdminReq /\ resv[r].status # "absent" /\ resv[r] \in ReservationDoc /\ admPc[a] = "write"
        /\ admJob[a].status \in ReservationStatus \cup {None}
        /\ UNCHANGED admJob /\ admPc' = [admPc EXCEPT ![a] = "syncSlot"]
    BY <1>3 DEF WriteReservation, AdmGoto, ClaimInv, InsertedOnce, AdmJob
  <2>2. resv' = [resv EXCEPT ![r] =
                   [resv[r] EXCEPT !.status = Patched(admJob[a].status, resv[r].status),
                                   !.from = Patched(admJob[a].from, resv[r].from),
                                   !.until = Patched(admJob[a].until, resv[r].until)]]
    BY <1>3 DEF WriteReservation
  <2>3. Patched(admJob[a].status, resv[r].status) # "absent"
    BY <2>1 DEF Patched, ReservationStatus
  <2> HIDE DEF r
  <2>4. /\ \A o \in AdminReq \ {r} : resv'[o] = resv[o]
        /\ resv'[r].status # "absent" /\ resv'[r].slot = resv[r].slot
        /\ resv'[r].vehicle = resv[r].vehicle /\ resv'[r].claimed = resv[r].claimed
    BY <2>1, <2>2, <2>3 DEF ReservationDoc
  <2>5. Kept
    BY <2>4 DEF AllStay, Stays
  <2>6. InsertedOnce'
    BY <2>1, <2>4 DEF ClaimInv, InsertedOnce
  <2> QED BY <2>5, <2>6
<1>4. ASSUME UNCHANGED resv, InsertedOnce' PROVE ClaimInv'
  BY <1>1, <1>4 DEF AllStay, Stays, ClaimInv
<1>5. ASSUME NEW s \in Slot, NEW status \in AdminStatus, CreateSlot(s, status) \/ UpdateSlot(s, status)
      PROVE  ClaimInv'
  BY <1>4, <1>5 DEF CreateSlot, UpdateSlot, ClaimInv, InsertedOnce, admVars
<1>6. ASSUME NEW a \in AdminReq,
             \/ \E v \in Vehicle, s \in Slot, w \in Window,
                   status \in (ReservationStatus \ {"active"}) \cup {None} :
                   BeginCreate(a, v, s, w, status)
             \/ \E r \in AdminReq, change \in Change : BeginUpdate(a, r, change)
      PROVE  ClaimInv'
  <2>1. /\ UNCHANGED resv /\ admPc[a] = "idle"
        /\ \A b \in AdminReq \ {a} : admPc'[b] = admPc[b] /\ admJob'[b] = admJob[b]
        /\ \/ admPc'[a] = "overlap"
           \/ /\ admPc'[a] \in {"reoverlap", "write"}
              /\ admJob'[a].resv \in AdminReq /\ resv[admJob'[a].resv].status # "absent"
    BY <1>6 DEF BeginCreate, BeginUpdate, AdmGoto, storeVars
  <2>2. InsertedOnce'
    BY <2>1 DEF ClaimInv, InsertedOnce
  <2> QED BY <1>4, <2>1, <2>2
<1>7. ASSUME NEW a \in AdminReq, AdmStep(a) \/ DropAdmin(a), ~InsertReservation(a), ~WriteReservation(a)
      PROVE  ClaimInv'
  <2>1. /\ UNCHANGED resv
        /\ \A b \in AdminReq \ {a} : admPc'[b] = admPc[b] /\ admJob'[b] = admJob[b]
        /\ \/ admPc[a] = "overlap" /\ admPc'[a] = "insert"
           \/ admPc[a] = "reoverlap" /\ admPc'[a] = "write" /\ admJob'[a] = admJob[a]
           \/ admPc'[a] \notin {"idle", "overlap", "insert", "reoverlap", "write"}
    BY <1>7 DEF AdmStep, CheckOverlap, RecheckOverlap, SyncSlot, SyncReservations, SyncWrite, DropAdmin,
           AdmGoto, AdmReturn, storeVars
  <2>2. InsertedOnce'
    BY <2>1 DEF ClaimInv, InsertedOnce
  <2> QED BY <1>4, <2>1, <2>2
<1>8. ASSUME NEW a \in AdminReq, InsertReservation(a) \/ WriteReservation(a) PROVE ClaimInv'
  BY <1>1, <1>2, <1>3, <1>8 DEF ClaimInv
<1> QED BY <1>5, <1>6, <1>7, <1>8 DEF AdminStep, AdmNext, AdmStep

LEMMA ClaimNext == SlotInv /\ ClaimInv /\ [Next]_vars => ClaimInv'
<1> SUFFICES ASSUME SlotInv, ClaimInv, [Next]_vars PROVE ClaimInv'
  OBVIOUS
<1>1. CASE DeskStep
  BY <1>1, ClaimIn, ClaimOut DEF DeskStep, OpsNext, EntryReqStep, ExitReqStep
<1>2. CASE AdminStep
  BY <1>2, ClaimAdmin
<1>3. CASE ClockStep \/ UNCHANGED vars
  <2>1. UNCHANGED <<resv, entry, inPc, inJob, admPc, admJob>>
    BY <1>3 DEF ClockStep, Tick, vars, storeVars, opsVars, entryVars, admVars
  <2> QED BY <2>1 DEF ClaimInv, JobClaims, EntryClaims, InsertedOnce
<1> QED BY <1>1, <1>2, <1>3 DEF Next

(* A parked vehicle's reservation is claimed by its entry and by no other, *)
(* whatever dies: the slot it stands in is what excludes the others, as    *)
(* long as the slot screen leaves occupied slots alone.                    *)
THEOREM ThmClaimIsOurs == ASSUME ~AdminOverride PROVE Spec => []ClaimIsOurs
<1>1. ClaimInv => ClaimIsOurs
  BY DEF ClaimInv, EntryClaims, ClaimIsOurs
<1>2. SlotInv /\ ClaimInv /\ [Next]_vars => ClaimInv'
  BY ClaimNext
<1> QED BY <1>1, <1>2, ClaimInit, SpecSlotInv, PTL DEF Spec
=============================================================================
