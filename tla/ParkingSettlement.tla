------------------------- MODULE ParkingSettlement --------------------------
(***************************************************************************)
(* The desk, for any number of requests that come at the same time and die *)
(* at any point: type correctness of ParkingSystem, why settling is right  *)
(* (ClosedHasItsExit, CloseNeverRefused and SettledForGood, and            *)
(* LedgerAgrees and ExitMeansClosed when no request dies), and that the    *)
(* desk implements ParkingVisits.                                          *)
(***************************************************************************)
EXTENDS ParkingSystem, TLAPS

(* The types hold initially. *)
LEMMA InitTypeOK == Init => TypeOK
<1> SUFFICES ASSUME Init PROVE TypeOK
  OBVIOUS
<1> USE StoreAssumption DEF Init, Time
<1>1. StoreTypeOK
  BY DEF StoreInit, StoreTypeOK, SlotDoc, ReservationDoc, NoReservation
<1>2. OpsTypeOK
  BY DEF OpsInit, OpsTypeOK, EntryDoc, NoEntry, InJob, NoInJob, ExitDoc, NoExit
<1>3. AdmTypeOK
  BY DEF AdmInit, AdmTypeOK, AdmJob, NoAdmJob
<1> QED BY <1>1, <1>2, <1>3 DEF TypeOK

(* The program counter and the locals of an entry request stay typed when  *)
(* the request moves on ...                                                *)
LEMMA InGotoType ==
    ASSUME OpsTypeOK, NEW e \in EntryReq, NEW step \in InRunning, InGoto(e, step)
    PROVE  inPc' \in [EntryReq -> {"idle"} \cup InRunning \cup InEnded]
BY DEF OpsTypeOK, InGoto

(* ... and when it returns. *)
LEMMA InReturnType ==
    ASSUME OpsTypeOK, NEW e \in EntryReq, NEW outcome \in InEnded, InReturn(e, outcome)
    PROVE  /\ inPc' \in [EntryReq -> {"idle"} \cup InRunning \cup InEnded]
           /\ inJob' \in [EntryReq -> InJob]
<1>1. NoInJob \in InJob
  BY StoreAssumption DEF InJob, NoInJob, Time
<1> QED BY <1>1 DEF OpsTypeOK, InGoto, InReturn

(* A step of create_entry preserves the types. *)
LEMMA InTypeOK ==
    ASSUME TypeOK, NEW e \in EntryReq,
           \/ \E v \in Vehicle, t \in Tag \cup {None}, post \in PostedAt : BeginEntry(e, v, t, post)
           \/ InStep(e)
           \/ DropEntry(e)
    PROVE  StoreTypeOK' /\ OpsTypeOK'
<1> USE DEF TypeOK, InRunning, InEnded
<1>a. InReturn(e, "refused") \/ InReturn(e, "accepted") \/ InReturn(e, "dropped")
      => /\ inPc' \in [EntryReq -> {"idle"} \cup InRunning \cup InEnded]
         /\ inJob' \in [EntryReq -> InJob]
  BY InReturnType
<1>b. ASSUME NEW step \in InRunning, InGoto(e, step)
      PROVE  inPc' \in [EntryReq -> {"idle"} \cup InRunning \cup InEnded]
  BY <1>b, InGotoType
<1>1. CASE \E v \in Vehicle, t \in Tag \cup {None}, post \in PostedAt : BeginEntry(e, v, t, post)
  <2> PICK v \in Vehicle, t \in Tag \cup {None}, post \in PostedAt : BeginEntry(e, v, t, post)
    BY <1>1
  <2>1. inJob' \in [EntryReq -> InJob]
    BY OperationsAssumption DEF BeginEntry, InJob, StoreTypeOK, OpsTypeOK
  <2> QED BY <1>b, <2>1 DEF BeginEntry, StoreTypeOK, OpsTypeOK, exitVars, storeVars
<1>2. CASE TakeNumber(e)
  <2>1. inJob' \in [EntryReq -> InJob] /\ sequence' \in Nat
    BY <1>2 DEF TakeNumber, InJob, OpsTypeOK
  <2> QED BY <1>2, <1>b, <2>1 DEF TakeNumber, StoreTypeOK, OpsTypeOK, exitVars, storeVars
<1>3. CASE FindReservation(e)
  <2>1. inJob' \in [EntryReq -> InJob]
    <3>1. ASSUME NEW r \in AdminReq,
                 inJob' = [inJob EXCEPT ![e] = [@ EXCEPT !.resv = r, !.slot = resv[r].slot]]
          PROVE  inJob' \in [EntryReq -> InJob]
      BY <3>1 DEF OpsTypeOK, StoreTypeOK, InJob, ReservationDoc
    <3> QED BY <1>3, <1>a, <3>1 DEF FindReservation, OpsTypeOK
  <2>2. inPc' \in [EntryReq -> {"idle"} \cup InRunning \cup InEnded]
    BY <1>3, <1>a, <1>b DEF FindReservation
  <2> QED BY <1>3, <2>1, <2>2 DEF FindReservation, StoreTypeOK, OpsTypeOK, exitVars, storeVars
<1>4. CASE OccupySlot(e)
  <2>1. slot' \in [Slot -> SlotDoc]
    BY <1>4 DEF OccupySlot, StoreTypeOK, SlotDoc, SlotStatus
  <2> QED BY <1>4, <1>a, <1>b, <2>1 DEF OccupySlot, StoreTypeOK, OpsTypeOK, exitVars
<1>5. CASE ClaimReservation(e)
  <2>1. resv' \in [AdminReq -> ReservationDoc]
    BY <1>5 DEF ClaimReservation, StoreTypeOK, ReservationDoc
  <2> QED BY <1>5, <1>b, <2>1 DEF ClaimReservation, StoreTypeOK, OpsTypeOK, exitVars
<1>6. CASE UndoOccupy(e)
  <2>1. slot' \in [Slot -> SlotDoc]
    BY <1>6 DEF UndoOccupy, StoreTypeOK, SlotDoc, SlotStatus
  <2> QED BY <1>6, <1>a, <2>1 DEF UndoOccupy, StoreTypeOK, OpsTypeOK, exitVars
<1>7. CASE SavePhoto(e)
  BY <1>7, <1>a, <1>b DEF SavePhoto, StoreTypeOK, OpsTypeOK, exitVars, storeVars
<1>8. CASE InsertEntry(e)
  <2>1. entry' \in [EntryReq -> EntryDoc]
    BY <1>8 DEF InsertEntry, OpsTypeOK, InJob, EntryDoc
  <2> QED BY <1>8, <1>a, <1>b, <2>1 DEF InsertEntry, StoreTypeOK, OpsTypeOK, exitVars, storeVars
<1>9. CASE ReleaseReservation(e)
  <2>1. resv' \in [AdminReq -> ReservationDoc]
    BY <1>9 DEF ReleaseReservation, StoreTypeOK, ReservationDoc
  <2> QED BY <1>9, <1>b, <2>1 DEF ReleaseReservation, StoreTypeOK, OpsTypeOK, exitVars
<1>10. CASE ReleaseSlot(e)
  <2>1. slot' \in [Slot -> SlotDoc]
    BY <1>10 DEF ReleaseSlot, StoreTypeOK, SlotDoc, SlotStatus
  <2> QED BY <1>10, <1>a, <1>b, <2>1 DEF ReleaseSlot, StoreTypeOK, OpsTypeOK, exitVars
<1>11. CASE DeletePhoto(e)
  BY <1>11, <1>a DEF DeletePhoto, StoreTypeOK, OpsTypeOK, exitVars, storeVars
<1>12. CASE DropEntry(e)
  BY <1>12, <1>a DEF DropEntry, StoreTypeOK, OpsTypeOK, exitVars, storeVars
<1> QED
  BY <1>1, <1>2, <1>3, <1>4, <1>5, <1>6, <1>7, <1>8, <1>9, <1>10, <1>11, <1>12 DEF InStep

-----------------------------------------------------------------------------
(* The same for an exit request. *)
LEMMA OutGotoType ==
    ASSUME OpsTypeOK, NEW x \in ExitReq, NEW step \in OutRunning, OutGoto(x, step)
    PROVE  outPc' \in [ExitReq -> {"idle"} \cup OutRunning \cup OutEnded]
BY DEF OpsTypeOK, OutGoto

LEMMA OutReturnType ==
    ASSUME OpsTypeOK, NEW x \in ExitReq, NEW outcome \in OutEnded, OutReturn(x, outcome)
    PROVE  /\ outPc' \in [ExitReq -> {"idle"} \cup OutRunning \cup OutEnded]
           /\ outJob' \in [ExitReq -> ExitDoc]
BY DEF OpsTypeOK, OutGoto, OutReturn, ExitDoc, NoExit

(* A step of create_exit preserves the types. *)
LEMMA OutTypeOK ==
    ASSUME TypeOK, NEW x \in ExitReq,
           \/ \E e \in EntryReq, owing \in BOOLEAN : BeginExit(x, e, owing)
           \/ OutStep(x)
           \/ DropExit(x)
    PROVE  StoreTypeOK' /\ OpsTypeOK'
<1> USE DEF TypeOK, OutRunning, OutEnded
<1>a. OutReturn(x, "refused") \/ OutReturn(x, "settled") \/ OutReturn(x, "dropped")
      => /\ outPc' \in [ExitReq -> {"idle"} \cup OutRunning \cup OutEnded]
         /\ outJob' \in [ExitReq -> ExitDoc]
  BY OutReturnType
<1>b. ASSUME NEW step \in OutRunning, OutGoto(x, step)
      PROVE  outPc' \in [ExitReq -> {"idle"} \cup OutRunning \cup OutEnded]
  BY <1>b, OutGotoType
<1>1. CASE \E e \in EntryReq, owing \in BOOLEAN : BeginExit(x, e, owing)
  <2> PICK e \in EntryReq, owing \in BOOLEAN : BeginExit(x, e, owing)
    BY <1>1
  <2>1. outJob' \in [ExitReq -> ExitDoc]
    BY DEF BeginExit, ExitDoc, OpsTypeOK
  <2> QED BY <1>b, <2>1 DEF BeginExit, StoreTypeOK, OpsTypeOK, entryVars, storeVars
<1>2. CASE InsertPayment(x)
  BY <1>2, <1>b DEF InsertPayment, StoreTypeOK, OpsTypeOK, entryVars, storeVars
<1>3. CASE InsertExit(x)
  BY <1>3, <1>a, <1>b DEF InsertExit, StoreTypeOK, OpsTypeOK, entryVars, storeVars
<1>4. CASE DeletePayment(x)
  BY <1>4, <1>a DEF DeletePayment, StoreTypeOK, OpsTypeOK, entryVars, storeVars
<1>5. CASE CloseEntry(x)
  <2>1. entry' \in [EntryReq -> EntryDoc]
    <3> DEFINE e == outJob[x].entry
    <3>1. CASE entry[e].status = "open" /\ e \in EntryReq
      <4>1. entry[e] \in EntryDoc
        BY <3>1 DEF OpsTypeOK
      <4>2. [entry[e] EXCEPT !.status = "closed", !.exit = x] \in EntryDoc
        BY <4>1 DEF EntryDoc
      <4>3. entry' = [entry EXCEPT ![e] = [entry[e] EXCEPT !.status = "closed", !.exit = x]]
        BY <1>5, <3>1 DEF CloseEntry
      <4> QED BY <3>1, <4>2, <4>3 DEF OpsTypeOK
    <3>2. CASE entry[e].status # "open" \/ e \notin EntryReq
      BY <1>5, <3>2 DEF CloseEntry, OpsTypeOK
    <3> QED BY <3>1, <3>2
  <2>2. exits' \in [ExitReq -> ExitDoc]
    <3>1. NoExit \in ExitDoc
      BY DEF NoExit, ExitDoc
    <3> QED BY <1>5, <3>1 DEF CloseEntry, OpsTypeOK
  <2> QED BY <1>5, <1>a, <1>b, <2>1, <2>2 DEF CloseEntry, StoreTypeOK, OpsTypeOK, storeVars
<1>6. CASE CompleteReservation(x)
  <2>1. resv' \in [AdminReq -> ReservationDoc]
    BY <1>6 DEF CompleteReservation, StoreTypeOK, ReservationDoc, ReservationStatus
  <2> QED BY <1>6, <1>b, <2>1 DEF CompleteReservation, StoreTypeOK, OpsTypeOK, entryVars
<1>7. CASE FreeSlot(x)
  <2>1. slot' \in [Slot -> SlotDoc]
    BY <1>7 DEF FreeSlot, StoreTypeOK, SlotDoc, SlotStatus
  <2> QED BY <1>7, <1>a, <2>1 DEF FreeSlot, StoreTypeOK, OpsTypeOK, entryVars
<1>8. CASE DropExit(x)
  BY <1>8, <1>a DEF DropExit, StoreTypeOK, OpsTypeOK, entryVars, storeVars
<1> QED
  BY <1>1, <1>2, <1>3, <1>4, <1>5, <1>6, <1>7, <1>8 DEF OutStep

-----------------------------------------------------------------------------
(* The same for a reservation request. *)
LEMMA AdmGotoType ==
    ASSUME AdmTypeOK, NEW a \in AdminReq, NEW step \in AdmRunning, AdmGoto(a, step)
    PROVE  admPc' \in [AdminReq -> {"idle"} \cup AdmRunning \cup AdmEnded]
BY DEF AdmTypeOK, AdmGoto

LEMMA AdmReturnType ==
    ASSUME AdmTypeOK, NEW a \in AdminReq, NEW outcome \in AdmEnded, AdmReturn(a, outcome)
    PROVE  /\ admPc' \in [AdminReq -> {"idle"} \cup AdmRunning \cup AdmEnded]
           /\ admJob' \in [AdminReq -> AdmJob]
<1>1. NoAdmJob \in AdmJob
  BY StoreAssumption DEF AdmJob, NoAdmJob, Time
<1> QED BY <1>1 DEF AdmTypeOK, AdmGoto, AdmReturn

(* A step of the slot administration preserves the types.                  *)
LEMMA AdmTypeStep ==
    ASSUME TypeOK, AdmNext
    PROVE  StoreTypeOK' /\ AdmTypeOK'
<1> USE DEF TypeOK, AdmRunning, AdmEnded
<1>1. CASE \E s \in Slot, status \in AdminStatus : CreateSlot(s, status) \/ UpdateSlot(s, status)
  <2> PICK s \in Slot, status \in AdminStatus : CreateSlot(s, status) \/ UpdateSlot(s, status)
    BY <1>1
  <2>1. slot' \in [Slot -> SlotDoc]
    BY AdminAssumption DEF CreateSlot, UpdateSlot, StoreTypeOK, SlotDoc
  <2> QED BY <2>1 DEF CreateSlot, UpdateSlot, StoreTypeOK, AdmTypeOK, admVars
<1>2. ASSUME NEW a \in AdminReq,
             \/ \E v \in Vehicle, s \in Slot, w \in Window,
                   status \in (ReservationStatus \ {"active"}) \cup {None} :
                   BeginCreate(a, v, s, w, status)
             \/ \E r \in AdminReq, change \in Change : BeginUpdate(a, r, change)
             \/ AdmStep(a)
             \/ DropAdmin(a)
      PROVE  StoreTypeOK' /\ AdmTypeOK'
  <2>a. AdmReturn(a, "refused") \/ AdmReturn(a, "done") \/ AdmReturn(a, "dropped")
        => /\ admPc' \in [AdminReq -> {"idle"} \cup AdmRunning \cup AdmEnded]
           /\ admJob' \in [AdminReq -> AdmJob]
    BY AdmReturnType
  <2>b. ASSUME NEW step \in AdmRunning, AdmGoto(a, step)
        PROVE  admPc' \in [AdminReq -> {"idle"} \cup AdmRunning \cup AdmEnded]
    BY <2>b, AdmGotoType
  <2>1. CASE \E v \in Vehicle, s \in Slot, w \in Window,
               status \in (ReservationStatus \ {"active"}) \cup {None} :
               BeginCreate(a, v, s, w, status)
    <3> PICK v \in Vehicle, s \in Slot, w \in Window,
               status \in (ReservationStatus \ {"active"}) \cup {None} :
               BeginCreate(a, v, s, w, status)
      BY <2>1
    <3>1. w[1] \in Time /\ w[2] \in Time
      BY AdminAssumption
    <3>2. admJob' \in [AdminReq -> AdmJob]
      BY <3>1 DEF BeginCreate, AdmJob, AdmTypeOK
    <3> QED BY <2>b, <3>2 DEF BeginCreate, StoreTypeOK, AdmTypeOK, storeVars
  <2>2. CASE \E r \in AdminReq, change \in Change : BeginUpdate(a, r, change)
    <3> PICK r \in AdminReq, change \in Change : BeginUpdate(a, r, change)
      BY <2>2
    <3>1. change \in [status : ReservationStatus \cup {None},
                      from : Time \cup {None}, until : Time \cup {None}]
      BY AdminAssumption
    <3>2. admJob' \in [AdminReq -> AdmJob]
      BY <3>1 DEF BeginUpdate, AdmJob, AdmTypeOK, StoreTypeOK, ReservationDoc, Patched
    <3> QED BY <2>b, <3>2 DEF BeginUpdate, StoreTypeOK, AdmTypeOK, storeVars
  <2>3. CASE CheckOverlap(a)
    BY <2>3, <2>a, <2>b DEF CheckOverlap, StoreTypeOK, AdmTypeOK, storeVars
  <2>4. CASE InsertReservation(a)
    <3>1. resv' \in [AdminReq -> ReservationDoc]
      <4>1. Patched(admJob[a].status, "active") \in ReservationStatus
        BY DEF Patched, AdmTypeOK, AdmJob, ReservationStatus
      <4> QED BY <2>4, <4>1 DEF InsertReservation, StoreTypeOK, AdmTypeOK, AdmJob, ReservationDoc
    <3> QED BY <2>4, <2>b, <3>1 DEF InsertReservation, StoreTypeOK, AdmTypeOK
  <2>5. CASE RecheckOverlap(a)
    BY <2>5, <2>a, <2>b DEF RecheckOverlap, StoreTypeOK, AdmTypeOK, storeVars
  <2>6. CASE WriteReservation(a)
    <3>1. resv' \in [AdminReq -> ReservationDoc]
      <4> DEFINE r == admJob[a].resv
      <4>1. CASE r \in AdminReq
        <5>1. resv[r] \in ReservationDoc /\ admJob[a] \in AdmJob
          BY <4>1 DEF StoreTypeOK, AdmTypeOK
        <5>2. [resv[r] EXCEPT !.status = Patched(admJob[a].status, resv[r].status),
                              !.from = Patched(admJob[a].from, resv[r].from),
                              !.until = Patched(admJob[a].until, resv[r].until)]
                \in ReservationDoc
          BY <5>1 DEF Patched, AdmJob, ReservationDoc
        <5>3. resv' = [resv EXCEPT ![r] =
                         [resv[r] EXCEPT !.status = Patched(admJob[a].status, resv[r].status),
                                         !.from = Patched(admJob[a].from, resv[r].from),
                                         !.until = Patched(admJob[a].until, resv[r].until)]]
          BY <2>6 DEF WriteReservation
        <5> QED BY <4>1, <5>2, <5>3 DEF StoreTypeOK
      <4>2. CASE r \notin AdminReq
        BY <2>6, <4>2 DEF WriteReservation, StoreTypeOK
      <4> QED BY <4>1, <4>2
    <3> QED BY <2>6, <2>b, <3>1 DEF WriteReservation, StoreTypeOK, AdmTypeOK
  <2>7. CASE SyncSlot(a)
    BY <2>7, <2>a, <2>b DEF SyncSlot, StoreTypeOK, AdmTypeOK, storeVars
  <2>8. CASE SyncReservations(a)
    <3>1. admJob' \in [AdminReq -> AdmJob]
      <4>1. Pending(admJob[a].slot) \in BOOLEAN
        BY Zenon DEF Pending
      <4> QED BY <2>8, <4>1 DEF SyncReservations, AdmTypeOK, AdmJob
    <3> QED BY <2>8, <2>b, <3>1 DEF SyncReservations, StoreTypeOK, AdmTypeOK, storeVars
  <2>9. CASE SyncWrite(a)
    <3>1. slot' \in [Slot -> SlotDoc]
      BY <2>9 DEF SyncWrite, StoreTypeOK, SlotDoc, SlotStatus
    <3> QED BY <2>9, <2>a, <3>1 DEF SyncWrite, StoreTypeOK, AdmTypeOK
  <2>10. CASE DropAdmin(a)
    BY <2>10, <2>a DEF DropAdmin, StoreTypeOK, AdmTypeOK, storeVars
  <2> QED
    BY <1>2, <2>1, <2>2, <2>3, <2>4, <2>5, <2>6, <2>7, <2>8, <2>9, <2>10 DEF AdmStep
<1> QED BY <1>1, <1>2 DEF AdmNext

-----------------------------------------------------------------------------
(* Every step of the system preserves the types. *)
LEMMA NextTypeOK == TypeOK /\ [Next]_vars => TypeOK'
<1> SUFFICES ASSUME TypeOK, [Next]_vars PROVE TypeOK'
  OBVIOUS
<1>1. CASE ClockStep
  <2>1. now' \in Time
    BY <1>1, StoreAssumption DEF ClockStep, Tick, TypeOK, StoreTypeOK, Time
  <2> QED
    BY <1>1, <2>1 DEF ClockStep, Tick, TypeOK, StoreTypeOK, OpsTypeOK, AdmTypeOK,
                      opsVars, entryVars, exitVars, admVars
<1>2. CASE DeskStep
  <2>1. StoreTypeOK' /\ OpsTypeOK'
    BY <1>2, InTypeOK, OutTypeOK DEF DeskStep, OpsNext
  <2> QED BY <1>2, <2>1 DEF DeskStep, TypeOK, AdmTypeOK, admVars
<1>3. CASE AdminStep
  <2>1. StoreTypeOK' /\ AdmTypeOK'
    BY <1>3, AdmTypeStep DEF AdminStep
  <2> QED BY <1>3, <2>1 DEF AdminStep, TypeOK, OpsTypeOK, opsVars, entryVars, exitVars
<1>4. CASE UNCHANGED vars
  BY <1>4 DEF vars, TypeOK, StoreTypeOK, OpsTypeOK, AdmTypeOK,
              storeVars, opsVars, entryVars, exitVars, admVars
<1> QED BY <1>1, <1>2, <1>3, <1>4 DEF Next

(* Type correctness: whatever the handlers do and however many of them     *)
(* run, every collection and every local keeps its type.                   *)
THEOREM ThmTypeOK == Spec => []TypeOK
BY InitTypeOK, NextTypeOK, PTL DEF Spec

-----------------------------------------------------------------------------
(* An entry document exists only once its request has been accepted. *)
EntryFollowsAcceptance ==
    \A e \in EntryReq : inPc[e] # "accepted" => entry[e].status = "absent"

(* An exit request works on an entry that is stored. *)
ExitHasEntry ==
    \A x \in ExitReq : outPc[x] \in OutRunning =>
        outJob[x].entry \in EntryReq /\ entry[outJob[x].entry].status # "absent"

(* What uq_exit_entry enforces. *)
OneExitPerEntry ==
    \A x, y \in ExitReq : exits[x].entry # None /\ exits[x].entry = exits[y].entry => x = y

(* An exit document exists only from its insertion on, for the request's   *)
(* own entry.                                                              *)
ExitFollowsInsert ==
    \A x \in ExitReq :
        /\ outPc[x] \in {"idle", "pay", "exit", "unpay"} => exits[x] = NoExit
        /\ outPc[x] \in {"close", "complete", "free"} => exits[x] = outJob[x]

(* A closed entry names the request that closed it, which is past closing. *)
CloserIsPast ==
    \A e \in EntryReq : entry[e].status = "closed" =>
        /\ entry[e].exit \in ExitReq
        /\ exits[entry[e].exit].entry = e
        /\ outPc[entry[e].exit] \in {"complete", "free"} \cup OutEnded

SettleInv ==
    /\ EntryFollowsAcceptance
    /\ ExitHasEntry
    /\ OneExitPerEntry
    /\ ExitFollowsInsert
    /\ CloserIsPast

(* The books of one exit request, as long as no request dies. *)
BooksOf(x) ==
    /\ outPc[x] \in {"idle", "pay"} => x \notin payments
    /\ outPc[x] \in {"exit", "close", "complete", "free"} =>
          (x \in payments <=> outJob[x].paid)
    /\ outPc[x] = "unpay" => x \in payments
    /\ outPc[x] \in {"complete", "free"} => entry[outJob[x].entry].status = "closed"
    /\ outPc[x] = "pay" => outJob[x].paid
    /\ outPc[x] \in OutEnded =>
          /\ x \in payments <=> exits[x].entry # None /\ exits[x].paid
          /\ exits[x].entry # None => entry[exits[x].entry].status = "closed"

BooksInv == \A x \in ExitReq : BooksOf(x)

-----------------------------------------------------------------------------
(* Apart from InsertEntry, a step of create_entry touches nothing that     *)
(* settlement reads, and never reports an acceptance.                      *)
LEMMA InKeepsSettlement ==
    ASSUME TypeOK, NEW e \in EntryReq,
           \/ \E v \in Vehicle, t \in Tag \cup {None}, post \in PostedAt : BeginEntry(e, v, t, post)
           \/ TakeNumber(e) \/ FindReservation(e) \/ OccupySlot(e) \/ ClaimReservation(e)
           \/ UndoOccupy(e) \/ SavePhoto(e) \/ ReleaseReservation(e) \/ ReleaseSlot(e)
           \/ DeletePhoto(e) \/ DropEntry(e)
    PROVE  /\ UNCHANGED <<entry, exits, payments, outPc, outJob>>
           /\ inPc[e] # "accepted"
           /\ \A o \in EntryReq : inPc'[o] = "accepted" => o # e /\ inPc[o] = "accepted"
           /\ \A o \in EntryReq : inPc[o] = "accepted" => inPc'[o] = "accepted"
<1> USE DEF TypeOK, OpsTypeOK, exitVars, InGoto, InReturn, InRunning
<1>1. CASE \E v \in Vehicle, t \in Tag \cup {None}, post \in PostedAt : BeginEntry(e, v, t, post)
  BY <1>1 DEF BeginEntry
<1>2. CASE TakeNumber(e) \/ FindReservation(e) \/ OccupySlot(e) \/ ClaimReservation(e)
  BY <1>2 DEF TakeNumber, FindReservation, OccupySlot, ClaimReservation
<1>3. CASE UndoOccupy(e) \/ SavePhoto(e) \/ ReleaseReservation(e) \/ ReleaseSlot(e)
  BY <1>3 DEF UndoOccupy, SavePhoto, ReleaseReservation, ReleaseSlot
<1>4. CASE DeletePhoto(e) \/ DropEntry(e)
  BY <1>4 DEF DeletePhoto, DropEntry
<1> QED BY <1>1, <1>2, <1>3, <1>4

LEMMA SettleInit == Init => SettleInv
BY StoreAssumption
DEF Init, OpsInit, SettleInv, EntryFollowsAcceptance, ExitHasEntry, OneExitPerEntry,
    ExitFollowsInsert, CloserIsPast, NoEntry, NoExit, OutRunning

(* A step of create_entry preserves the settlement invariant. *)
LEMMA SettleIn ==
    ASSUME TypeOK, SettleInv, NEW e \in EntryReq,
           \/ \E v \in Vehicle, t \in Tag \cup {None}, post \in PostedAt : BeginEntry(e, v, t, post)
           \/ InStep(e)
           \/ DropEntry(e)
    PROVE  SettleInv'
<1> USE DEF SettleInv, EntryFollowsAcceptance, ExitHasEntry, OneExitPerEntry,
            ExitFollowsInsert, CloserIsPast
<1>1. CASE InsertEntry(e)
  <2>1. CASE DuplicateEntry(inJob[e].vehicle, inJob[e].token)
    BY <1>1, <2>1 DEF InsertEntry, InGoto, InReturn, TypeOK, OpsTypeOK, exitVars
  <2>2. CASE ~DuplicateEntry(inJob[e].vehicle, inJob[e].token)
    <3>1. entry[e].status = "absent" /\ inPc' = [inPc EXCEPT ![e] = "accepted"]
      BY <1>1, <2>2 DEF InsertEntry, InReturn, InGoto
    <3>2. /\ \A o \in EntryReq \ {e} : entry'[o] = entry[o]
          /\ entry'[e].status = "open"
          /\ UNCHANGED <<exits, outPc, outJob>>
      BY <1>1, <2>2 DEF InsertEntry, TypeOK, OpsTypeOK, exitVars
    <3> QED BY <3>1, <3>2 DEF TypeOK, OpsTypeOK
  <2> QED BY <2>1, <2>2
<1>2. CASE ~InsertEntry(e)
  <2>1. /\ UNCHANGED <<entry, exits, outPc, outJob>>
        /\ inPc[e] # "accepted"
        /\ \A o \in EntryReq : inPc[o] = "accepted" => inPc'[o] = "accepted"
    BY <1>2, InKeepsSettlement DEF InStep
  <2> QED BY <2>1
<1> QED BY <1>1, <1>2

(* A step of create_exit preserves the settlement invariant. *)
LEMMA SettleOut ==
    ASSUME TypeOK, SettleInv, NEW x \in ExitReq,
           \/ \E e \in EntryReq, owing \in BOOLEAN : BeginExit(x, e, owing)
           \/ OutStep(x)
           \/ DropExit(x)
    PROVE  SettleInv'
<1> USE DEF SettleInv, EntryFollowsAcceptance, ExitHasEntry, OneExitPerEntry,
            ExitFollowsInsert, CloserIsPast, OutGoto, OutReturn, OutRunning, OutEnded,
            TypeOK, OpsTypeOK
<1>1. CASE \E e \in EntryReq, owing \in BOOLEAN : BeginExit(x, e, owing)
  BY <1>1 DEF BeginExit, entryVars
<1>2. CASE InsertPayment(x)
  BY <1>2 DEF InsertPayment, entryVars
<1>3. CASE InsertExit(x)
  <2>1. CASE DuplicateExit(outJob[x].entry)
    BY <1>3, <2>1 DEF InsertExit, entryVars
  <2>2. CASE ~DuplicateExit(outJob[x].entry)
    <3>1. /\ outPc[x] = "exit" /\ outPc' = [outPc EXCEPT ![x] = "close"]
          /\ exits' = [exits EXCEPT ![x] = outJob[x]]
          /\ UNCHANGED <<entry, inPc, outJob>>
      BY <1>3, <2>2 DEF InsertExit, entryVars
    <3>2. \A o \in ExitReq : exits[o].entry # outJob[x].entry
      BY <2>2 DEF DuplicateExit
    <3>3. OneExitPerEntry'
      BY <3>1, <3>2
    <3>4. \A e \in EntryReq : entry[e].status = "closed" => entry[e].exit # x
      BY <3>1
    <3>5. CloserIsPast'
      BY <3>1, <3>4
    <3> QED BY <3>1, <3>3, <3>5
  <2> QED BY <2>1, <2>2
<1>4. CASE DeletePayment(x)
  BY <1>4 DEF DeletePayment, entryVars
<1>5. CASE CloseEntry(x)
  <2> DEFINE e == outJob[x].entry
  <2>1. /\ outPc[x] = "close" /\ e \in EntryReq /\ exits[x] = outJob[x]
        /\ entry[e].status # "absent"
    BY <1>5 DEF CloseEntry
  <2>2. entry[e].status = "open"
    BY <2>1, StoreAssumption DEF EntryDoc
  <2>3. /\ entry' = [entry EXCEPT ![e] = [entry[e] EXCEPT !.status = "closed", !.exit = x]]
        /\ UNCHANGED <<exits, inPc>>
        /\ \/ outPc' = [outPc EXCEPT ![x] = "complete"] /\ UNCHANGED outJob
           \/ /\ outPc' = [outPc EXCEPT ![x] = "settled"]
              /\ outJob' = [outJob EXCEPT ![x] = NoExit]
    BY <1>5, <2>2 DEF CloseEntry
  <2>4. /\ entry'[e].status = "closed" /\ entry'[e].exit = x
        /\ \A o \in EntryReq \ {e} : entry'[o] = entry[o]
    <3>1. entry[e] \in EntryDoc
      BY <2>1
    <3> HIDE DEF e
    <3> QED BY <2>1, <2>3, <3>1 DEF EntryDoc
  <2> QED BY <2>1, <2>2, <2>3, <2>4
<1>6. CASE CompleteReservation(x) \/ FreeSlot(x)
  BY <1>6 DEF CompleteReservation, FreeSlot, entryVars
<1>7. CASE DropExit(x)
  BY <1>7 DEF DropExit, entryVars
<1> QED BY <1>1, <1>2, <1>3, <1>4, <1>5, <1>6, <1>7 DEF OutStep

LEMMA SettleNext == TypeOK /\ SettleInv /\ [Next]_vars => SettleInv'
<1> SUFFICES ASSUME TypeOK, SettleInv, [Next]_vars PROVE SettleInv'
  OBVIOUS
<1>1. CASE DeskStep
  BY <1>1, SettleIn, SettleOut DEF DeskStep, OpsNext
<1>2. CASE ClockStep \/ AdminStep \/ UNCHANGED vars
  <2>1. UNCHANGED <<entry, exits, inPc, outPc, outJob>>
    BY <1>2 DEF ClockStep, AdminStep, vars, opsVars, entryVars, exitVars
  <2> QED BY <2>1 DEF SettleInv, EntryFollowsAcceptance, ExitHasEntry, OneExitPerEntry,
                      ExitFollowsInsert, CloserIsPast
<1> QED BY <1>1, <1>2 DEF Next

(* The settlement invariant holds for any requests, rivals and failures.   *)
THEOREM ThmSettleInv == Spec => []SettleInv
BY SettleInit, SettleNext, ThmTypeOK, PTL DEF Spec

(* A closed entry has the exit it names, whatever fails and whoever races. *)
THEOREM ThmClosedHasItsExit == Spec => []ClosedHasItsExit
<1>1. SettleInv => ClosedHasItsExit
  BY DEF SettleInv, CloserIsPast, ClosedHasItsExit
<1> QED BY <1>1, ThmSettleInv, PTL

(* The request that stored the exit finds its entry open.                  *)
LEMMA FindsOpen == TypeOK /\ SettleInv => CloseNeverRefused
<1> SUFFICES ASSUME TypeOK, SettleInv, NEW x \in ExitReq, outPc[x] = "close",
                    entry[outJob[x].entry].status # "open"
             PROVE  FALSE
  BY DEF CloseNeverRefused
<1> DEFINE e == outJob[x].entry
<1>1. e \in EntryReq /\ exits[x].entry = e /\ entry[e].status = "closed"
  BY DEF SettleInv, ExitHasEntry, ExitFollowsInsert, OutRunning, TypeOK, OpsTypeOK, EntryDoc
<1>2. entry[e].exit = x
  BY <1>1, StoreAssumption DEF SettleInv, CloserIsPast, OneExitPerEntry
<1> QED BY <1>1, <1>2 DEF SettleInv, CloserIsPast, OutEnded

(* So the last refusal of create_exit is dead code.                        *)
THEOREM ThmCloseNeverRefused == Spec => []CloseNeverRefused
BY FindsOpen, ThmTypeOK, ThmSettleInv, PTL

(* No step touches a closed entry, its exit or its payment: the requests   *)
(* that could are before their insertion or undo what they inserted, and   *)
(* the one the entry names is past both.                                   *)
LEMMA SettledStep ==
    ASSUME TypeOK, SettleInv, [Next]_vars, NEW e \in EntryReq, entry[e].status = "closed"
    PROVE  /\ entry'[e] = entry[e]
           /\ exits'[entry[e].exit] = exits[entry[e].exit]
           /\ entry[e].exit \in payments <=> entry[e].exit \in payments'
<1> DEFINE c == entry[e].exit
<1>a. c \in ExitReq /\ outPc[c] \in {"complete", "free"} \cup OutEnded
  BY DEF SettleInv, CloserIsPast
<1> HIDE DEF c
<1> SUFFICES entry'[e] = entry[e] /\ exits'[c] = exits[c] /\ (c \in payments <=> c \in payments')
  BY DEF c
<1> USE DEF TypeOK, OpsTypeOK
<1>1. ASSUME NEW o \in EntryReq,
             \/ \E v \in Vehicle, t \in Tag \cup {None}, post \in PostedAt : BeginEntry(o, v, t, post)
             \/ InStep(o)
             \/ DropEntry(o)
      PROVE  entry'[e] = entry[e] /\ UNCHANGED <<exits, payments>>
  <2>1. CASE InsertEntry(o)
    <3>1. entry[o].status = "absent"
      BY <2>1 DEF InsertEntry, SettleInv, EntryFollowsAcceptance
    <3> QED BY <2>1, <3>1 DEF InsertEntry, exitVars
  <2>2. CASE ~InsertEntry(o)
    BY <1>1, <2>2, InKeepsSettlement DEF InStep
  <2> QED BY <2>1, <2>2
<1>2. ASSUME NEW x \in ExitReq,
             \/ \E o \in EntryReq, owing \in BOOLEAN : BeginExit(x, o, owing)
             \/ OutStep(x)
             \/ DropExit(x)
      PROVE  entry'[e] = entry[e] /\ exits'[c] = exits[c] /\ (c \in payments <=> c \in payments')
  <2>1. CASE InsertPayment(x) \/ InsertExit(x) \/ DeletePayment(x)
    <3>1. x # c
      BY <1>a, <2>1 DEF InsertPayment, InsertExit, DeletePayment, OutEnded
    <3> QED BY <1>a, <2>1, <3>1 DEF InsertPayment, InsertExit, DeletePayment, entryVars
  <2>2. CASE CloseEntry(x)
    <3>1. entry[outJob[x].entry].status = "open"
      BY <2>2, FindsOpen DEF CloseEntry, CloseNeverRefused
    <3> QED BY <2>2, <3>1 DEF CloseEntry
  <2>3. CASE ~(InsertPayment(x) \/ InsertExit(x) \/ DeletePayment(x) \/ CloseEntry(x))
    BY <1>2, <2>3 DEF OutStep, BeginExit, CompleteReservation, FreeSlot, DropExit, entryVars
  <2> QED BY <2>1, <2>2, <2>3
<1>3. CASE ClockStep \/ AdminStep \/ UNCHANGED vars
  BY <1>3 DEF ClockStep, AdminStep, vars, opsVars, entryVars, exitVars
<1> QED BY <1>1, <1>2, <1>3 DEF Next, DeskStep, OpsNext

(* Settling is for good, whatever dies and whoever loses a race.           *)
THEOREM ThmSettledForGood == Spec => SettledForGood
<1> DEFINE Step == \A e \in EntryReq : entry[e].status = "closed" =>
                     /\ entry'[e] = entry[e]
                     /\ exits'[entry[e].exit] = exits[entry[e].exit]
                     /\ entry[e].exit \in payments <=> entry[e].exit \in payments'
<1>1. TypeOK /\ SettleInv /\ [Next]_vars => Step
  BY SettledStep
<1>2. Spec => [][Step]_vars
  BY <1>1, ThmTypeOK, ThmSettleInv, PTL DEF Spec
<1> QED BY <1>2 DEF SettledForGood

-----------------------------------------------------------------------------
(* The books. *)

LEMMA BooksInit == Init => BooksInv
BY DEF Init, OpsInit, BooksInv, BooksOf, NoExit, OutEnded

(* An exit request that a step leaves alone keeps its books, as long as    *)
(* closed entries stay closed.                                             *)
LEMMA BooksFrame ==
    ASSUME TypeOK, SettleInv, NEW x \in ExitReq, BooksOf(x),
           outPc'[x] = outPc[x], outJob'[x] = outJob[x], exits'[x] = exits[x],
           x \in payments' <=> x \in payments,
           \A e \in EntryReq : entry[e].status = "closed" => entry'[e].status = "closed"
    PROVE  BooksOf(x)'
<1>1. /\ outPc[x] \in {"complete", "free"} => outJob[x].entry \in EntryReq
      /\ exits[x].entry \in EntryReq \cup {None}
  BY DEF SettleInv, ExitHasEntry, OutRunning, TypeOK, OpsTypeOK, ExitDoc
<1> QED BY <1>1 DEF BooksOf

(* Nobody but the exit requests writes the books. *)
LEMMA BooksIn ==
    ASSUME TypeOK, SettleInv, BooksInv, NEW e \in EntryReq,
           \/ \E v \in Vehicle, t \in Tag \cup {None}, post \in PostedAt : BeginEntry(e, v, t, post)
           \/ InStep(e)
           \/ DropEntry(e)
    PROVE  BooksInv'
<1>1. /\ UNCHANGED <<exits, payments, outPc, outJob>>
      /\ \A o \in EntryReq : entry[o].status = "closed" => entry'[o].status = "closed"
  <2>1. CASE InsertEntry(e)
    <3>1. entry[e].status = "absent"
      BY <2>1 DEF InsertEntry, SettleInv, EntryFollowsAcceptance
    <3> QED BY <2>1, <3>1 DEF InsertEntry, TypeOK, OpsTypeOK, exitVars
  <2>2. CASE ~InsertEntry(e)
    BY <2>2, InKeepsSettlement DEF InStep
  <2> QED BY <2>1, <2>2
<1> QED BY <1>1, BooksFrame DEF BooksInv

(* A step of create_exit keeps the books of the request that takes it ...  *)
LEMMA BooksOutOwn ==
    ASSUME TypeOK, SettleInv, NEW x \in ExitReq, BooksOf(x), ~MayFail,
           \/ \E e \in EntryReq, owing \in BOOLEAN : BeginExit(x, e, owing)
           \/ OutStep(x)
           \/ DropExit(x)
    PROVE  BooksOf(x)'
<1> USE DEF BooksOf, OutGoto, OutReturn, OutEnded, TypeOK, OpsTypeOK
<1>0. outPc[x] \in {"pay", "exit", "unpay"} => exits[x] = NoExit
  BY DEF SettleInv, ExitFollowsInsert
<1>1. CASE \E e \in EntryReq, owing \in BOOLEAN : BeginExit(x, e, owing)
  <2> PICK e \in EntryReq, owing \in BOOLEAN : BeginExit(x, e, owing)
    BY <1>1
  <2>1. outPc[x] = "idle" /\ outJob'[x].paid = owing /\ UNCHANGED payments
    BY DEF BeginExit
  <2>2. CASE owing
    <3>1. outPc'[x] = "pay"
      BY <2>2 DEF BeginExit
    <3> QED BY <2>1, <2>2, <3>1
  <2>3. CASE ~owing
    <3>1. outPc'[x] = "exit"
      BY <2>3 DEF BeginExit
    <3> QED BY <2>1, <2>3, <3>1
  <2> QED BY <2>2, <2>3
<1>2. CASE InsertPayment(x)
  <2>1. outPc[x] = "pay" /\ outPc'[x] = "exit" /\ outJob' = outJob /\ x \in payments'
    BY <1>2 DEF InsertPayment
  <2> QED BY <2>1
<1>3. CASE InsertExit(x)
  BY <1>3, <1>0 DEF InsertExit, NoExit, entryVars
<1>4. CASE DeletePayment(x)
  BY <1>4, <1>0 DEF DeletePayment, NoExit, entryVars
<1>5. CASE CloseEntry(x)
  <2> DEFINE e == outJob[x].entry
  <2>1. /\ outPc[x] = "close" /\ e \in EntryReq /\ exits[x] = outJob[x]
        /\ entry[e] \in EntryDoc /\ (x \in payments <=> outJob[x].paid)
    BY <1>5 DEF CloseEntry, SettleInv, ExitHasEntry, ExitFollowsInsert, OutRunning
  <2>2. CASE entry[e].status = "open"
    <3>1. /\ entry' = [entry EXCEPT ![e] = [entry[e] EXCEPT !.status = "closed", !.exit = x]]
          /\ UNCHANGED <<exits, payments>>
          /\ \/ outPc'[x] = "complete" /\ UNCHANGED outJob
             \/ outPc'[x] = "settled"
      BY <1>5, <2>2 DEF CloseEntry
    <3> HIDE DEF e
    <3>2. entry'[e].status = "closed"
      BY <2>1, <3>1 DEF EntryDoc
    <3>3. e = outJob[x].entry
      BY DEF e
    <3>4. x \in payments' <=> exits'[x].entry # None /\ exits'[x].paid
      <4>1. exits'[x].entry # None /\ exits'[x] = outJob[x] /\ payments' = payments
        BY <2>1, <3>1, <3>3, StoreAssumption
      <4> QED BY <2>1, <4>1
    <3>5. CASE outPc'[x] = "complete" /\ UNCHANGED outJob
      BY <2>1, <3>1, <3>2, <3>3, <3>5
    <3>6. CASE outPc'[x] = "settled"
      BY <2>1, <3>1, <3>2, <3>3, <3>4, <3>6
    <3> QED BY <3>1, <3>5, <3>6
  <2>3. CASE entry[e].status # "open"
    BY <1>5, <2>3, <2>1 DEF CloseEntry, NoExit
  <2> QED BY <2>2, <2>3
<1>6. CASE CompleteReservation(x)
  BY <1>6 DEF CompleteReservation, entryVars
<1>7. CASE FreeSlot(x)
  <2>1. /\ outPc[x] = "free" /\ outPc'[x] = "settled" /\ exits[x] = outJob[x]
        /\ outJob[x].entry \in EntryReq
        /\ UNCHANGED <<exits, payments, entry>>
    BY <1>7 DEF FreeSlot, SettleInv, ExitFollowsInsert, ExitHasEntry, OutRunning, entryVars
  <2>2. x \in payments' <=> exits'[x].entry # None /\ exits'[x].paid
    <3>1. exits'[x].entry # None /\ exits'[x] = outJob[x] /\ payments' = payments
      BY <2>1, StoreAssumption
    <3> QED BY <2>1, <3>1
  <2>3. entry'[exits'[x].entry].status = "closed"
    BY <2>1
  <2> QED BY <2>1, <2>2, <2>3
<1>8. CASE DropExit(x)
  BY <1>8 DEF DropExit
<1> QED BY <1>1, <1>2, <1>3, <1>4, <1>5, <1>6, <1>7, <1>8 DEF OutStep

(* ... and those of every other.                                           *)
LEMMA BooksOutOther ==
    ASSUME TypeOK, SettleInv, NEW x \in ExitReq, NEW y \in ExitReq, x # y, BooksOf(y),
           \/ \E e \in EntryReq, owing \in BOOLEAN : BeginExit(x, e, owing)
           \/ OutStep(x)
           \/ DropExit(x)
    PROVE  BooksOf(y)'
<1> USE DEF OutGoto, OutReturn, TypeOK, OpsTypeOK
<1>1. /\ outPc'[y] = outPc[y]
      /\ outJob'[y] = outJob[y]
      /\ exits'[y] = exits[y]
      /\ y \in payments' <=> y \in payments
  <2>1. CASE \E e \in EntryReq, owing \in BOOLEAN : BeginExit(x, e, owing)
    BY <2>1 DEF BeginExit
  <2>2. CASE InsertPayment(x) \/ InsertExit(x) \/ DeletePayment(x) \/ CloseEntry(x)
    BY <2>2 DEF InsertPayment, InsertExit, DeletePayment, CloseEntry
  <2>3. CASE CompleteReservation(x) \/ FreeSlot(x) \/ DropExit(x)
    BY <2>3 DEF CompleteReservation, FreeSlot, DropExit
  <2> QED BY <2>1, <2>2, <2>3 DEF OutStep
<1>2. \A e \in EntryReq : entry[e].status = "closed" => entry'[e].status = "closed"
  <2>1. CASE CloseEntry(x)
    <3> DEFINE e == outJob[x].entry
    <3>1. e \in EntryReq /\ entry[e] \in EntryDoc
      BY <2>1 DEF CloseEntry, SettleInv, ExitHasEntry, OutRunning
    <3>2. \/ UNCHANGED entry
          \/ entry' = [entry EXCEPT ![e] = [entry[e] EXCEPT !.status = "closed", !.exit = x]]
      BY <2>1 DEF CloseEntry
    <3> HIDE DEF e
    <3>3. CASE UNCHANGED entry
      BY <3>3
    <3>4. CASE entry' = [entry EXCEPT ![e] = [entry[e] EXCEPT !.status = "closed", !.exit = x]]
      <4>1. entry'[e].status = "closed"
        BY <3>1, <3>4 DEF EntryDoc
      <4>2. \A o \in EntryReq \ {e} : entry'[o] = entry[o]
        BY <3>1, <3>4
      <4> QED BY <4>1, <4>2
    <3> QED BY <3>2, <3>3, <3>4
  <2>2. CASE ~CloseEntry(x)
    BY <2>2 DEF OutStep, BeginExit, InsertPayment, InsertExit, DeletePayment,
                CompleteReservation, FreeSlot, DropExit, entryVars
  <2> QED BY <2>1, <2>2
<1> QED BY <1>1, <1>2, BooksFrame

LEMMA BooksNext == ~MayFail /\ TypeOK /\ SettleInv /\ BooksInv /\ [Next]_vars => BooksInv'
<1> SUFFICES ASSUME ~MayFail, TypeOK, SettleInv, BooksInv, [Next]_vars PROVE BooksInv'
  OBVIOUS
<1>1. CASE DeskStep
  <2>1. ASSUME NEW x \in ExitReq,
               \/ \E e \in EntryReq, owing \in BOOLEAN : BeginExit(x, e, owing)
               \/ OutStep(x)
               \/ DropExit(x)
        PROVE  BooksInv'
    BY <2>1, BooksOutOwn, BooksOutOther DEF BooksInv
  <2> QED BY <1>1, <2>1, BooksIn DEF DeskStep, OpsNext
<1>2. CASE ClockStep \/ AdminStep \/ UNCHANGED vars
  <2>1. UNCHANGED <<entry, exits, payments, outPc, outJob>>
    BY <1>2 DEF ClockStep, AdminStep, vars, opsVars, entryVars, exitVars
  <2> QED BY <2>1 DEF BooksInv, BooksOf
<1> QED BY <1>1, <1>2 DEF Next

(* While no request dies, the payments on file are those of the stored     *)
(* exits ...                                                               *)
THEOREM ThmLedgerAgrees == ASSUME ~MayFail PROVE Spec => []LedgerAgrees
<1>1. BooksInv => LedgerAgrees
  BY DEF BooksInv, BooksOf, LedgerAgrees
<1>2. TypeOK /\ SettleInv /\ BooksInv /\ [Next]_vars => BooksInv'
  BY BooksNext
<1> QED BY <1>1, <1>2, BooksInit, ThmTypeOK, ThmSettleInv, PTL DEF Spec

(* ... and every stored exit has closed its entry.                         *)
THEOREM ThmExitMeansClosed == ASSUME ~MayFail PROVE Spec => []ExitMeansClosed
<1>1. BooksInv => ExitMeansClosed
  BY DEF BooksInv, BooksOf, ExitMeansClosed
<1>2. TypeOK /\ SettleInv /\ BooksInv /\ [Next]_vars => BooksInv'
  BY BooksNext
<1> QED BY <1>1, <1>2, BooksInit, ThmTypeOK, ThmSettleInv, PTL DEF Spec

-----------------------------------------------------------------------------
(* A request in progress knows its vehicle; an entry that is not closed    *)
(* names no exit.                                                          *)
VisitInv ==
    \A e \in EntryReq :
        /\ inPc[e] \in InRunning => inJob[e].vehicle \in Vehicle
        /\ entry[e].status # "closed" => entry[e].exit = None

DeskInv == TypeOK /\ SettleInv /\ VisitInv

LEMMA VisitInit == Init => VisitInv
BY DEF Init, OpsInit, VisitInv, NoEntry, InRunning

(* A step of create_entry other than its insertion. *)
LEMMA VisitIn ==
    ASSUME DeskInv, NEW e \in EntryReq,
           \/ \E v \in Vehicle, t \in Tag \cup {None}, post \in PostedAt : BeginEntry(e, v, t, post)
           \/ InStep(e)
           \/ DropEntry(e)
    PROVE  \A o \in EntryReq : inPc'[o] \in InRunning => inJob'[o].vehicle \in Vehicle
<1> USE DEF DeskInv, TypeOK, OpsTypeOK, InGoto, InReturn, InRunning, VisitInv
<1>1. CASE \E v \in Vehicle, t \in Tag \cup {None}, post \in PostedAt : BeginEntry(e, v, t, post)
  BY <1>1 DEF BeginEntry
<1>2. CASE TakeNumber(e)
  <2>1. inPc[e] = "number" /\ inJob' = [inJob EXCEPT ![e].token = sequence + 1]
        /\ inPc' = [inPc EXCEPT ![e] = "find"]
    BY <1>2 DEF TakeNumber
  <2>2. inJob'[e].vehicle = inJob[e].vehicle
    BY <2>1 DEF InJob
  <2> QED BY <2>1, <2>2
<1>3. CASE FindReservation(e)
  <2>1. /\ inPc[e] = "find"
        /\ \A o \in EntryReq \ {e} : inPc'[o] = inPc[o] /\ inJob'[o] = inJob[o]
    BY <1>3 DEF FindReservation
  <2>2. inPc'[e] \in InRunning => inJob'[e].vehicle = inJob[e].vehicle
    <3>1. ASSUME NEW r \in AdminReq,
                 inJob' = [inJob EXCEPT ![e] = [@ EXCEPT !.resv = r, !.slot = resv[r].slot]]
          PROVE  inJob'[e].vehicle = inJob[e].vehicle
      BY <3>1 DEF InJob
    <3> QED BY <1>3, <3>1 DEF FindReservation
  <2> QED BY <2>1, <2>2
<1>4. CASE OccupySlot(e) \/ ClaimReservation(e) \/ UndoOccupy(e)
  BY <1>4 DEF OccupySlot, ClaimReservation, UndoOccupy
<1>5. CASE SavePhoto(e) \/ InsertEntry(e)
  BY <1>5 DEF SavePhoto, InsertEntry
<1>6. CASE ReleaseReservation(e) \/ ReleaseSlot(e) \/ DeletePhoto(e) \/ DropEntry(e)
  BY <1>6 DEF ReleaseReservation, ReleaseSlot, DeletePhoto, DropEntry
<1> QED BY <1>1, <1>2, <1>3, <1>4, <1>5, <1>6 DEF InStep

-----------------------------------------------------------------------------
(* What a step does to the entries: nothing, or one is inserted, or one is *)
(* closed by the exit request that is closing.                             *)
InsertsEntry(e) ==
    /\ inPc[e] = "insert"
    /\ ~DuplicateEntry(inJob[e].vehicle, inJob[e].token)
    /\ entry' = [entry EXCEPT ![e] =
                   [status |-> "open", vehicle |-> inJob[e].vehicle, tag |-> inJob[e].tag,
                    token |-> inJob[e].token, slot |-> inJob[e].slot,
                    resv |-> inJob[e].resv, exit |-> None]]

ClosesEntry(e, x) ==
    /\ outPc[x] = "close"
    /\ entry[e].status = "open"
    /\ entry' = [entry EXCEPT ![e] = [entry[e] EXCEPT !.status = "closed", !.exit = x]]

LEMMA EntryStep ==
    ASSUME DeskInv, [Next]_vars
    PROVE  \/ UNCHANGED entry
           \/ \E e \in EntryReq : InsertsEntry(e)
           \/ \E e \in EntryReq, x \in ExitReq : ClosesEntry(e, x)
<1>1. ASSUME NEW e \in EntryReq,
             \/ \E v \in Vehicle, t \in Tag \cup {None}, post \in PostedAt : BeginEntry(e, v, t, post)
             \/ InStep(e)
             \/ DropEntry(e)
      PROVE  UNCHANGED entry \/ InsertsEntry(e)
  <2>1. CASE InsertEntry(e)
    BY <2>1 DEF InsertEntry, InsertsEntry
  <2>2. CASE ~InsertEntry(e)
    BY <1>1, <2>2, InKeepsSettlement DEF InStep, DeskInv
  <2> QED BY <2>1, <2>2
<1>2. ASSUME NEW x \in ExitReq,
             \/ \E e \in EntryReq, owing \in BOOLEAN : BeginExit(x, e, owing)
             \/ OutStep(x)
             \/ DropExit(x)
      PROVE  UNCHANGED entry \/ \E e \in EntryReq : ClosesEntry(e, x)
  <2>1. CASE CloseEntry(x)
    <3> DEFINE e == outJob[x].entry
    <3>1. outPc[x] = "close" /\ e \in EntryReq
      BY <2>1 DEF CloseEntry, DeskInv, SettleInv, ExitHasEntry, OutRunning
    <3>2. CASE entry[e].status = "open"
      <4>1. ClosesEntry(e, x)
        BY <2>1, <3>1, <3>2 DEF CloseEntry, ClosesEntry
      <4> QED BY <3>1, <4>1
    <3>3. CASE entry[e].status # "open"
      BY <2>1, <3>3 DEF CloseEntry
    <3> QED BY <3>2, <3>3
  <2>2. CASE ~CloseEntry(x)
    BY <1>2, <2>2 DEF OutStep, BeginExit, InsertPayment, InsertExit, DeletePayment,
                      CompleteReservation, FreeSlot, DropExit, entryVars
  <2> QED BY <2>1, <2>2
<1>3. CASE ClockStep \/ AdminStep \/ UNCHANGED vars
  BY <1>3 DEF ClockStep, AdminStep, vars, opsVars, entryVars
<1> QED BY <1>1, <1>2, <1>3 DEF Next, DeskStep, OpsNext

LEMMA VisitNext == DeskInv /\ [Next]_vars => VisitInv'
<1> SUFFICES ASSUME DeskInv, [Next]_vars PROVE VisitInv'
  OBVIOUS
<1>1. \A e \in EntryReq : inPc'[e] \in InRunning => inJob'[e].vehicle \in Vehicle
  <2>1. CASE \E e \in EntryReq :
                \/ \E v \in Vehicle, t \in Tag \cup {None}, post \in PostedAt :
                      BeginEntry(e, v, t, post)
                \/ InStep(e)
                \/ DropEntry(e)
    BY <2>1, VisitIn
  <2>2. CASE \E x \in ExitReq : \/ \E e \in EntryReq, owing \in BOOLEAN : BeginExit(x, e, owing)
                                \/ OutStep(x)
                                \/ DropExit(x)
    <3>1. UNCHANGED <<inPc, inJob>>
      BY <2>2 DEF OutStep, BeginExit, InsertPayment, InsertExit, DeletePayment, CloseEntry,
                  CompleteReservation, FreeSlot, DropExit, entryVars
    <3> QED BY <3>1 DEF DeskInv, VisitInv
  <2>3. CASE ClockStep \/ AdminStep \/ UNCHANGED vars
    BY <2>3 DEF ClockStep, AdminStep, vars, opsVars, entryVars, DeskInv, VisitInv
  <2> QED BY <2>1, <2>2, <2>3 DEF Next, DeskStep, OpsNext
<1>2. \A e \in EntryReq : entry'[e].status # "closed" => entry'[e].exit = None
  <2> USE DEF DeskInv, VisitInv, TypeOK, OpsTypeOK
  <2>1. CASE UNCHANGED entry
    BY <2>1
  <2>2. ASSUME NEW e \in EntryReq, InsertsEntry(e)
        PROVE  \A o \in EntryReq : entry'[o].status # "closed" => entry'[o].exit = None
    BY <2>2 DEF InsertsEntry
  <2>3. ASSUME NEW e \in EntryReq, NEW x \in ExitReq, ClosesEntry(e, x)
        PROVE  \A o \in EntryReq : entry'[o].status # "closed" => entry'[o].exit = None
    <3>1. entry'[e].status = "closed"
      BY <2>3 DEF ClosesEntry, EntryDoc
    <3>2. \A o \in EntryReq \ {e} : entry'[o] = entry[o]
      BY <2>3 DEF ClosesEntry
    <3> QED BY <3>1, <3>2
  <2> QED BY <2>1, <2>2, <2>3, EntryStep
<1> QED BY <1>1, <1>2 DEF VisitInv

LEMMA ThmDeskInv == Spec => []DeskInv
BY VisitInit, VisitNext, ThmTypeOK, ThmSettleInv, PTL DEF Spec, DeskInv

-----------------------------------------------------------------------------
(* An insertion admits the vehicle. *)
LEMMA InsertAdmits ==
    ASSUME DeskInv, NEW e \in EntryReq, InsertsEntry(e), NEW v \in Vehicle, v = inJob[e].vehicle
    PROVE  Visits!Admit(e, v)
<1> USE DEF DeskInv, TypeOK, OpsTypeOK
<1>1. entry[e].status = "absent" /\ entry[e].exit = None
  BY DEF InsertsEntry, SettleInv, EntryFollowsAcceptance, VisitInv, InRunning
<1>2. /\ entry'[e].status = "open" /\ entry'[e].vehicle = v
      /\ entry'[e].exit = None
      /\ \A o \in EntryReq \ {e} : entry'[o] = entry[o]
  BY DEF InsertsEntry
<1>3. \A o \in EntryReq : entry[o].status = "open" => entry[o].vehicle # v
  BY DEF InsertsEntry, DuplicateEntry
<1> HIDE DEF DeskInv, TypeOK, OpsTypeOK
<1>4. {o \in EntryReq : entry'[o].status = "open"}
        = {o \in EntryReq : entry[o].status = "open"} \cup {e}
  BY <1>1, <1>2
<1>5. {o \in EntryReq : entry'[o].status = "closed"}
        = {o \in EntryReq : entry[o].status = "closed"}
  BY <1>1, <1>2
<1>6. [o \in EntryReq |-> entry'[o].vehicle]
        = [[o \in EntryReq |-> entry[o].vehicle] EXCEPT ![e] = v]
  BY <1>2
<1>7. [o \in EntryReq |-> entry'[o].exit] = [o \in EntryReq |-> entry[o].exit]
  BY <1>1, <1>2
<1> QED BY <1>1, <1>3, <1>4, <1>5, <1>6, <1>7 DEF Visits!Admit

(* A closing settles the visit. *)
LEMMA CloseSettles ==
    ASSUME DeskInv, NEW e \in EntryReq, NEW x \in ExitReq, ClosesEntry(e, x)
    PROVE  Visits!Settle(e, x)
<1> USE DEF DeskInv, TypeOK, OpsTypeOK
<1>1. entry[e].status = "open"
  BY DEF ClosesEntry
<1>2. /\ entry'[e].status = "closed" /\ entry'[e].vehicle = entry[e].vehicle
      /\ entry'[e].exit = x
  BY DEF ClosesEntry, EntryDoc
<1>3. \A o \in EntryReq \ {e} : entry'[o] = entry[o]
  BY DEF ClosesEntry
<1>4. \A o \in EntryReq : entry[o].status = "closed" => entry[o].exit # x
  BY DEF ClosesEntry, SettleInv, CloserIsPast, OutEnded
<1> HIDE DEF DeskInv, TypeOK, OpsTypeOK
<1>5. {o \in EntryReq : entry'[o].status = "open"}
        = {o \in EntryReq : entry[o].status = "open"} \ {e}
  BY <1>2, <1>3
<1>6. {o \in EntryReq : entry'[o].status = "closed"}
        = {o \in EntryReq : entry[o].status = "closed"} \cup {e}
  BY <1>2, <1>3
<1>7. [o \in EntryReq |-> entry'[o].vehicle] = [o \in EntryReq |-> entry[o].vehicle]
  BY <1>2, <1>3
<1>8. [o \in EntryReq |-> entry'[o].exit]
        = [[o \in EntryReq |-> entry[o].exit] EXCEPT ![e] = x]
  BY <1>2, <1>3
<1> QED BY <1>1, <1>4, <1>5, <1>6, <1>7, <1>8 DEF Visits!Settle

(* The desk implements the abstract visit.  Nothing is assumed of the      *)
(* number of requests, of which of them die, or of the slots.              *)
THEOREM ThmImplementsVisits == Spec => ImplementsVisits
<1>1. Init => Visits!VInit
  BY DEF Init, OpsInit, NoEntry, Visits!VInit
<1>2. DeskInv /\ [Next]_vars => [Visits!VNext]_(Visits!visitVars)
  <2> SUFFICES ASSUME DeskInv, [Next]_vars
               PROVE  [Visits!VNext]_(Visits!visitVars)
    OBVIOUS
  <2>1. CASE UNCHANGED entry
    BY <2>1 DEF Visits!visitVars
  <2>2. CASE \E e \in EntryReq : InsertsEntry(e)
    <3> PICK e \in EntryReq : InsertsEntry(e)
      BY <2>2
    <3>1. PICK v \in Vehicle : v = inJob[e].vehicle
      BY DEF InsertsEntry, DeskInv, VisitInv, InRunning
    <3>2. Visits!Admit(e, v)
      BY <3>1, InsertAdmits
    <3> QED BY <3>2 DEF Visits!VNext
  <2>3. CASE \E e \in EntryReq, x \in ExitReq : ClosesEntry(e, x)
    BY <2>3, CloseSettles DEF Visits!VNext
  <2> QED BY <2>1, <2>2, <2>3, EntryStep
<1> QED BY <1>1, <1>2, ThmDeskInv, PTL DEF Spec, ImplementsVisits, Visits!VisitSpec
=============================================================================
