------------------------- MODULE ParkingOperations -------------------------
(***************************************************************************)
(* ParkingOperationsService (application/parking/service.py): create_entry *)
(* and create_exit.  There is no transaction: a handler is the sequence of *)
(* its awaited database calls, one action each.  A request that is refused *)
(* before its first write changes nothing: such a refusal is a guard of    *)
(* the action that begins the request.                                     *)
(***************************************************************************)
EXTENDS ParkingStore

CONSTANTS
    Tag,        \* RFID and QR identifiers an entry may carry
    PostedAt    \* parking_location_id of the operators, None for no posting

ASSUME OperationsAssumption ==
    /\ None \notin Tag
    /\ PostedAt \subseteq Location \cup {None}

VARIABLES
    sequence,   \* parking_counters: the company's counter of the day
    entry,      \* vehicle_entries
    images,     \* vehicle_images: the entries whose photograph is stored
    exits,      \* vehicle_exits
    payments,   \* payments, each named by the exit in its idempotency_key
    inPc,       \* where a create_entry request stands
    inJob,      \* its local variables
    outPc,      \* where a create_exit request stands
    outJob      \* its local variables

entryVars == <<sequence, entry, images, inPc, inJob>>
exitVars == <<exits, payments, outPc, outJob>>
opsVars == <<entryVars, exitVars>>

InRunning == {"number", "find", "occupy", "claim", "undo", "photo", "insert",
              "unclaim", "vacate", "unphoto"}
InEnded == {"accepted", "refused", "dropped"}

OutRunning == {"pay", "exit", "unpay", "close", "complete", "free"}
OutEnded == {"settled", "refused", "dropped"}

EntryDoc ==
    [status : {"absent", "open", "closed"}, vehicle : Vehicle \cup {None},
     tag : Tag \cup {None}, token : Nat, slot : Slot \cup {None},
     resv : AdminReq \cup {None}, exit : ExitReq \cup {None}]

NoEntry ==
    [status |-> "absent", vehicle |-> None, tag |-> None, token |-> 0, slot |-> None,
     resv |-> None, exit |-> None]

InJob ==
    [vehicle : Vehicle \cup {None}, tag : Tag \cup {None}, post : Location \cup {None},
     at : Time, token : Nat, slot : Slot \cup {None}, resv : AdminReq \cup {None}]

NoInJob ==
    [vehicle |-> None, tag |-> None, post |-> None, at |-> 0, token |-> 0, slot |-> None,
     resv |-> None]

(* paid: whether there was a balance left to collect, that is, whether the *)
(* exit writes a payment.                                                  *)
ExitDoc == [entry : EntryReq \cup {None}, paid : BOOLEAN]

NoExit == [entry |-> None, paid |-> FALSE]

OpsTypeOK ==
    /\ sequence \in Nat
    /\ entry \in [EntryReq -> EntryDoc]
    /\ images \in SUBSET EntryReq
    /\ exits \in [ExitReq -> ExitDoc]
    /\ payments \in SUBSET ExitReq
    /\ inPc \in [EntryReq -> {"idle"} \cup InRunning \cup InEnded]
    /\ inJob \in [EntryReq -> InJob]
    /\ outPc \in [ExitReq -> {"idle"} \cup OutRunning \cup OutEnded]
    /\ outJob \in [ExitReq -> ExitDoc]

OpsInit ==
    /\ sequence = 0
    /\ entry = [e \in EntryReq |-> NoEntry]
    /\ images = {}
    /\ exits = [x \in ExitReq |-> NoExit]
    /\ payments = {}
    /\ inPc = [e \in EntryReq |-> "idle"]
    /\ inJob = [e \in EntryReq |-> NoInJob]
    /\ outPc = [x \in ExitReq |-> "idle"]
    /\ outJob = [x \in ExitReq |-> NoExit]

InGoto(e, step) == inPc' = [inPc EXCEPT ![e] = step]

InReturn(e, outcome) ==
    /\ InGoto(e, outcome)
    /\ inJob' = [inJob EXCEPT ![e] = NoInJob]

OutGoto(x, step) == outPc' = [outPc EXCEPT ![x] = step]

OutReturn(x, outcome) ==
    /\ OutGoto(x, outcome)
    /\ outJob' = [outJob EXCEPT ![x] = NoExit]

-----------------------------------------------------------------------------
(* create_entry. *)

(* Take the time and look for an open entry of the vehicle or of the tag.  *)
BeginEntry(e, v, t, post) ==
    /\ inPc[e] = "idle"
    /\ \A o \in EntryReq : entry[o].status = "open" =>
           /\ entry[o].vehicle # v
           /\ t # None => entry[o].tag # t
    /\ InGoto(e, "number")
    /\ inJob' = [inJob EXCEPT ![e] =
                   [vehicle |-> v, tag |-> t, post |-> post, at |-> now, token |-> 0,
                    slot |-> None, resv |-> None]]
    /\ UNCHANGED <<sequence, entry, images, exitVars, storeVars>>

(* The atomic $inc of the day's counter. *)
TakeNumber(e) ==
    /\ inPc[e] = "number"
    /\ sequence' = sequence + 1
    /\ inJob' = [inJob EXCEPT ![e].token = sequence + 1]
    /\ InGoto(e, "find")
    /\ UNCHANGED <<entry, images, exitVars, storeVars>>

(* The vehicle's reservation that is active at the entry's time, the       *)
(* latest to start if there are several.                                   *)
CurrentReservation(r, v, t) ==
    /\ resv[r].vehicle = v
    /\ ActiveAt(r, t)
    /\ \A o \in AdminReq :
           resv[o].vehicle = v /\ ActiveAt(o, t) => resv[o].from <= resv[r].from

FindReservation(e) ==
    LET job == inJob[e] IN
    /\ inPc[e] = "find"
    /\ \/ /\ ~ \E r \in AdminReq : CurrentReservation(r, job.vehicle, job.at)
          /\ InGoto(e, "photo")
          /\ UNCHANGED inJob
       \/ \E r \in AdminReq :
             /\ CurrentReservation(r, job.vehicle, job.at)
             /\ IF job.post \notin {None, SlotLocation[resv[r].slot]}
                THEN InReturn(e, "refused")
                ELSE /\ InGoto(e, "occupy")
                     /\ inJob' = [inJob EXCEPT ![e] =
                                  [@ EXCEPT !.resv = r, !.slot = resv[r].slot]]
    /\ UNCHANGED <<sequence, entry, images, exitVars, storeVars>>

(* Mutant: the slot is taken by id alone, whatever its status. *)
OccupyAnySlot(e) ==
    LET s == inJob[e].slot IN
    /\ inPc[e] = "occupy"
    /\ slot' = [slot EXCEPT ![s] = [status |-> "occupied", entry |-> e]]
    /\ InGoto(e, "claim")
    /\ UNCHANGED <<sequence, entry, images, inJob, exitVars, now, resv>>

OccupySlot(e) ==
    LET s == inJob[e].slot IN
    /\ inPc[e] = "occupy"
    /\ IF slot[s].status \in {"available", "reserved"}
       THEN /\ slot' = [slot EXCEPT ![s] = [status |-> "occupied", entry |-> e]]
            /\ InGoto(e, "claim")
            /\ UNCHANGED inJob
       ELSE /\ InReturn(e, "refused")
            /\ UNCHANGED slot
    /\ UNCHANGED <<sequence, entry, images, exitVars, now, resv>>

(* Only the reservation's status and window are checked again.             *)
ClaimReservation(e) ==
    LET r == inJob[e].resv IN
    /\ inPc[e] = "claim"
    /\ IF ActiveAt(r, inJob[e].at)
       THEN /\ resv' = [resv EXCEPT ![r].claimed = e]
            /\ InGoto(e, "photo")
       ELSE /\ InGoto(e, "undo")
            /\ UNCHANGED resv
    /\ UNCHANGED <<sequence, entry, images, inJob, exitVars, now, slot>>

(* Mutant: the slot is not given back. *)
UndoNothing(e) ==
    /\ inPc[e] = "undo"
    /\ InReturn(e, "refused")
    /\ UNCHANGED <<sequence, entry, images, exitVars, storeVars>>

(* The slot leaves the hands of entry e, if it is still in them.           *)
UndoOccupy(e) ==
    LET s == inJob[e].slot IN
    /\ inPc[e] = "undo"
    /\ slot' = IF slot[s].entry = e
               THEN [slot EXCEPT ![s] = [status |-> "available", entry |-> None]]
               ELSE slot
    /\ InReturn(e, "refused")
    /\ UNCHANGED <<sequence, entry, images, exitVars, now, resv>>

(* Mutant: a failed upload gives nothing back. *)
SavePhotoOrReturn(e) ==
    /\ inPc[e] = "photo"
    /\ \/ InGoto(e, "insert") /\ UNCHANGED <<images, inJob>>
       \/ InGoto(e, "insert") /\ images' = images \cup {e} /\ UNCHANGED inJob
       \/ InReturn(e, "refused") /\ UNCHANGED images
    /\ UNCHANGED <<sequence, entry, exitVars, storeVars>>

(* The photograph is optional, and its upload may fail: any exception is   *)
(* caught here, and only here, to give the reservation back.               *)
SavePhoto(e) ==
    /\ inPc[e] = "photo"
    /\ \/ InGoto(e, "insert") /\ UNCHANGED <<images, inJob>>
       \/ InGoto(e, "insert") /\ images' = images \cup {e} /\ UNCHANGED inJob
       \/ /\ IF inJob[e].slot = None
             THEN InReturn(e, "refused")
             ELSE InGoto(e, "unclaim") /\ UNCHANGED inJob
          /\ UNCHANGED images
    /\ UNCHANGED <<sequence, entry, exitVars, storeVars>>

(* Mutant: without the partial index of open vehicles. *)
TokenTaken(v, token) == \E o \in EntryReq : entry[o].status # "absent" /\ entry[o].token = token

(* uq_open_entry_vehicle and uq_entry_token_number.  No index covers the   *)
(* tag.                                                                    *)
DuplicateEntry(v, token) ==
    \E o \in EntryReq :
        \/ entry[o].status = "open" /\ entry[o].vehicle = v
        \/ entry[o].status # "absent" /\ entry[o].token = token

InsertEntry(e) ==
    LET job == inJob[e] IN
    /\ inPc[e] = "insert"
    /\ IF DuplicateEntry(job.vehicle, job.token)
       THEN /\ IF job.slot # None
               THEN InGoto(e, "unclaim") /\ UNCHANGED inJob
               ELSE IF e \in images
                    THEN InGoto(e, "unphoto") /\ UNCHANGED inJob
                    ELSE InReturn(e, "refused")
            /\ UNCHANGED entry
       ELSE /\ entry' = [entry EXCEPT ![e] =
                           [status |-> "open", vehicle |-> job.vehicle, tag |-> job.tag,
                            token |-> job.token, slot |-> job.slot, resv |-> job.resv,
                            exit |-> None]]
            /\ InReturn(e, "accepted")
    /\ UNCHANGED <<sequence, images, exitVars, storeVars>>

(* _release_reservation_claim: the reservation, then the slot. *)
ReleaseReservation(e) ==
    LET r == inJob[e].resv IN
    /\ inPc[e] = "unclaim"
    /\ resv' = IF resv[r].claimed = e THEN [resv EXCEPT ![r].claimed = None] ELSE resv
    /\ InGoto(e, "vacate")
    /\ UNCHANGED <<sequence, entry, images, inJob, exitVars, now, slot>>

ReleaseSlot(e) ==
    LET s == inJob[e].slot IN
    /\ inPc[e] = "vacate"
    /\ slot' = IF slot[s] = [status |-> "occupied", entry |-> e]
               THEN [slot EXCEPT ![s] = [status |-> "reserved", entry |-> None]]
               ELSE slot
    /\ IF e \in images
       THEN InGoto(e, "unphoto") /\ UNCHANGED inJob
       ELSE InReturn(e, "refused")
    /\ UNCHANGED <<sequence, entry, images, exitVars, now, resv>>

DeletePhoto(e) ==
    /\ inPc[e] = "unphoto"
    /\ images' = images \ {e}
    /\ InReturn(e, "refused")
    /\ UNCHANGED <<sequence, entry, exitVars, storeVars>>

(* The request dies at an await: the process stops, or a call raises what  *)
(* the handler does not catch.  What it wrote stays.                       *)
DropEntry(e) ==
    /\ MayFail
    /\ inPc[e] \in InRunning
    /\ InReturn(e, "dropped")
    /\ UNCHANGED <<sequence, entry, images, exitVars, storeVars>>

-----------------------------------------------------------------------------
(* create_exit. *)

(* Read the open entry and price the stay.  The request goes on only when  *)
(* paid_amount is exactly the balance; owing says whether that is more     *)
(* than zero.                                                              *)
BeginExit(x, e, owing) ==
    /\ outPc[x] = "idle"
    /\ entry[e].status = "open"
    /\ OutGoto(x, IF owing THEN "pay" ELSE "exit")
    /\ outJob' = [outJob EXCEPT ![x] = [entry |-> e, paid |-> owing]]
    /\ UNCHANGED <<exits, payments, entryVars, storeVars>>

(* The idempotency_key holds the exit's own id, so it is never taken.      *)
InsertPayment(x) ==
    /\ outPc[x] = "pay"
    /\ payments' = payments \cup {x}
    /\ OutGoto(x, "exit")
    /\ UNCHANGED <<exits, outJob, entryVars, storeVars>>

(* Mutant: the entry is looked at instead of the index. *)
AlreadyClosed(e) == entry[e].status = "closed"

(* Mutant: a payment is taken for the settlement. *)
AlreadyPaid(e) == \E o \in payments : outJob[o].entry = e

(* uq_exit_entry. *)
DuplicateExit(e) == \E o \in ExitReq : exits[o].entry = e

(* Mutant: the exit replaces the one the entry has. *)
ReplaceExit(x) ==
    /\ outPc[x] = "exit"
    /\ exits' = [o \in ExitReq |-> IF o = x THEN outJob[x]
                                   ELSE IF exits[o].entry = outJob[x].entry THEN NoExit
                                   ELSE exits[o]]
    /\ OutGoto(x, "close")
    /\ UNCHANGED <<payments, outJob, entryVars, storeVars>>

InsertExit(x) ==
    /\ outPc[x] = "exit"
    /\ IF DuplicateExit(outJob[x].entry)
       THEN /\ IF outJob[x].paid
               THEN OutGoto(x, "unpay") /\ UNCHANGED outJob
               ELSE OutReturn(x, "refused")
            /\ UNCHANGED exits
       ELSE /\ exits' = [exits EXCEPT ![x] = outJob[x]]
            /\ OutGoto(x, "close")
            /\ UNCHANGED outJob
    /\ UNCHANGED <<payments, entryVars, storeVars>>

(* Mutant: every payment of the entry is deleted. *)
DeleteEntryPayments(x) ==
    /\ outPc[x] = "unpay"
    /\ payments' = payments \ {y \in ExitReq : y = x \/ exits[y].entry = outJob[x].entry}
    /\ OutReturn(x, "refused")
    /\ UNCHANGED <<exits, entryVars, storeVars>>

(* Mutant: the payment stays. *)
KeepPayment(x) ==
    /\ outPc[x] = "unpay"
    /\ OutReturn(x, "refused")
    /\ UNCHANGED <<exits, payments, entryVars, storeVars>>

DeletePayment(x) ==
    /\ outPc[x] = "unpay"
    /\ payments' = payments \ {x}
    /\ OutReturn(x, "refused")
    /\ UNCHANGED <<exits, entryVars, storeVars>>

(* Mutant: the update forgets the status. *)
StampEntry(x) ==
    LET e == outJob[x].entry IN
    /\ outPc[x] = "close"
    /\ entry' = [entry EXCEPT ![e].exit = x]
    /\ IF entry[e].slot # None
       THEN OutGoto(x, "complete") /\ UNCHANGED outJob
       ELSE OutReturn(x, "settled")
    /\ UNCHANGED <<sequence, images, inPc, inJob, exits, payments, storeVars>>

(* The entry is closed only if it is still open.  It always is (theorem    *)
(* ThmCloseNeverRefused), so the undoing that follows a lost race here is  *)
(* not cut into its database calls.                                        *)
CloseEntry(x) ==
    LET e == outJob[x].entry IN
    /\ outPc[x] = "close"
    /\ IF entry[e].status = "open"
       THEN /\ entry' = [entry EXCEPT ![e] = [@ EXCEPT !.status = "closed", !.exit = x]]
            /\ IF entry[e].slot # None
               THEN OutGoto(x, "complete") /\ UNCHANGED outJob
               ELSE OutReturn(x, "settled")
            /\ UNCHANGED <<exits, payments>>
       ELSE /\ exits' = [exits EXCEPT ![x] = NoExit]
            /\ payments' = payments \ {x}
            /\ OutReturn(x, "refused")
            /\ UNCHANGED entry
    /\ UNCHANGED <<sequence, images, inPc, inJob, storeVars>>

(* Mutant: the reservation gets a status no reservation has. *)
ExpireReservation(x) ==
    LET e == outJob[x].entry IN
    /\ outPc[x] = "complete"
    /\ resv' = [resv EXCEPT ![entry[e].resv].status = "expired"]
    /\ OutGoto(x, "free")
    /\ UNCHANGED <<exits, payments, outJob, entryVars, now, slot>>

(* _complete_reservation_on_exit: the reservation, then the slot. *)
CompleteReservation(x) ==
    LET e == outJob[x].entry
        r == entry[e].resv
    IN
    /\ outPc[x] = "complete"
    /\ resv' = IF resv[r].status = "active" /\ resv[r].claimed = e
               THEN [resv EXCEPT ![r].status = "completed"]
               ELSE resv
    /\ OutGoto(x, "free")
    /\ UNCHANGED <<exits, payments, outJob, entryVars, now, slot>>

FreeSlot(x) ==
    LET e == outJob[x].entry
        s == entry[e].slot
    IN
    /\ outPc[x] = "free"
    /\ slot' = IF slot[s] = [status |-> "occupied", entry |-> e]
               THEN [slot EXCEPT ![s] = [status |-> "available", entry |-> None]]
               ELSE slot
    /\ OutReturn(x, "settled")
    /\ UNCHANGED <<exits, payments, entryVars, now, resv>>

DropExit(x) ==
    /\ MayFail
    /\ outPc[x] \in OutRunning
    /\ OutReturn(x, "dropped")
    /\ UNCHANGED <<exits, payments, entryVars, storeVars>>

-----------------------------------------------------------------------------
InStep(e) ==
    \/ TakeNumber(e)
    \/ FindReservation(e)
    \/ OccupySlot(e)
    \/ ClaimReservation(e)
    \/ UndoOccupy(e)
    \/ SavePhoto(e)
    \/ InsertEntry(e)
    \/ ReleaseReservation(e)
    \/ ReleaseSlot(e)
    \/ DeletePhoto(e)

OutStep(x) ==
    \/ InsertPayment(x)
    \/ InsertExit(x)
    \/ DeletePayment(x)
    \/ CloseEntry(x)
    \/ CompleteReservation(x)
    \/ FreeSlot(x)

OpsNext ==
    \/ \E e \in EntryReq :
        \/ \E v \in Vehicle, t \in Tag \cup {None}, post \in PostedAt :
              BeginEntry(e, v, t, post)
        \/ InStep(e)
        \/ DropEntry(e)
    \/ \E x \in ExitReq :
        \/ \E e \in EntryReq, owing \in BOOLEAN : BeginExit(x, e, owing)
        \/ OutStep(x)
        \/ DropExit(x)
=============================================================================
