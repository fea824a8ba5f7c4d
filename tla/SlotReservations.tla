-------------------------- MODULE SlotReservations --------------------------
(***************************************************************************)
(* AdvancedParkingService (application/advanced/service.py): parking slots *)
(* and their reservations.  There is no transaction: a handler is the      *)
(* sequence of its awaited database calls, one action each, and between    *)
(* two of them any other handler may run.  admPc is where a reservation    *)
(* request stands, admJob what its local variables hold.  A request that   *)
(* is refused before its first write changes nothing: such a refusal is a  *)
(* guard of the action that begins the request.                            *)
(***************************************************************************)
EXTENDS ParkingStore

CONSTANTS
    Window,         \* <<from, until>> windows asked for by create_reservation
    Change,         \* payloads of update_reservation
    AdminStatus,    \* statuses the slot screen sets
    AdminOverride   \* do people re-status a slot with a vehicle in it?

ASSUME AdminAssumption ==
    /\ Window \subseteq {w \in Time \X Time : w[1] < w[2]}
    /\ Change \subseteq [status : ReservationStatus \cup {None},
                         from : Time \cup {None}, until : Time \cup {None}]
    /\ AdminStatus \subseteq SlotStatus
    /\ AdminOverride \in BOOLEAN

VARIABLES admPc, admJob

admVars == <<admPc, admJob>>

AdmRunning == {"overlap", "insert", "reoverlap", "write",
               "syncSlot", "syncReservations", "syncWrite"}
AdmEnded == {"done", "refused", "dropped"}

(* resv: the reservation; status, from, until: the payload, None for a     *)
(* value the payload leaves out; validFrom, validUntil: the window the     *)
(* overlap check uses; found: whether the sync found a live reservation.   *)
AdmJob ==
    [resv : AdminReq \cup {None}, slot : Slot \cup {None}, vehicle : Vehicle \cup {None},
     status : ReservationStatus \cup {None},
     from : Time \cup {None}, until : Time \cup {None},
     validFrom : Time, validUntil : Time, found : BOOLEAN]

NoAdmJob ==
    [resv |-> None, slot |-> None, vehicle |-> None, status |-> None, from |-> None,
     until |-> None, validFrom |-> 0, validUntil |-> 0, found |-> FALSE]

AdmTypeOK ==
    /\ admPc \in [AdminReq -> {"idle"} \cup AdmRunning \cup AdmEnded]
    /\ admJob \in [AdminReq -> AdmJob]

AdmInit ==
    /\ admPc = [a \in AdminReq |-> "idle"]
    /\ admJob = [a \in AdminReq |-> NoAdmJob]

AdmGoto(a, step) == admPc' = [admPc EXCEPT ![a] = step]

AdmReturn(a, outcome) ==
    /\ AdmGoto(a, outcome)
    /\ admJob' = [admJob EXCEPT ![a] = NoAdmJob]

(* $set of a payload value: a value left out keeps what is stored. *)
Patched(value, stored) == IF value = None THEN stored ELSE value

Overlaps(r, from, until) ==
    /\ resv[r].status = "active"
    /\ resv[r].until > from
    /\ resv[r].from < until

-----------------------------------------------------------------------------
(* Slots. *)

CreateSlot(s, status) ==
    /\ slot[s].status = "absent"
    /\ slot' = [slot EXCEPT ![s] = [status |-> status, entry |-> None]]
    /\ UNCHANGED <<now, resv, admVars>>

(* update_slot sets the status it is given whatever the slot holds, and    *)
(* leaves occupied_entry_id alone.  The code has no guard: AdminOverride = *)
(* FALSE is an assumption on the people at the slot screen, who then never *)
(* change the status of a slot with a vehicle in it.                       *)
UpdateSlot(s, status) ==
    /\ slot[s].status # "absent"
    /\ slot[s].status = "occupied" => AdminOverride
    /\ slot' = [slot EXCEPT ![s].status = status]
    /\ UNCHANGED <<now, resv, admVars>>

-----------------------------------------------------------------------------
(* create_reservation: read the slot, look for an overlap, insert, sync.   *)
(* A payload without a status gets the schema's default, active.           *)

BeginCreate(a, v, s, w, status) ==
    /\ admPc[a] = "idle"
    /\ slot[s].status \in {"available", "reserved"}
    /\ AdmGoto(a, "overlap")
    /\ admJob' = [admJob EXCEPT ![a] =
                    [resv |-> a, slot |-> s, vehicle |-> v, status |-> status,
                     from |-> w[1], until |-> w[2],
                     validFrom |-> w[1], validUntil |-> w[2], found |-> FALSE]]
    /\ UNCHANGED storeVars

CheckOverlap(a) ==
    LET job == admJob[a] IN
    /\ admPc[a] = "overlap"
    /\ IF \E r \in AdminReq : resv[r].slot = job.slot
                              /\ Overlaps(r, job.validFrom, job.validUntil)
       THEN AdmReturn(a, "refused")
       ELSE AdmGoto(a, "insert") /\ UNCHANGED admJob
    /\ UNCHANGED storeVars

InsertReservation(a) ==
    LET job == admJob[a] IN
    /\ admPc[a] = "insert"
    /\ resv' = [resv EXCEPT ![a] =
                  [status |-> Patched(job.status, "active"),
                   vehicle |-> job.vehicle, slot |-> job.slot,
                   from |-> job.validFrom, until |-> job.validUntil, claimed |-> None]]
    /\ AdmGoto(a, "syncSlot")
    /\ UNCHANGED <<now, slot, admJob>>

-----------------------------------------------------------------------------
(* update_reservation: read the stored document, check the merged window   *)
(* and its overlaps, then $set only what the payload names.                *)

BeginUpdate(a, r, change) ==
    LET from == Patched(change.from, resv[r].from)
        until == Patched(change.until, resv[r].until)
        status == Patched(change.status, resv[r].status)
    IN
    /\ admPc[a] = "idle"
    /\ resv[r].status # "absent"
    /\ from < until
    /\ AdmGoto(a, IF status = "active" THEN "reoverlap" ELSE "write")
    /\ admJob' = [admJob EXCEPT ![a] =
                    [resv |-> r, slot |-> resv[r].slot, vehicle |-> None,
                     status |-> change.status,
                     from |-> change.from, until |-> change.until,
                     validFrom |-> from, validUntil |-> until, found |-> FALSE]]
    /\ UNCHANGED storeVars

RecheckOverlap(a) ==
    LET job == admJob[a] IN
    /\ admPc[a] = "reoverlap"
    /\ IF \E r \in AdminReq \ {job.resv} : resv[r].slot = job.slot
                                           /\ Overlaps(r, job.validFrom, job.validUntil)
       THEN AdmReturn(a, "refused")
       ELSE AdmGoto(a, "write") /\ UNCHANGED admJob
    /\ UNCHANGED storeVars

WriteReservation(a) ==
    LET job == admJob[a]
        old == resv[job.resv]
    IN
    /\ admPc[a] = "write"
    /\ resv' = [resv EXCEPT ![job.resv] =
                  [old EXCEPT !.status = Patched(job.status, old.status),
                              !.from = Patched(job.from, old.from),
                              !.until = Patched(job.until, old.until)]]
    /\ AdmGoto(a, "syncSlot")
    /\ UNCHANGED <<now, slot, admJob>>

-----------------------------------------------------------------------------
(* _sync_slot_reservation_status: read the slot, read its reservations,    *)
(* write the status the second read suggested.                             *)

SyncSlot(a) ==
    /\ admPc[a] = "syncSlot"
    /\ IF slot[admJob[a].slot].status \in {"occupied", "maintenance"}
       THEN AdmReturn(a, "done")
       ELSE AdmGoto(a, "syncReservations") /\ UNCHANGED admJob
    /\ UNCHANGED storeVars

(* A reservation that keeps slot s "reserved", now or later. *)
Pending(s) ==
    \E r \in AdminReq :
        resv[r].slot = s /\ resv[r].status = "active" /\ resv[r].until > now

SyncReservations(a) ==
    /\ admPc[a] = "syncReservations"
    /\ admJob' = [admJob EXCEPT ![a].found = Pending(admJob[a].slot)]
    /\ AdmGoto(a, "syncWrite")
    /\ UNCHANGED storeVars

(* Mutant: the write does not look at the status again. *)
SyncOverwrite(a) ==
    LET s == admJob[a].slot IN
    /\ admPc[a] = "syncWrite"
    /\ slot' = [slot EXCEPT ![s].status =
                   IF admJob[a].found THEN "reserved" ELSE "available"]
    /\ AdmReturn(a, "done")
    /\ UNCHANGED <<now, resv>>

SyncWrite(a) ==
    LET s == admJob[a].slot IN
    /\ admPc[a] = "syncWrite"
    /\ slot' = IF slot[s].status \in {"occupied", "maintenance"}
               THEN slot
               ELSE [slot EXCEPT ![s].status =
                       IF admJob[a].found THEN "reserved" ELSE "available"]
    /\ AdmReturn(a, "done")
    /\ UNCHANGED <<now, resv>>

(* The request dies at an await: the process stops, or a database call     *)
(* raises.  What it wrote stays.                                           *)
DropAdmin(a) ==
    /\ MayFail
    /\ admPc[a] \in AdmRunning
    /\ AdmReturn(a, "dropped")
    /\ UNCHANGED storeVars

AdmStep(a) ==
    \/ CheckOverlap(a)
    \/ InsertReservation(a)
    \/ RecheckOverlap(a)
    \/ WriteReservation(a)
    \/ SyncSlot(a)
    \/ SyncReservations(a)
    \/ SyncWrite(a)

AdmNext ==
    \/ \E s \in Slot, status \in AdminStatus : CreateSlot(s, status) \/ UpdateSlot(s, status)
    \/ \E a \in AdminReq :
        \/ \E v \in Vehicle, s \in Slot, w \in Window,
            status \in (ReservationStatus \ {"active"}) \cup {None} :
              BeginCreate(a, v, s, w, status)
        \/ \E r \in AdminReq, change \in Change : BeginUpdate(a, r, change)
        \/ AdmStep(a)
        \/ DropAdmin(a)
=============================================================================
