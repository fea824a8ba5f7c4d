---------------------------- MODULE ParkingStore ----------------------------
(***************************************************************************)
(* The collections that the entry/exit desk (ParkingOperationsService) and *)
(* the slot administration (AdvancedParkingService) share, for one         *)
(* company: parking_slots and reserved_slots, and the server's clock.      *)
(*                                                                         *)
(* A document is identified by the request that inserts it, because the    *)
(* code draws a fresh ObjectId per request: an entry is named by its       *)
(* create_entry request, an exit by its create_exit request, a reservation *)
(* by its create_reservation request.                                      *)
(***************************************************************************)
EXTENDS Naturals, FiniteSets

CONSTANTS
    EntryReq,       \* create_entry requests, hence the ids of vehicle_entries
    ExitReq,        \* create_exit requests, hence the ids of vehicle_exits
    AdminReq,       \* reservation requests; a create's id names its reservation
    Vehicle,        \* normalised vehicle numbers
    Slot,           \* ids of parking_slots
    Location,       \* ids of parking_locations
    SlotLocation,   \* parking_location_id of each slot, fixed at its creation
    MaxTime,        \* bound of the clock
    MayFail,        \* may a request die between two of its database calls?
    None            \* an absent field, or an absent document

ASSUME StoreAssumption ==
    /\ SlotLocation \in [Slot -> Location]
    /\ MaxTime \in Nat
    /\ MayFail \in BOOLEAN
    /\ None \notin EntryReq \cup ExitReq \cup AdminReq \cup Vehicle \cup Slot \cup Location
    /\ None \notin {"active", "cancelled", "completed"} \cup Nat

VARIABLES
    now,    \* datetime.now(UTC)
    slot,   \* parking_slots: status and occupied_entry_id
    resv    \* reserved_slots

storeVars == <<now, slot, resv>>

Time == 0 .. MaxTime

SlotStatus == {"available", "occupied", "reserved", "maintenance"}
ReservationStatus == {"active", "cancelled", "completed"}

SlotDoc == [status : SlotStatus \cup {"absent"}, entry : EntryReq \cup {None}]

ReservationDoc ==
    [status : ReservationStatus \cup {"absent"}, vehicle : Vehicle \cup {None},
     slot : Slot \cup {None}, from : Time, until : Time,
     claimed : EntryReq \cup {None}]

NoReservation ==
    [status |-> "absent", vehicle |-> None, slot |-> None, from |-> 0, until |-> 0,
     claimed |-> None]

StoreTypeOK ==
    /\ now \in Time
    /\ slot \in [Slot -> SlotDoc]
    /\ resv \in [AdminReq -> ReservationDoc]

StoreInit ==
    /\ now = 0
    /\ slot = [s \in Slot |-> [status |-> "absent", entry |-> None]]
    /\ resv = [r \in AdminReq |-> NoReservation]

(* An active reservation whose window holds the instant t. *)
ActiveAt(r, t) ==
    /\ resv[r].status = "active"
    /\ resv[r].from <= t
    /\ t < resv[r].until

Tick ==
    /\ now < MaxTime
    /\ now' = now + 1
    /\ UNCHANGED <<slot, resv>>
=============================================================================
