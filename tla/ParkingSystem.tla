--------------------------- MODULE ParkingSystem ----------------------------
(***************************************************************************)
(* The entry and exit desk and the slot administration over the same       *)
(* collections: every interleaving of their database calls.                *)
(***************************************************************************)
EXTENDS ParkingOperations, SlotReservations

vars == <<storeVars, opsVars, admVars>>

Init == StoreInit /\ OpsInit /\ AdmInit

ClockStep == Tick /\ UNCHANGED <<opsVars, admVars>>
DeskStep == OpsNext /\ UNCHANGED admVars
AdminStep == AdmNext /\ UNCHANGED opsVars

Next == ClockStep \/ DeskStep \/ AdminStep

Spec == Init /\ [][Next]_vars

(* The event loop runs every handler that is not waiting, and the driver   *)
(* answers every call: a request that began goes on.  Nothing makes a      *)
(* request begin, a request fail, or the clock tick.                       *)
Fairness ==
    /\ \A e \in EntryReq : WF_vars(InStep(e) /\ UNCHANGED admVars)
    /\ \A x \in ExitReq : WF_vars(OutStep(x) /\ UNCHANGED admVars)
    /\ \A a \in AdminReq : WF_vars(AdmStep(a) /\ UNCHANGED opsVars)

FairSpec == Spec /\ Fairness

(* Every variable of the two services holds a value of the type the        *)
(* schemas and the handlers give it.                                       *)
TypeOK == StoreTypeOK /\ OpsTypeOK /\ AdmTypeOK

-----------------------------------------------------------------------------
(* Settlement. *)

(* A closed entry always has the exit it names, and that exit is its own:  *)
(* create_exit never undoes an exit that another request closed on, and no *)
(* crash can lose one, because the exit is stored before the entry closes. *)
ClosedHasItsExit ==
    \A e \in EntryReq : entry[e].status = "closed" =>
        entry[e].exit \in ExitReq /\ exits[entry[e].exit].entry = e

(* Of the requests that settle one entry only one gets past the unique     *)
(* index, so the "is no longer open" refusal after the exit is stored      *)
(* (service.py 545-549) is never taken.                                    *)
CloseNeverRefused ==
    \A x \in ExitReq : outPc[x] = "close" => entry[outJob[x].entry].status = "open"

(* When no exit of an entry is being processed, its payments are exactly   *)
(* those its stored exit asks for: a till that lost the race took its      *)
(* payment back, and the one that won kept it.                             *)
LedgerAgrees ==
    \A x \in ExitReq : outPc[x] \in OutEnded =>
        (x \in payments <=> exits[x].entry # None /\ exits[x].paid)

(* An exit that is stored outside any request in progress has closed its   *)
(* entry: nobody is left inside with the settlement already on file.       *)
ExitMeansClosed ==
    \A x \in ExitReq : outPc[x] \in OutEnded /\ exits[x].entry # None =>
        entry[exits[x].entry].status = "closed"

(* Documents are named by requests, so an exit that closed an entry is     *)
(* never rewritten and neither is the closed entry: settling is for good,  *)
(* and so is the payment that went with it.                                *)
SettledForGood ==
    [][\A e \in EntryReq : entry[e].status = "closed" =>
          /\ entry'[e] = entry[e]
          /\ exits'[entry[e].exit] = exits[entry[e].exit]
          /\ entry[e].exit \in payments <=> entry[e].exit \in payments']_vars

(* The desk implements the abstract visit: open entries are the vehicles   *)
(* inside, and the exit an entry names is its settlement.                  *)
Visits ==
    INSTANCE ParkingVisits WITH
        Visit <- EntryReq, Settlement <- ExitReq, Plate <- Vehicle, NoValue <- None,
        inside <- {e \in EntryReq : entry[e].status = "open"},
        left <- {e \in EntryReq : entry[e].status = "closed"},
        plate <- [e \in EntryReq |-> entry[e].vehicle],
        settledBy <- [e \in EntryReq |-> entry[e].exit]

ImplementsVisits == Visits!VisitSpec

-----------------------------------------------------------------------------
(* Slots. *)

(* Entry e has slot s: its request occupied it and has not given it back,  *)
(* or it is parked there, or its exit is about to free it.                 *)
Holds(e, s) ==
    \/ /\ inPc[e] \in {"claim", "undo", "photo", "insert", "unclaim", "vacate"}
       /\ inJob[e].slot = s
    \/ entry[e].status = "open" /\ entry[e].slot = s
    \/ /\ entry[e].slot = s
       /\ \E x \in ExitReq : outPc[x] \in {"complete", "free"} /\ outJob[x].entry = e

(* Whoever has a slot keeps it: it stays occupied in that entry's name     *)
(* whatever reservations are made, moved, cancelled or synchronised        *)
(* meanwhile, and whatever requests die, as long as the slot screen leaves *)
(* occupied slots alone.  So no two vehicles are ever parked in one slot.  *)
HolderKeepsSlot ==
    \A s \in Slot, e \in EntryReq :
        Holds(e, s) => slot[s] = [status |-> "occupied", entry |-> e]

(* No slot leaks: one that is occupied in an entry's name is in that       *)
(* entry's hands, when no request dies.                                    *)
OccupiedIsHeld ==
    \A s \in Slot, e \in EntryReq :
        slot[s] = [status |-> "occupied", entry |-> e] => Holds(e, s)

(* A parked vehicle's reservation is claimed by its entry and by no other, *)
(* and is for the slot and the vehicle of that entry.                      *)
ClaimIsOurs ==
    \A e \in EntryReq : entry[e].status = "open" /\ entry[e].slot # None =>
        LET r == entry[e].resv IN
        /\ resv[r].claimed = e
        /\ resv[r].slot = entry[e].slot
        /\ resv[r].vehicle = entry[e].vehicle

-----------------------------------------------------------------------------
(* Reservations. *)

(* Overlap is prevented by a service check: two active reservations of one *)
(* slot never share an instant (create_reservation, update_reservation).   *)
NoOverlap ==
    \A r, o \in AdminReq :
        /\ r # o
        /\ resv[r].status = "active" /\ resv[o].status = "active"
        /\ resv[r].slot = resv[o].slot
        => resv[r].until <= resv[o].from \/ resv[o].until <= resv[r].from

(* The sync reflects an active reservation in its slot's status: once no   *)
(* reservation request is in progress, a slot with a reservation that is   *)
(* active, now or later, is not offered as available.                      *)
QuietSlotReflects ==
    (\A a \in AdminReq : admPc[a] \notin AdmRunning) =>
        \A s \in Slot : Pending(s) => slot[s].status # "available"

-----------------------------------------------------------------------------
(* Progress. *)

(* Whoever offers the exact balance of an open entry gets it closed, by    *)
(* this request or by a rival: two tills never refuse each other.          *)
OfferSettles ==
    \A e \in EntryReq :
        (\E x \in ExitReq : outPc[x] \in OutRunning /\ outJob[x].entry = e)
            ~> entry[e].status = "closed"

(* A slot taken for an entry that is then refused is given back.           *)
RefusalFreesSlot ==
    \A e \in EntryReq, s \in Slot :
        (slot[s] = [status |-> "occupied", entry |-> e])
            ~> (entry[e].status # "absent" \/ slot[s].entry # e)
=============================================================================
