--------------------------- MODULE ParkingVisits ----------------------------
(***************************************************************************)
(* What the entry and exit desk promises, with no database in it: a        *)
(* vehicle is let in at most once before it leaves, and leaves once, under *)
(* a settlement that is its own.                                           *)
(***************************************************************************)
CONSTANTS Visit, Settlement, Plate, NoValue

VARIABLES
    inside,     \* visits in progress
    left,       \* visits that ended
    plate,      \* the vehicle of a visit
    settledBy   \* the settlement that ended a visit

visitVars == <<inside, left, plate, settledBy>>

VInit ==
    /\ inside = {}
    /\ left = {}
    /\ plate = [e \in Visit |-> NoValue]
    /\ settledBy = [e \in Visit |-> NoValue]

(* A vehicle that is not inside comes in, under a fresh visit. *)
Admit(e, v) ==
    /\ e \notin inside \cup left
    /\ \A o \in inside : plate[o] # v
    /\ inside' = inside \cup {e}
    /\ plate' = [plate EXCEPT ![e] = v]
    /\ UNCHANGED <<left, settledBy>>

(* A visit ends, under a settlement that ended no other visit. *)
Settle(e, x) ==
    /\ e \in inside
    /\ \A o \in left : settledBy[o] # x
    /\ inside' = inside \ {e}
    /\ left' = left \cup {e}
    /\ settledBy' = [settledBy EXCEPT ![e] = x]
    /\ UNCHANGED plate

VNext ==
    \/ \E e \in Visit, v \in Plate : Admit(e, v)
    \/ \E e \in Visit, x \in Settlement : Settle(e, x)

VisitSpec == VInit /\ [][VNext]_visitVars
=============================================================================
