-------------------------- MODULE MCParkingSystem --------------------------
(***************************************************************************)
(* Values for ParkingSystem's constants.                                   *)
(***************************************************************************)
EXTENDS ParkingSystem, TLC

CONSTANTS here, elsewhere

(* Every slot is at one site; an operator of the other site is turned away *)
(* from its reservations.                                                  *)
MCLocation == {here, elsewhere}
MCSlotLocation == [s \in Slot |-> here]
MCUnposted == {None}
MCPostedAt == {None, elsewhere}

(* One window, which the clock leaves before MaxTime. *)
MCWindow == {<<0, 1>>}

Keep == [status |-> None, from |-> None, until |-> None]

(* Cancel, reactivate. *)
MCNoChange == {}
MCCancel == {[Keep EXCEPT !.status = "cancelled"]}
MCToggle == MCCancel \cup {[Keep EXCEPT !.status = "active"]}

(* What the slot screen sets.  Creating slots as "reserved" leaves only    *)
(* the sync to make one available.                                         *)
MCAvailable == {"available"}
MCReserved == {"reserved"}
MCClosable == {"available", "maintenance"}

RequestSymmetry ==
    Permutations(EntryReq) \cup Permutations(ExitReq) \cup Permutations(AdminReq)
        \cup Permutations(Vehicle) \cup Permutations(Slot)
=============================================================================
