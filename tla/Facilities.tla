----------------------------- MODULE Facilities ------------------------------
(***************************************************************************)
(* Branches and the parking locations in them                              *)
(* (backend/app/application/companies/service.py).  Updates of the company,*)
(* of a branch or of a location change particulars that nothing here reads.*)
(***************************************************************************)
EXTENDS Directory

CONSTANTS
    Branch,
    Location,
    Within      \* the branch a location is created in

ASSUME FacilityAssumption == Within \in [Location -> Branch]

VARIABLES
    branch,     \* branches: their status
    location    \* parking_locations: their status

facilityVars == <<branch, location>>

FacilityTypeOK ==
    /\ branch \in [Branch -> {"none", "active", "inactive"}]
    /\ location \in [Location -> {"none", "active", "inactive"}]

FacilityInit ==
    /\ branch = [x \in Branch |-> "none"]
    /\ location = [l \in Location |-> "none"]

CreateBranch(t, x) ==
    /\ Idle(t) /\ Authorised(t, "super")
    /\ branch[x] = "none"
    /\ branch' = [branch EXCEPT ![x] = "active"]
    /\ UNCHANGED <<location, directoryVars>>

(* Mutant: the locations are left as they are. *)
CloseBranchOnly(t, x) ==
    /\ Idle(t) /\ Authorised(t, "super")
    /\ branch[x] = "active"
    /\ branch' = [branch EXCEPT ![x] = "inactive"]
    /\ UNCHANGED <<location, directoryVars>>

(* deactivate_branch: the branch first, then its locations. *)
CloseBranch(t, x) ==
    /\ Idle(t) /\ Authorised(t, "super")
    /\ branch[x] = "active"
    /\ branch' = [branch EXCEPT ![x] = "inactive"]
    /\ call' = [call EXCEPT ![t] = Call("close_branch", "sweep", x, None)]
    /\ split' = split \cup ({x} \cap {Within[l] : l \in Handled(t) \cap Location})
    /\ UNCHANGED <<location, user, employee, role, who>>

SweepLocations(t) ==
    /\ At(t, "close_branch", "sweep")
    /\ location' = [l \in Location |->
        IF Within[l] = call[t].on /\ location[l] = "active" THEN "inactive" ELSE location[l]]
    /\ End(t)
    /\ UNCHANGED <<branch, user, employee, role, who, split>>

(* create_location finds its branch active, then inserts. *)
CreateLocation(t, l) ==
    /\ Idle(t) /\ Authorised(t, "super")
    /\ location[l] = "none" /\ l \notin Handled(t)
    /\ branch[Within[l]] = "active"
    /\ call' = [call EXCEPT ![t] = Call("create_location", "insert", l, None)]
    /\ UNCHANGED <<facilityVars, user, employee, role, who, split>>

InsertLocation(t) ==
    /\ At(t, "create_location", "insert")
    /\ location' = [location EXCEPT ![call[t].on] = "active"]
    /\ End(t)
    /\ UNCHANGED <<branch, user, employee, role, who, split>>

(* deactivate_location; between its two calls nothing can undo what the    *)
(* first found out but the branch's own end, which closes the location too.*)
CloseLocation(t, l) ==
    /\ Idle(t) /\ Authorised(t, "super")
    /\ branch[Within[l]] = "active"
    /\ location[l] = "active"
    /\ location' = [location EXCEPT ![l] = "inactive"]
    /\ UNCHANGED <<branch, directoryVars>>

FacilityStep(t) == SweepLocations(t) \/ InsertLocation(t)
=============================================================================
