-------------------------- MODULE MCAdministration ---------------------------
EXTENDS Administration, TLC

CONSTANTS t1, t2, r1, x1, l1

(* A manager, a colleague on leave, and the colleague back with the        *)
(* manager's number.                                                       *)
Filled(r, status, name, number) == [role |-> r, status |-> status, name |-> name, number |-> number]

Forms ==
    {Filled(r1, "active", "m1", "n1"),
     Filled(r1, "on_leave", "m2", "n2"),
     Filled(r1, "active", "m2", "n1")}

Grants ==
    {{"dashboard:show", "parking_entry:show"},
     {"employee:show", "employee:save", "employee:edit", "employee:delete"}}

Tabs == {t1, t2}

TheBrowser == [t \in Tabs |-> "browser"]

Places == [l \in {l1} |-> x1]

Interchangeable == Permutations(Tab) \cup Permutations(User)
=============================================================================
