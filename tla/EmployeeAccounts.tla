-------------------------- MODULE EmployeeAccounts ---------------------------
(***************************************************************************)
(* Employees with the accounts they log in with, and roles                 *)
(* (backend/app/application/employees/service.py, roles/service.py).  A    *)
(* call begins with its authorisation and its first reads; one that is     *)
(* refused there changes nothing and is not begun.                         *)
(***************************************************************************)
EXTENDS Directory

Begin(t, op, pc, on, form) ==
    /\ Idle(t)
    /\ call' = [call EXCEPT ![t] = Call(op, pc, on, form)]
    /\ UNCHANGED <<user, employee, role, who>>

-----------------------------------------------------------------------------
(* EmployeeService.create *)

CreateEmployee(t, u, f) ==
    /\ Authorised(t, "employee:save")
    /\ Fresh(u)
    /\ role[f.role].status = "active"
    /\ Begin(t, "create", "user", u, f)
    /\ split' = split \cup ({f.role} \cap Handled(t))

InsertUser(t) ==
    /\ At(t, "create", "user")
    /\ LET u == call[t].on  f == call[t].form IN
        IF NameTaken(u, f.name)
        THEN End(t) /\ UNCHANGED user
        ELSE user' = [user EXCEPT ![u] = Account("staff", f)] /\ Goto(t, "employee")
    /\ UNCHANGED <<employee, role, who, split>>

(* Mutant: the account stays when the employee is refused. *)
InsertOrGiveUp(t) ==
    /\ At(t, "create", "employee")
    /\ LET u == call[t].on  f == call[t].form IN
        employee' = IF EmployeeTaken(u, f) THEN employee ELSE [employee EXCEPT ![u] = Employee(f)]
    /\ End(t)
    /\ UNCHANGED <<user, role, who, split>>

InsertEmployee(t) ==
    /\ At(t, "create", "employee")
    /\ LET u == call[t].on  f == call[t].form IN
        IF EmployeeTaken(u, f)
        THEN Goto(t, "undo") /\ UNCHANGED employee
        ELSE employee' = [employee EXCEPT ![u] = Employee(f)] /\ End(t)
    /\ UNCHANGED <<user, role, who, split>>

UndoUser(t) ==
    /\ At(t, "create", "undo")
    /\ user' = [user EXCEPT ![call[t].on] = NoUser]
    /\ End(t)
    /\ UNCHANGED <<employee, role, who, split>>

-----------------------------------------------------------------------------
(* EmployeeService.update, of the whole form, and deactivate. *)

(* Mutant: an employee who left is found as well. *)
FindAny(u) == employee[u] # NoEmployee

Find(u) == employee[u] # NoEmployee /\ employee[u].status # "inactive"

UpdateEmployee(t, u, f) ==
    /\ Authorised(t, "employee:edit")
    /\ Find(u)
    /\ role[f.role].status = "active"
    /\ Begin(t, "update", "user", u, f)
    /\ split' = split \cup ({u, f.role} \cap Handled(t))

(* Mutant: the account keeps its status. *)
UpdateUserButStatus(t) ==
    /\ At(t, "update", "user")
    /\ LET u == call[t].on  f == call[t].form IN
        IF NameTaken(u, f.name)
        THEN End(t) /\ UNCHANGED user
        ELSE user' = [user EXCEPT ![u].role = f.role, ![u].name = f.name] /\ Goto(t, "employee")
    /\ UNCHANGED <<employee, role, who, split>>

UpdateUser(t) ==
    /\ At(t, "update", "user")
    /\ LET u == call[t].on  f == call[t].form IN
        IF NameTaken(u, f.name)
        THEN End(t) /\ UNCHANGED user
        ELSE user' = [user EXCEPT ![u] = Account(user[u].by, f)] /\ Goto(t, "employee")
    /\ UNCHANGED <<employee, role, who, split>>

(* A number that is taken leaves the account changed and the employee not. *)
UpdateDocument(t) ==
    /\ At(t, "update", "employee")
    /\ LET u == call[t].on  f == call[t].form IN
        IF EmployeeTaken(u, f)
        THEN split' = split \cup {u} /\ UNCHANGED employee
        ELSE employee' = [employee EXCEPT ![u] = Employee(f)] /\ UNCHANGED split
    /\ End(t)
    /\ UNCHANGED <<user, role, who>>

DeactivateEmployee(t, u) ==
    /\ Authorised(t, "employee:delete")
    /\ Find(u)
    /\ Begin(t, "deactivate", "user", u, None)
    /\ split' = split \cup ({u} \cap Handled(t))

DisableUser(t) ==
    /\ At(t, "deactivate", "user")
    /\ user' = [user EXCEPT ![call[t].on].status = "disabled"]
    /\ Goto(t, "employee")
    /\ UNCHANGED <<employee, role, who, split>>

RetireEmployee(t) ==
    /\ At(t, "deactivate", "employee")
    /\ employee' = [employee EXCEPT ![call[t].on].status = "inactive"]
    /\ End(t)
    /\ UNCHANGED <<user, role, who, split>>

-----------------------------------------------------------------------------
(* RoleService.  System templates can be given other permissions, and stay. *)

CreateRole(t, r, permissions) ==
    /\ Idle(t) /\ Authorised(t, "super")
    /\ role[r] = NoRole
    /\ role' = [role EXCEPT ![r] = [status |-> "active", permissions |-> permissions]]
    /\ UNCHANGED <<user, employee, who, call, split>>

UpdateRole(t, r, permissions) ==
    /\ Idle(t) /\ Authorised(t, "super")
    /\ role[r].status = "active"
    /\ role' = [role EXCEPT ![r].permissions = permissions]
    /\ UNCHANGED <<user, employee, who, call, split>>

(* Mutant: roles are deleted whoever has them. *)
NoOneHas(r) == TRUE

Unassigned(r) == \A u \in User : user[u].role = r => user[u].status # "active"

DeleteRole(t, r) ==
    /\ Authorised(t, "super")
    /\ Unassigned(r)
    /\ Begin(t, "delete_role", "role", r, None)
    /\ split' = split \cup ({r} \cap Assigned(t))

RemoveRole(t) ==
    /\ At(t, "delete_role", "role")
    /\ LET r == call[t].on IN
        role' = IF r # System /\ role[r].status = "active" THEN [role EXCEPT ![r].status = "inactive"] ELSE role
    /\ End(t)
    /\ UNCHANGED <<user, employee, who, split>>

-----------------------------------------------------------------------------
(* AuthService.register: a viewer's account, without an employee, which    *)
(* the tab signs in with.                                                  *)
Register(t, u, name) ==
    /\ Idle(t) /\ Fresh(u) /\ ~NameTaken(u, name)
    /\ user' = [user EXCEPT ![u] = [status |-> "active", by |-> "register", role |-> System, name |-> name]]
    /\ who' = [who EXCEPT ![t] = u]
    /\ UNCHANGED <<employee, role, call, split>>

StaffStep(t) ==
    \/ InsertUser(t) \/ InsertEmployee(t) \/ UndoUser(t)
    \/ UpdateUser(t) \/ UpdateDocument(t)
    \/ DisableUser(t) \/ RetireEmployee(t)
    \/ RemoveRole(t)
=============================================================================
