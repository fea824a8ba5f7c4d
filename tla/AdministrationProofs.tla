------------------------ MODULE AdministrationProofs ------------------------
(***************************************************************************)
(* Accounts follow their employees, who has left stays out, a role in use  *)
(* is not deleted, no location stays open in a branch that closed, and     *)
(* everything keeps its type, for any number of tabs, accounts, forms,     *)
(* roles, branches and locations.                                          *)
(***************************************************************************)
EXTENDS SetupProofs

(* A tab changes an employee that exists. *)
Edits(t, u) == call[t].op \in {"update", "deactivate"} /\ call[t].on = u

(* Employees on whom no calls overlapped or were cut short. *)
Whole(u) == u \notin split /\ Has(u)

Agrees(u) ==
    /\ user[u].status = AccountStatus(employee[u].status)
    /\ user[u].role = employee[u].role
    /\ user[u].name = employee[u].name

Matches(u, f) ==
    user[u].status = AccountStatus(f.status) /\ user[u].role = f.role /\ user[u].name = f.name

(* What the account of a call's employee is by the time the employee is    *)
(* written.                                                                *)
Ahead(t, u) ==
    IF call[t].op = "update" THEN Matches(u, call[t].form)
    ELSE user[u].status = "disabled" /\ user[u].role = employee[u].role /\ user[u].name = employee[u].name

(* One tab at a time changes the employee, none if it has left; the        *)
(* account agrees with it, or is ahead of it by the write a call still has *)
(* to make.                                                                *)
Orderly(u) ==
    /\ \A s, t \in Tab : Edits(s, u) /\ Edits(t, u) => s = t
    /\ \A t \in Tab : Edits(t, u) => employee[u].status # "inactive"
    /\ \A t \in Tab : Edits(t, u) /\ call[t].pc = "employee" => Ahead(t, u)
    /\ (\A t \in Tab : Edits(t, u) => call[t].pc # "employee") => Agrees(u)

Written(t) == IF call[t].op = "admin" THEN AdminForm(call[t].form) ELSE call[t].form

AgreeInv ==
    /\ \A u \in User : Whole(u) => Orderly(u)
    /\ \A t \in Tab : Creates(t) /\ call[t].pc = "employee" => Matches(call[t].on, Written(t))

-----------------------------------------------------------------------------
(* Nobody exists initially. *)
LEMMA InitAgreeInv == Init => AgreeInv
BY DEF Init, DirectoryInit, AgreeInv, Whole, Has, Creates, NoCall

(* A step that writes neither accounts nor employees: the call of one tab  *)
(* ends, goes on or begins.                                                *)
LEMMA UnwrittenAgreeInv ==
    ASSUME AgreeInv, NEW t \in Tab, UNCHANGED <<user, employee>>, split \subseteq split',
           \A s \in Tab \ {t} : call'[s] = call[s],
           call[t].op \in {"update", "deactivate"} /\ call[t].pc = "employee" => call[t].on \in split',
           call'[t].op \in {"update", "deactivate"} =>
               /\ call'[t].pc # "employee"
               /\ employee[call'[t].on].status # "inactive"
               /\ \A s \in Tab \ {t} : call[s].on = call'[t].on => call'[t].on \in split',
           call'[t].op \in {"create", "admin"} => call'[t].pc # "employee"
    PROVE  AgreeInv'
<1>1. ASSUME NEW u \in User, Whole(u)' PROVE Orderly(u)'
  <2>1. Whole(u) /\ Orderly(u)
    BY <1>1 DEF AgreeInv, Whole, Has
  <2>2. \A s \in Tab : Edits(s, u)' /\ call'[s].pc = "employee" => s # t /\ Edits(s, u) /\ Ahead(s, u)'
    BY <2>1 DEF Orderly, Edits, Ahead, Matches
  <2>3. \A r, s \in Tab : Edits(r, u)' /\ Edits(s, u)' => r = s
    BY <1>1, <2>1 DEF Orderly, Whole, Edits
  <2>4. \A s \in Tab : Edits(s, u)' => employee'[u].status # "inactive"
    BY <2>1 DEF Orderly, Edits
  <2>5. (\A s \in Tab : Edits(s, u)' => call'[s].pc # "employee") => Agrees(u)'
    BY <1>1, <2>1 DEF Orderly, Whole, Edits, Agrees
  <2> QED BY <2>2, <2>3, <2>4, <2>5 DEF Orderly
<1>2. ASSUME NEW s \in Tab, Creates(s)', call'[s].pc = "employee" PROVE Matches(call[s].on, Written(s))'
  BY <1>2 DEF AgreeInv, Creates, Matches, Written
<1> QED BY <1>1, <1>2 DEF AgreeInv

(* A new account, or none any more: it has no employee. *)
LEMMA AccountAgreeInv ==
    ASSUME SetupInv, AgreeInv, NEW t \in Tab, Creates(t), call[t].pc \in {"user", "undo"},
           UNCHANGED <<employee, split>>,
           \A s \in Tab \ {t} : call'[s] = call[s],
           \A v \in User \ {call[t].on} : user'[v] = user[v],
           call'[t].op \notin {"update", "deactivate"},
           Creates(t)' => call'[t].on = call[t].on,
           Creates(t)' /\ call'[t].pc = "employee" => Matches(call[t].on, Written(t))'
    PROVE  AgreeInv'
<1> DEFINE on == call[t].on
<1>1. ~Has(on) /\ on \in User
  BY DEF SetupInv, StaffInv, Typed, Creates
<1>2. ASSUME NEW u \in User, Whole(u)' PROVE Orderly(u)'
  <2>1. Whole(u) /\ Orderly(u) /\ u # on
    BY <1>1, <1>2 DEF AgreeInv, Whole, Has
  <2>2. user'[u] = user[u] /\ employee'[u] = employee[u]
    BY <2>1
  <2>3. \A s \in Tab : Edits(s, u)' <=> Edits(s, u)
    BY <2>1 DEF Edits, Creates
  <2>4. \A s \in Tab : Edits(s, u) => call'[s] = call[s]
    BY DEF Edits, Creates
  <2> QED BY <2>1, <2>2, <2>3, <2>4 DEF Orderly, Ahead, Matches, Agrees
<1>3. ASSUME NEW s \in Tab, Creates(s)', call'[s].pc = "employee" PROVE Matches(call[s].on, Written(s))'
  <2>1. CASE s = t
    BY <1>3, <2>1
  <2>2. CASE s # t
    <3>1. call'[s] = call[s] /\ call[s].on # on /\ call[s].on \in User
      BY <1>3, <2>2 DEF SetupInv, StaffInv, Typed, Creates
    <3>2. user'[call[s].on] = user[call[s].on]
      BY <3>1
    <3> QED BY <1>3, <3>1, <3>2 DEF AgreeInv, Creates, Matches, Written
  <2> QED BY <2>1, <2>2
<1> QED BY <1>2, <1>3 DEF AgreeInv

(* The employee of a new account, which is about it and nobody else. *)
LEMMA EmployeeAgreeInv ==
    ASSUME SetupInv, AgreeInv, NEW t \in Tab, Creates(t), call[t].pc = "employee",
           UNCHANGED <<user, split>>,
           \A s \in Tab \ {t} : call'[s] = call[s],
           \A v \in User \ {call[t].on} : employee'[v] = employee[v],
           employee'[call[t].on] = Employee(Written(t)),
           call'[t].op \notin {"update", "deactivate"},
           Creates(t)' => call'[t].pc # "employee"
    PROVE  AgreeInv'
<1> DEFINE on == call[t].on
<1>1. ~Has(on) /\ on \in User /\ Matches(on, Written(t))
  BY DEF SetupInv, StaffInv, Typed, AgreeInv, Creates
<1>2. ASSUME NEW u \in User, Whole(u)' PROVE Orderly(u)'
  <2>1. CASE u = on
    <3>1. \A s \in Tab : ~Edits(s, u)'
      <4>1. \A s \in Tab : ~Edits(s, u)
        BY <1>1, <2>1 DEF SetupInv, StaffInv, Edits
      <4> QED BY <4>1 DEF Edits
    <3>2. Agrees(u)'
      BY <1>1, <2>1 DEF Agrees, Matches, Employee
    <3> QED BY <3>1, <3>2 DEF Orderly
  <2>2. CASE u # on
    <3>1. Whole(u) /\ Orderly(u) /\ user'[u] = user[u] /\ employee'[u] = employee[u]
      BY <1>2, <2>2 DEF AgreeInv, Whole, Has
    <3>2. \A s \in Tab : Edits(s, u)' <=> Edits(s, u)
      BY DEF Edits, Creates
    <3>3. \A s \in Tab : Edits(s, u) => call'[s] = call[s]
      BY DEF Edits, Creates
    <3> QED BY <3>1, <3>2, <3>3 DEF Orderly, Ahead, Matches, Agrees
  <2> QED BY <2>1, <2>2
<1>3. ASSUME NEW s \in Tab, Creates(s)', call'[s].pc = "employee" PROVE Matches(call[s].on, Written(s))'
  BY <1>3 DEF AgreeInv, Creates, Matches, Written
<1> QED BY <1>2, <1>3 DEF AgreeInv

(* The two writes of an update or of a deactivation. *)
LEMMA EditAgreeInv ==
    ASSUME SetupInv, AgreeInv, NEW t \in Tab, call[t].op \in {"update", "deactivate"},
           UNCHANGED split, NEW on, on = call[t].on,
           \A s \in Tab \ {t} : call'[s] = call[s],
           \A v \in User \ {on} : user'[v] = user[v] /\ employee'[v] = employee[v],
           \/ /\ call'[t].op = call[t].op /\ call'[t].on = on /\ call'[t].pc = "employee"
              /\ UNCHANGED employee /\ (Whole(on) => Ahead(t, on)')
           \/ /\ call'[t].op = "none"
              /\ Whole(on) => Agrees(on)'
    PROVE  AgreeInv'
<1>1. on \in User /\ Has(on) /\ Edits(t, on)
  BY DEF SetupInv, StaffInv, Typed, Edits
<1>2. ASSUME NEW u \in User, Whole(u)' PROVE Orderly(u)'
  <2>1. CASE u = on
    <3>1. Whole(u) /\ Orderly(u) /\ Edits(t, u)
      BY <1>1, <1>2, <2>1 DEF AgreeInv, Whole
    <3>2. \A s \in Tab : Edits(s, u) => s = t
      BY <3>1 DEF Orderly
    <3>3. \A s \in Tab : Edits(s, u)' => s = t /\ call'[t].op = call[t].op
      BY <3>2 DEF Edits
    <3>4. CASE call'[t].op = call[t].op
      BY <2>1, <3>1, <3>3, <3>4 DEF Orderly, Edits
    <3>5. CASE call'[t].op = "none"
      BY <2>1, <3>1, <3>3, <3>5 DEF Orderly, Edits
    <3> QED BY <3>4, <3>5
  <2>2. CASE u # on
    <3>1. Whole(u) /\ Orderly(u) /\ user'[u] = user[u] /\ employee'[u] = employee[u]
      BY <1>2, <2>2 DEF AgreeInv, Whole, Has
    <3>2. \A s \in Tab : Edits(s, u)' <=> Edits(s, u)
      BY <2>2 DEF Edits
    <3>3. \A s \in Tab : Edits(s, u) => call'[s] = call[s]
      BY <2>2 DEF Edits
    <3> QED BY <3>1, <3>2, <3>3 DEF Orderly, Ahead, Matches, Agrees
  <2> QED BY <2>1, <2>2
<1>3. ASSUME NEW s \in Tab, Creates(s)', call'[s].pc = "employee" PROVE Matches(call[s].on, Written(s))'
  <2>1. s # t /\ call'[s] = call[s] /\ Creates(s)
    BY <1>3 DEF Creates
  <2>2. ~Has(call[s].on) /\ call[s].on \in User
    BY <1>3, <2>1 DEF SetupInv, StaffInv, Typed, Creates
  <2>3. user'[call[s].on] = user[call[s].on]
    BY <1>1, <2>2
  <2> QED BY <1>3, <2>1, <2>3 DEF AgreeInv, Matches, Written
<1> QED BY <1>2, <1>3 DEF AgreeInv

-----------------------------------------------------------------------------
(* Setup's calls on accounts and employees. *)
LEMMA SetupStepAgreeInv ==
    ASSUME SetupInv, AgreeInv, NEW t \in Tab, SetupStep(t)
    PROVE  AgreeInv'
<1> USE DEF At
<1> DEFINE u == call[t].on  f == call[t].form
<1>a. Typed
  BY DEF SetupInv
<1>1. CASE ReadSetup(t) \/ ClaimSetup(t) \/ InsertCompany(t) \/ InsertCompanyFails(t) \/ ReleaseSetup(t)
           \/ AwardToken(t) \/ ClaimAdmin(t) \/ CheckUsers(t) \/ AdminFails(t) \/ ReleaseAdmin(t) \/ FinishSetup(t)
           \/ (InsertAdmin(t) /\ NameTaken(u, f.name)) \/ (InsertAdminEmployee(t) /\ EmployeeTaken(u, f))
  <2>1. /\ UNCHANGED <<user, employee, split>> /\ call[t].op \in {"status", "company", "admin"}
        /\ End(t) \/ \E pc \in Pc \ {"employee"} : Goto(t, pc)
    BY <1>1 DEF ReadSetup, ClaimSetup, InsertCompany, InsertCompanyFails, ReleaseSetup, AwardToken, ClaimAdmin,
                CheckUsers, AdminFails, ReleaseAdmin, FinishSetup, InsertAdmin, InsertAdminEmployee, Pc
  <2>2. /\ \A s \in Tab \ {t} : call'[s] = call[s]
        /\ call'[t].op = "none" \/ (call'[t].op = call[t].op /\ call'[t].pc # "employee")
    BY <1>a, <2>1, CallEnded, CallGone
  <2> QED BY <2>1, <2>2, UnwrittenAgreeInv
<1>2. CASE InsertAdmin(t) /\ ~NameTaken(u, f.name)
  <2>1. /\ \A s \in Tab \ {t} : call'[s] = call[s]
        /\ call[t].op = "admin" /\ call[t].pc = "user" /\ u \in User /\ f \in Form
        /\ call'[t].op = "admin" /\ call'[t].on = u /\ call'[t].form = f
    BY <1>a, <1>2, CallGone DEF InsertAdmin, Pc, Typed
  <2>2. user' = [user EXCEPT ![u] = Account("setup", AdminForm(f))] /\ UNCHANGED <<employee, split>>
    BY <1>2 DEF InsertAdmin
  <2>3. user'[u] = Account("setup", AdminForm(f)) /\ \A v \in User \ {u} : user'[v] = user[v]
    BY <1>a, <2>1, <2>2 DEF Typed
  <2>4. Matches(call[t].on, Written(t))'
    BY <2>1, <2>3 DEF Matches, Written, Account
  <2> QED BY <2>1, <2>2, <2>3, <2>4, AccountAgreeInv DEF Creates
<1>3. CASE InsertAdminEmployee(t) /\ ~EmployeeTaken(u, f)
  <2>1. /\ \A s \in Tab \ {t} : call'[s] = call[s]
        /\ call[t].op = "admin" /\ call[t].pc = "employee" /\ u \in User
        /\ call'[t].op = "admin" /\ call'[t].pc = "finish"
    BY <1>a, <1>3, CallGone DEF InsertAdminEmployee, Pc, Typed
  <2>2. employee' = [employee EXCEPT ![u] = Employee(AdminForm(f))] /\ UNCHANGED <<user, split>>
    BY <1>3 DEF InsertAdminEmployee
  <2>3. employee'[u] = Employee(Written(t)) /\ \A v \in User \ {u} : employee'[v] = employee[v]
    BY <1>a, <2>1, <2>2 DEF Typed, Written
  <2> QED BY <2>1, <2>2, <2>3, EmployeeAgreeInv DEF Creates
<1>4. CASE UndoAdmin(t)
  <2>1. /\ \A s \in Tab \ {t} : call'[s] = call[s]
        /\ call[t].op = "admin" /\ call[t].pc = "undo"
        /\ call'[t].op = "admin" /\ call'[t].pc = "release" /\ call'[t].on = u
    BY <1>a, <1>4, CallGone DEF UndoAdmin, Pc
  <2>2. UNCHANGED <<employee, split>> /\ \A v \in User \ {u} : user'[v] = user[v]
    BY <1>a, <1>4 DEF UndoAdmin, Typed
  <2> QED BY <2>1, <2>2, AccountAgreeInv DEF Creates
<1> QED BY <1>1, <1>2, <1>3, <1>4 DEF SetupStep

(* Calls on staff and roles. *)
LEMMA StaffStepAgreeInv ==
    ASSUME SetupInv, AgreeInv, NEW t \in Tab, StaffStep(t)
    PROVE  AgreeInv'
<1> USE DEF At
<1> DEFINE u == call[t].on  f == call[t].form
<1>a. Typed
  BY DEF SetupInv
<1>b. /\ call[t].op \in {"create", "update", "deactivate"} => u \in User
      /\ call[t].op \in {"create", "update"} => f \in Form
  BY <1>a DEF Typed
<1>1. CASE \/ InsertUser(t) /\ NameTaken(u, f.name)
           \/ InsertEmployee(t) /\ EmployeeTaken(u, f)
           \/ UpdateUser(t) /\ NameTaken(u, f.name)
           \/ UpdateDocument(t) /\ EmployeeTaken(u, f)
           \/ RemoveRole(t)
  <2>1. /\ UNCHANGED <<user, employee>> /\ split \subseteq split'
        /\ End(t) \/ (call[t].op = "create" /\ Goto(t, "undo"))
        /\ call[t].op \in {"update", "deactivate"} /\ call[t].pc = "employee" => u \in split'
    BY <1>1 DEF InsertUser, InsertEmployee, UpdateUser, UpdateDocument, RemoveRole
  <2>2. /\ \A s \in Tab \ {t} : call'[s] = call[s]
        /\ call'[t].op = "none" \/ (call'[t].op = "create" /\ call'[t].pc = "undo")
    BY <1>a, <2>1, CallEnded, CallGone DEF Pc
  <2> QED BY <2>1, <2>2, UnwrittenAgreeInv
<1>2. CASE InsertUser(t) /\ ~NameTaken(u, f.name)
  <2>1. /\ \A s \in Tab \ {t} : call'[s] = call[s]
        /\ call[t].op = "create" /\ call[t].pc = "user" /\ u \in User
        /\ call'[t].op = "create" /\ call'[t].on = u /\ call'[t].form = f
    BY <1>a, <1>b, <1>2, CallGone DEF InsertUser, Pc
  <2>2. user' = [user EXCEPT ![u] = Account("staff", f)] /\ UNCHANGED <<employee, split>>
    BY <1>2 DEF InsertUser
  <2>3. user'[u] = Account("staff", f) /\ \A v \in User \ {u} : user'[v] = user[v]
    BY <1>a, <2>1, <2>2 DEF Typed
  <2>4. Matches(call[t].on, Written(t))'
    BY <2>1, <2>3 DEF Matches, Written, Account
  <2> QED BY <2>1, <2>2, <2>3, <2>4, AccountAgreeInv DEF Creates
<1>3. CASE InsertEmployee(t) /\ ~EmployeeTaken(u, f)
  <2>1. /\ \A s \in Tab \ {t} : call'[s] = call[s]
        /\ call[t].op = "create" /\ call[t].pc = "employee" /\ u \in User /\ call'[t].op = "none"
    BY <1>a, <1>b, <1>3, CallEnded DEF InsertEmployee
  <2>2. employee' = [employee EXCEPT ![u] = Employee(f)] /\ UNCHANGED <<user, split>>
    BY <1>3 DEF InsertEmployee
  <2>3. employee'[u] = Employee(Written(t)) /\ \A v \in User \ {u} : employee'[v] = employee[v]
    BY <1>a, <2>1, <2>2 DEF Typed, Written
  <2> QED BY <2>1, <2>2, <2>3, EmployeeAgreeInv DEF Creates
<1>4. CASE UndoUser(t)
  <2>1. /\ \A s \in Tab \ {t} : call'[s] = call[s]
        /\ call[t].op = "create" /\ call[t].pc = "undo" /\ call'[t].op = "none"
    BY <1>a, <1>4, CallEnded DEF UndoUser
  <2>2. UNCHANGED <<employee, split>> /\ \A v \in User \ {u} : user'[v] = user[v]
    BY <1>a, <1>4 DEF UndoUser, Typed
  <2> QED BY <2>1, <2>2, AccountAgreeInv DEF Creates
<1>5. CASE UpdateUser(t) /\ ~NameTaken(u, f.name)
  <2>1. /\ \A s \in Tab \ {t} : call'[s] = call[s]
        /\ call[t].op = "update" /\ u \in User
        /\ call'[t].op = "update" /\ call'[t].pc = "employee" /\ call'[t].on = u /\ call'[t].form = f
    BY <1>a, <1>b, <1>5, CallGone DEF UpdateUser, Pc
  <2>2. user' = [user EXCEPT ![u] = Account(user[u].by, f)] /\ UNCHANGED <<employee, split>>
    BY <1>5 DEF UpdateUser
  <2>3. user'[u] = Account(user[u].by, f) /\ \A v \in User \ {u} : user'[v] = user[v] /\ employee'[v] = employee[v]
    BY <1>a, <2>1, <2>2 DEF Typed
  <2>4. Ahead(t, u)'
    BY <2>1, <2>3 DEF Ahead, Matches, Account
  <2> QED BY <2>1, <2>2, <2>3, <2>4, EditAgreeInv DEF Agrees
<1>6. CASE UpdateDocument(t) /\ ~EmployeeTaken(u, f)
  <2>1. /\ \A s \in Tab \ {t} : call'[s] = call[s]
        /\ call[t].op = "update" /\ call[t].pc = "employee" /\ u \in User /\ call'[t].op = "none"
    BY <1>a, <1>b, <1>6, CallEnded DEF UpdateDocument
  <2>2. employee' = [employee EXCEPT ![u] = Employee(f)] /\ UNCHANGED <<user, split>>
    BY <1>6 DEF UpdateDocument
  <2>3. employee'[u] = Employee(f) /\ \A v \in User \ {u} : user'[v] = user[v] /\ employee'[v] = employee[v]
    BY <1>a, <2>1, <2>2 DEF Typed
  <2>4. ASSUME Whole(u)
        PROVE  /\ user'[u].status = AccountStatus(employee'[u].status)
               /\ user'[u].role = employee'[u].role /\ user'[u].name = employee'[u].name
    <3>1. Matches(u, f)
      BY <2>1, <2>4 DEF AgreeInv, Orderly, Edits, Ahead
    <3> QED BY <2>2, <2>3, <3>1 DEF Matches, Employee
  <2> QED BY <2>1, <2>2, <2>3, <2>4, EditAgreeInv DEF Agrees
<1>7. CASE DisableUser(t)
  <2>1. /\ \A s \in Tab \ {t} : call'[s] = call[s]
        /\ call[t].op = "deactivate" /\ call[t].pc = "user" /\ u \in User
        /\ call'[t].op = "deactivate" /\ call'[t].pc = "employee" /\ call'[t].on = u
    BY <1>a, <1>b, <1>7, CallGone DEF DisableUser, Pc
  <2>2. user' = [user EXCEPT ![u].status = "disabled"] /\ UNCHANGED <<employee, split>>
    BY <1>7 DEF DisableUser
  <2>3. /\ user'[u].status = "disabled" /\ user'[u].role = user[u].role /\ user'[u].name = user[u].name
        /\ \A v \in User \ {u} : user'[v] = user[v] /\ employee'[v] = employee[v]
    BY <1>a, <2>1, <2>2 DEF Typed, UserDoc
  <2>4. Whole(u) => user[u].role = employee[u].role /\ user[u].name = employee[u].name
    BY <2>1 DEF AgreeInv, Orderly, Edits, Agrees
  <2> QED BY <2>1, <2>2, <2>3, <2>4, EditAgreeInv DEF Ahead
<1>8. CASE RetireEmployee(t)
  <2>1. /\ \A s \in Tab \ {t} : call'[s] = call[s]
        /\ call[t].op = "deactivate" /\ call[t].pc = "employee" /\ u \in User /\ call'[t].op = "none"
    BY <1>a, <1>b, <1>8, CallEnded DEF RetireEmployee
  <2>2. employee' = [employee EXCEPT ![u].status = "inactive"] /\ UNCHANGED <<user, split>>
    BY <1>8 DEF RetireEmployee
  <2>3. /\ employee'[u].status = "inactive" /\ employee'[u].role = employee[u].role /\ employee'[u].name = employee[u].name
        /\ \A v \in User \ {u} : user'[v] = user[v] /\ employee'[v] = employee[v]
    BY <1>a, <2>1, <2>2 DEF Typed, EmployeeDoc
  <2>4. ASSUME Whole(u)
        PROVE  /\ user'[u].status = AccountStatus(employee'[u].status)
               /\ user'[u].role = employee'[u].role /\ user'[u].name = employee'[u].name
    <3>1. user[u].status = "disabled" /\ user[u].role = employee[u].role /\ user[u].name = employee[u].name
      BY <2>1, <2>4 DEF AgreeInv, Orderly, Edits, Ahead
    <3> QED BY <2>2, <2>3, <3>1 DEF AccountStatus
  <2> QED BY <2>1, <2>2, <2>3, <2>4, EditAgreeInv DEF Agrees
<1> QED BY <1>1, <1>2, <1>3, <1>4, <1>5, <1>6, <1>7, <1>8 DEF StaffStep

-----------------------------------------------------------------------------
(* The other steps write no employee, and accounts only for new ones. *)
LEMMA ClientStepAgreeInv ==
    ASSUME SetupInv, AgreeInv, NEW t \in Tab, ClientStep(t)
    PROVE  AgreeInv'
<1>a. Typed
  BY DEF SetupInv
<1>1. CASE \E u \in User, f \in Form : SignUp(t, u, f.name)
  <2> PICK u \in User, f \in Form : SignUp(t, u, f.name)
    BY <1>1
  <2>1. /\ Fresh(u) /\ UNCHANGED <<employee, call, split>>
        /\ \A v \in User \ {u} : user'[v] = user[v]
    BY <1>a DEF SignUp, Register, Typed
  <2>2. ~Has(u) /\ \A s \in Tab : call[s].on # u
    BY <2>1 DEF Fresh, NoUser, SetupInv, StaffInv
  <2>3. ASSUME NEW v \in User, Whole(v)' PROVE Orderly(v)'
    <3>1. Orderly(v) /\ v # u /\ user'[v] = user[v]
      BY <2>1, <2>2, <2>3 DEF AgreeInv, Whole, Has
    <3> QED BY <2>1, <3>1 DEF Orderly, Edits, Ahead, Matches, Agrees
  <2>4. ASSUME NEW s \in Tab, Creates(s)', call'[s].pc = "employee" PROVE Matches(call[s].on, Written(s))'
    <3>1. Creates(s) /\ call[s].on \in User \ {u}
      BY <1>a, <2>1, <2>2, <2>4 DEF Creates, Typed
    <3> QED BY <2>1, <2>4, <3>1 DEF AgreeInv, Matches, Written
  <2> QED BY <2>3, <2>4 DEF AgreeInv
<1>b. ASSUME NEW op \in {"status", "company", "admin"}, NEW pc \in {"setup", "claim"}, NEW on \in Thing,
             NEW f \in Form \cup {None}, call' = [call EXCEPT ![t] = Call(op, pc, on, f)],
             UNCHANGED <<user, employee, split>>, call[t].op \in {"none", "company"}
      PROVE  AgreeInv'
  <2>1. op \in Op /\ pc \in Pc
    BY DEF Op, Pc
  <2>2. (\A s \in Tab \ {t} : call'[s] = call[s]) /\ call'[t].op = op /\ call'[t].pc = pc
    BY <1>a, <1>b, <2>1, CallBegun
  <2> QED BY <1>b, <2>2, UnwrittenAgreeInv
<1>c. User \subseteq Thing /\ "employee" \in Thing /\ None \in Thing /\ None \in Form \cup {None}
  BY DEF Thing
<1>2. ASSUME NEW p \in {"start", "login"}, Open(t, p) PROVE AgreeInv'
  <2>1. /\ call[t].op = "none" /\ call' = [call EXCEPT ![t] = Call("status", "setup", None, None)]
        /\ UNCHANGED <<user, employee, split>>
    BY <1>2 DEF Open, Idle, NoCall
  <2> QED BY <1>b, <1>c, <2>1
<1>3. CASE StatusAnswered(t) \/ StatusFailed(t) \/ EmployeeCreated(t) \/ AnswerLost(t)
  <2>1. /\ End(t) /\ UNCHANGED <<user, employee, split>>
        /\ ~(call[t].op \in {"update", "deactivate"} /\ call[t].pc = "employee")
    BY <1>3 DEF StatusAnswered, StatusFailed, EmployeeCreated, AnswerLost, At
  <2> QED BY <1>a, <2>1, CallEnded, UnwrittenAgreeInv
<1>4. CASE SubmitCompany(t)
  <2>1. /\ call[t].op = "none" /\ call' = [call EXCEPT ![t] = Call("company", "claim", None, None)]
        /\ UNCHANGED <<user, employee, split>>
    BY <1>4 DEF SubmitCompany, Idle, NoCall
  <2> QED BY <1>b, <1>c, <2>1
<1>5. CASE CompanyCreated(t)
  BY <1>5, <1>b, <1>c DEF CompanyCreated, At
<1>6. ASSUME NEW u \in User, NEW f \in Form, SubmitEmployee(t, u, f) PROVE AgreeInv'
  <2>1. /\ call[t].op = "none" /\ call' = [call EXCEPT ![t] = Call("admin", "claim", u, f)]
        /\ UNCHANGED <<user, employee, split>>
    BY <1>6 DEF SubmitEmployee, Idle, NoCall
  <2> QED BY <1>b, <1>c, <2>1
<1>7. CASE SignOut(t) \/ \E u \in User : SignIn(t, u)
  BY <1>7 DEF SignOut, SignIn, AgreeInv, Whole, Has, Orderly, Edits, Ahead, Agrees, Matches, Creates, Written
<1> QED BY <1>1, <1>2, <1>3, <1>4, <1>5, <1>6, <1>7 DEF ClientStep

(* What is begun on the pages, and the steps of facilities. *)
LEMMA PageAgreeInv ==
    ASSUME SetupInv, AgreeInv, NEW t \in Tab, EmployeesPage(t) \/ RolesPage(t) \/ CompanyPage(t) \/ FacilityStep(t)
    PROVE  AgreeInv'
<1>a. Typed
  BY DEF SetupInv
<1>b. ASSUME NEW op \in Op, NEW pc \in Pc, NEW on \in Thing, NEW f \in Form \cup {None}, Idle(t),
             call' = [call EXCEPT ![t] = Call(op, pc, on, f)], UNCHANGED <<user, employee>>, split \subseteq split',
             pc # "employee",
             op \in {"update", "deactivate"} => employee[on].status # "inactive" /\ (on \in Handled(t) => on \in split')
      PROVE  AgreeInv'
  <2>1. (\A s \in Tab \ {t} : call'[s] = call[s]) /\ call'[t].op = op /\ call'[t].pc = pc /\ call'[t].on = on
    BY <1>a, <1>b, CallBegun
  <2> QED BY <1>b, <2>1, UnwrittenAgreeInv DEF Idle, NoCall, Handled
<1>c. ASSUME UNCHANGED <<user, employee, call>>, split \subseteq split' PROVE AgreeInv'
  BY <1>c DEF AgreeInv, Whole, Has, Orderly, Edits, Ahead, Agrees, Matches, Creates, Written
<1>d. /\ {"create", "update", "deactivate", "delete_role", "close_branch", "create_location"} \subseteq Op
      /\ {"user", "role", "sweep", "insert"} \subseteq Pc
      /\ User \subseteq Thing /\ Role \subseteq Thing /\ Branch \subseteq Thing /\ Location \subseteq Thing
      /\ None \in Form \cup {None} /\ Form \subseteq Form \cup {None}
  BY DEF Op, Pc, Thing
<1>1. ASSUME NEW u \in User, NEW f \in Form, CreateEmployee(t, u, f) PROVE AgreeInv'
  BY <1>1, <1>b, <1>d DEF CreateEmployee, Begin
<1>2. ASSUME NEW u \in User, NEW f \in Form, UpdateEmployee(t, u, f) PROVE AgreeInv'
  <2>1. Idle(t) /\ call' = [call EXCEPT ![t] = Call("update", "user", u, f)] /\ UNCHANGED <<user, employee>>
    BY <1>2 DEF UpdateEmployee, Begin
  <2>2. employee[u].status # "inactive" /\ split \subseteq split' /\ (u \in Handled(t) => u \in split')
    BY <1>2 DEF UpdateEmployee, Find
  <2> QED BY <1>b, <1>d, <2>1, <2>2
<1>3. ASSUME NEW u \in User, DeactivateEmployee(t, u) PROVE AgreeInv'
  <2>1. Idle(t) /\ call' = [call EXCEPT ![t] = Call("deactivate", "user", u, None)] /\ UNCHANGED <<user, employee>>
    BY <1>3 DEF DeactivateEmployee, Begin
  <2>2. employee[u].status # "inactive" /\ split \subseteq split' /\ (u \in Handled(t) => u \in split')
    BY <1>3 DEF DeactivateEmployee, Find
  <2> QED BY <1>b, <1>d, <2>1, <2>2
<1>4. ASSUME NEW r \in Role, DeleteRole(t, r) PROVE AgreeInv'
  BY <1>4, <1>b, <1>d DEF DeleteRole, Begin
<1>5. ASSUME NEW r \in Role, NEW p \in Grantable, CreateRole(t, r, p) \/ UpdateRole(t, r, p) PROVE AgreeInv'
  BY <1>5, <1>c DEF CreateRole, UpdateRole
<1>6. ASSUME NEW x \in Branch, CreateBranch(t, x) PROVE AgreeInv'
  BY <1>6, <1>c DEF CreateBranch, directoryVars
<1>7. ASSUME NEW x \in Branch, CloseBranch(t, x) PROVE AgreeInv'
  BY <1>7, <1>b, <1>d DEF CloseBranch
<1>8. ASSUME NEW l \in Location, CreateLocation(t, l) PROVE AgreeInv'
  BY <1>8, <1>b, <1>d DEF CreateLocation
<1>9. ASSUME NEW l \in Location, CloseLocation(t, l) PROVE AgreeInv'
  BY <1>9, <1>c DEF CloseLocation, directoryVars
<1>10. CASE FacilityStep(t)
  <2>1. /\ UNCHANGED <<user, employee, split>> /\ End(t)
        /\ call[t].op \in {"close_branch", "create_location"}
    BY <1>10 DEF FacilityStep, SweepLocations, InsertLocation, At
  <2> QED BY <1>a, <2>1, CallEnded, UnwrittenAgreeInv
<1>11. CASE EmployeesPage(t)
  BY <1>1, <1>2, <1>3, <1>11 DEF EmployeesPage, EmployeeFormDialog
<1>12. CASE RolesPage(t)
  BY <1>4, <1>5, <1>12 DEF RolesPage, RoleFormDialog
<1>13. CASE CompanyPage(t)
  BY <1>6, <1>7, <1>8, <1>9, <1>13 DEF CompanyPage, BranchManager, LocationManager
<1> QED BY <1>10, <1>11, <1>12, <1>13

(* Every step preserves the invariant. *)
LEMMA NextAgreeInv == SetupInv /\ AgreeInv /\ [Next]_vars => AgreeInv'
<1> SUFFICES ASSUME SetupInv, AgreeInv, [Next]_vars PROVE AgreeInv'
  OBVIOUS
<1>1. ASSUME NEW t \in Tab, Stopped(t) PROVE AgreeInv'
  <2>1. /\ End(t) /\ UNCHANGED <<user, employee>> /\ split \subseteq split'
        /\ call[t].pc = "employee" => call[t].on \in split'
    BY <1>1 DEF Stopped
  <2> QED BY <2>1, CallEnded, UnwrittenAgreeInv DEF SetupInv
<1>2. CASE UNCHANGED vars
  BY <1>2 DEF vars, directoryVars, AgreeInv, Whole, Has, Orderly, Edits, Ahead, Agrees, Matches, Creates, Written
<1> QED BY <1>1, <1>2, SetupStepAgreeInv, ClientStepAgreeInv, PageAgreeInv, StaffStepAgreeInv DEF Next

-----------------------------------------------------------------------------
(* The invariant holds in every reachable state. *)
LEMMA SpecAgreeInv == Spec => []AgreeInv
BY InitAgreeInv, NextAgreeInv, SpecSetupInv, PTL DEF Spec

(* Who may log in, in which role and by which name is what the employee    *)
(* says, once the calls on it have ended, unless they overlapped, stopped  *)
(* or were refused between their two writes.                               *)
THEOREM ThmAccountFollowsEmployee == Spec => []AccountFollowsEmployee
<1>1. AgreeInv => AccountFollowsEmployee
  BY DEF AgreeInv, Whole, Has, Orderly, Edits, Agrees, Quiet, AccountFollowsEmployee
<1> QED BY <1>1, SpecAgreeInv, PTL

-----------------------------------------------------------------------------
(* Only who edits an employee that exists writes it, or its account. *)
LEMMA StepWrites ==
    ASSUME SetupInv, [Next]_vars, NEW u \in User, Has(u), \A t \in Tab : ~Edits(t, u)
    PROVE  user'[u] = user[u] /\ employee'[u] = employee[u]
<1>a. user \in [User -> UserDoc] /\ employee \in [User -> EmployeeDoc]
  BY DEF SetupInv, Typed
<1>b. ASSUME NEW t \in Tab, Creates(t), call[t].pc \in {"user", "employee", "undo"} PROVE call[t].on # u
  BY <1>b DEF SetupInv, StaffInv
<1>1. ASSUME NEW t \in Tab, SetupStep(t) PROVE user'[u] = user[u] /\ employee'[u] = employee[u]
  <2>1. CASE InsertAdmin(t) \/ InsertAdminEmployee(t) \/ UndoAdmin(t)
    <3>1. call[t].on # u
      BY <1>b, <2>1 DEF InsertAdmin, InsertAdminEmployee, UndoAdmin, At, Creates
    <3> QED BY <1>a, <2>1, <3>1 DEF InsertAdmin, InsertAdminEmployee, UndoAdmin
  <2>2. CASE ~(InsertAdmin(t) \/ InsertAdminEmployee(t) \/ UndoAdmin(t))
    BY <1>1, <2>2 DEF SetupStep, ReadSetup, ClaimSetup, InsertCompany, InsertCompanyFails, ReleaseSetup, AwardToken,
                      ClaimAdmin, CheckUsers, AdminFails, ReleaseAdmin, FinishSetup
  <2> QED BY <2>1, <2>2
<1>2. ASSUME NEW t \in Tab, ClientStep(t) PROVE user'[u] = user[u] /\ employee'[u] = employee[u]
  <2>1. ASSUME NEW v \in User, NEW f \in Form, SignUp(t, v, f.name) PROVE user'[u] = user[u] /\ UNCHANGED employee
    <3>1. v # u
      BY <2>1 DEF SignUp, Register, Fresh, NoUser, SetupInv, StaffInv
    <3> QED BY <1>a, <2>1, <3>1 DEF SignUp, Register
  <2>2. CASE ~\E v \in User, f \in Form : SignUp(t, v, f.name)
    BY <1>2, <2>2 DEF ClientStep, Open, StatusAnswered, StatusFailed, SubmitCompany, CompanyCreated, EmployeeCreated,
                      AnswerLost, SignIn, SubmitEmployee, SignOut
  <2> QED BY <2>1, <2>2
<1>3. ASSUME NEW t \in Tab, EmployeesPage(t) \/ RolesPage(t) \/ CompanyPage(t) \/ FacilityStep(t)
      PROVE  user'[u] = user[u] /\ employee'[u] = employee[u]
  BY <1>3 DEF EmployeesPage, EmployeeFormDialog, CreateEmployee, UpdateEmployee, DeactivateEmployee, Begin,
              RolesPage, RoleFormDialog, CreateRole, UpdateRole, DeleteRole,
              CompanyPage, BranchManager, LocationManager, CreateBranch, CloseBranch, CreateLocation, CloseLocation,
              FacilityStep, SweepLocations, InsertLocation, directoryVars
<1>4. ASSUME NEW t \in Tab, StaffStep(t) PROVE user'[u] = user[u] /\ employee'[u] = employee[u]
  <2>1. CASE RemoveRole(t)
    BY <2>1 DEF RemoveRole
  <2>2. CASE InsertUser(t) \/ InsertEmployee(t) \/ UndoUser(t)
    <3>1. call[t].on # u
      BY <1>b, <2>2 DEF InsertUser, InsertEmployee, UndoUser, At, Creates
    <3> QED BY <1>a, <2>2, <3>1 DEF InsertUser, InsertEmployee, UndoUser
  <2>3. CASE UpdateUser(t) \/ UpdateDocument(t) \/ DisableUser(t) \/ RetireEmployee(t)
    <3>1. call[t].on # u
      BY <2>3 DEF UpdateUser, UpdateDocument, DisableUser, RetireEmployee, At, Edits
    <3> QED BY <1>a, <2>3, <3>1 DEF UpdateUser, UpdateDocument, DisableUser, RetireEmployee
  <2> QED BY <1>4, <2>1, <2>2, <2>3 DEF StaffStep
<1>5. ASSUME NEW t \in Tab, Stopped(t) PROVE user'[u] = user[u] /\ employee'[u] = employee[u]
  BY <1>5 DEF Stopped
<1>6. CASE UNCHANGED vars
  BY <1>6 DEF vars, directoryVars
<1> QED BY <1>1, <1>2, <1>3, <1>4, <1>5, <1>6 DEF Next

(* Unless calls on the employee overlapped or one was cut short, an        *)
(* employee who left is not changed again and the account stays disabled,  *)
(* whatever calls on other documents do meanwhile; and with no call on the *)
(* employee under way, neither document changes in any case.               *)
THEOREM ThmLeftForGood == Spec => LeftForGood
<1> DEFINE Left(u) == employee[u].status = "inactive"
           Stays(u) ==
               /\ u \notin split => employee'[u] = employee[u] /\ user'[u].status = "disabled"
               /\ Quiet(u) => employee'[u] = employee[u] /\ user'[u] = user[u]
<1>1. SetupInv /\ AgreeInv /\ [Next]_vars => [\A u \in User : Left(u) => Stays(u)]_vars
  <2> SUFFICES ASSUME SetupInv, AgreeInv, [Next]_vars, NEW u \in User, Left(u) PROVE Stays(u)
    OBVIOUS
  <2>1. Has(u)
    BY DEF Has, NoEmployee
  <2>2. ASSUME u \notin split PROVE (\A t \in Tab : ~Edits(t, u)) /\ Agrees(u)
    BY <2>1, <2>2 DEF AgreeInv, Orderly, Whole
  <2>3. Quiet(u) => \A t \in Tab : ~Edits(t, u)
    BY DEF Quiet, Edits
  <2>4. (\A t \in Tab : ~Edits(t, u)) => user'[u] = user[u] /\ employee'[u] = employee[u]
    BY <2>1, StepWrites
  <2> QED BY <2>2, <2>3, <2>4 DEF Agrees, AccountStatus
<1>2. Spec => [][\A u \in User : Left(u) => Stays(u)]_vars
  BY <1>1, SpecSetupInv, SpecAgreeInv, PTL DEF Spec
<1> QED BY <1>2 DEF LeftForGood

-----------------------------------------------------------------------------
RoleDoc == [status : {"none", "active", "inactive"}, permissions : Grantable \cup {{}}]

(* A call is about to give somebody the role. *)
Gives(t, r) == call[t].op \in {"create", "update"} /\ call[t].pc = "user" /\ call[t].form.role = r

InUse(r) == \E u \in User : user[u].status = "active" /\ user[u].role = r

(* What is in use, or about to be, is active; what is about to be deleted  *)
(* is neither, unless that was decided while the other was under way.  The *)
(* system's template stays.                                                *)
RoleInv ==
    /\ role \in [Role -> RoleDoc]
    /\ role[System].status = "active"
    /\ \A u \in User : user[u].status = "active" => user[u].role \in Role
    /\ \A r \in Role \ split : InUse(r) => role[r].status = "active"
    /\ \A t \in Tab, r \in Role \ split : Gives(t, r) => role[r].status = "active"
    /\ \A t \in Tab : At(t, "delete_role", "role") /\ call[t].on \notin split \cup {System} =>
        ~InUse(call[t].on) /\ \A s \in Tab : ~Gives(s, call[t].on)

(* The system's template is the only role initially. *)
LEMMA InitRoleInv == Init => RoleInv
<1> SUFFICES ASSUME Init PROVE RoleInv
  OBVIOUS
<1>1. /\ user = [u \in User |-> NoUser] /\ call = [t \in Tab |-> NoCall]
      /\ \E p \in Grantable : role = [[r \in Role |-> NoRole] EXCEPT ![System] = [status |-> "active", permissions |-> p]]
  BY DEF Init, DirectoryInit
<1>2. role \in [Role -> RoleDoc] /\ role[System].status = "active"
  BY <1>1, DirectoryAssumption DEF RoleDoc, NoRole
<1> QED BY <1>1, <1>2 DEF RoleInv, InUse, Gives, At, NoUser, NoCall

(* A step of one tab that leaves the roles alone. *)
LEMMA StepRoleInv ==
    ASSUME RoleInv, Typed', NEW t \in Tab, UNCHANGED role, split \subseteq split',
           \A s \in Tab \ {t} : call'[s] = call[s],
           \A r \in Role : InUse(r)' => InUse(r) \/ r = System \/ Gives(t, r),
           \A r \in Role : Gives(t, r)' => role[r].status = "active" /\ (r \in Handled(t) => r \in split'),
           At(t, "delete_role", "role")' =>
               call'[t].on \in split' \/ (~InUse(call[t].on)' /\ \A s \in Tab : ~Gives(s, call[t].on)'),
           \A u \in User : user'[u].status = "active" => user'[u].role \in Role
    PROVE  RoleInv'
<1>1. ASSUME NEW r \in Role \ split', InUse(r)' PROVE role'[r].status = "active"
  BY <1>1 DEF RoleInv
<1>2. ASSUME NEW s \in Tab, NEW r \in Role \ split', Gives(s, r)' PROVE role'[r].status = "active"
  BY <1>2 DEF RoleInv, Gives
<1>3. ASSUME NEW s \in Tab \ {t}, At(s, "delete_role", "role")', call'[s].on \notin split' \cup {System}
      PROVE  ~InUse(call[s].on)' /\ \A q \in Tab : ~Gives(q, call[s].on)'
  <2> DEFINE r == call[s].on
  <2>1. call'[s] = call[s] /\ r \notin split' /\ r \notin split /\ r # System
    BY <1>3
  <2>2. ~InUse(r) /\ \A q \in Tab : ~Gives(q, r)
    BY <1>3, <2>1 DEF RoleInv, At
  <2>3. ~InUse(r)'
    <3>1. r \in Role => ~InUse(r)'
      BY <2>1, <2>2 DEF InUse
    <3>2. InUse(r)' => r \in Role
      BY <2>1 DEF InUse
    <3> QED BY <3>1, <3>2
  <2>4. ASSUME NEW q \in Tab, Gives(q, r)' PROVE FALSE
    <3>1. r \in Role
      BY <2>1, <2>4, DirectoryAssumption DEF Gives, Typed
    <3>2. q = t
      BY <2>1, <2>2, <2>4 DEF Gives
    <3>3. r \in Handled(t)
      BY <1>3 DEF Handled
    <3> QED BY <2>1, <2>4, <3>1, <3>2, <3>3 DEF Gives
  <2> QED BY <2>1, <2>3, <2>4
<1> QED BY <1>1, <1>2, <1>3 DEF RoleInv, At

(* A step of one tab that changes neither roles nor accounts, and begins   *)
(* nothing about roles.                                                    *)
LEMMA AsideRoleInv ==
    ASSUME RoleInv, Typed, Typed', NEW t \in Tab, UNCHANGED <<role, user>>, split \subseteq split',
           \A s \in Tab \ {t} : call'[s] = call[s],
           call'[t].op # "delete_role",
           call'[t].op \in {"create", "update"} => call'[t].pc # "user"
    PROVE  RoleInv'
<1>1. \A r \in Role : InUse(r)' => InUse(r)
  BY DEF InUse
<1>2. (\A r : ~Gives(t, r)') /\ ~At(t, "delete_role", "role")'
  BY DEF Gives, At
<1>3. \A u \in User : user'[u].status = "active" => user'[u].role \in Role
  BY DEF RoleInv
<1> QED BY <1>1, <1>2, <1>3, StepRoleInv

(* Accounts are written. *)
LEMMA AccountRoleInv ==
    ASSUME RoleInv, Typed, Typed', NEW t \in Tab,
           \/ InsertAdmin(t) /\ ~NameTaken(call[t].on, call[t].form.name)
           \/ UndoAdmin(t)
           \/ InsertUser(t) /\ ~NameTaken(call[t].on, call[t].form.name)
           \/ UndoUser(t)
           \/ UpdateUser(t) /\ ~NameTaken(call[t].on, call[t].form.name)
           \/ DisableUser(t)
    PROVE  RoleInv'
<1> USE DEF At
<1> DEFINE u == call[t].on  f == call[t].form
<1>1. UNCHANGED <<role, split>>
  BY DEF InsertAdmin, UndoAdmin, InsertUser, UndoUser, UpdateUser, DisableUser
<1>2. /\ \A s \in Tab \ {t} : call'[s] = call[s]
      /\ call'[t].op # "delete_role"
      /\ call'[t].op \in {"create", "update"} => call'[t].pc # "user"
  <2>1. call[t].op # "delete_role" /\ (End(t) \/ \E pc \in {"employee", "release"} : Goto(t, pc))
    BY DEF InsertAdmin, UndoAdmin, InsertUser, UndoUser, UpdateUser, DisableUser
  <2> QED BY <2>1, CallEnded, CallGone DEF Pc
<1>3. u \in User /\ (call[t].op \in {"admin", "create", "update"} => f \in Form)
  BY DEF InsertAdmin, UndoAdmin, InsertUser, UndoUser, UpdateUser, DisableUser, Typed
<1>4. \A v \in User \ {u} : user'[v] = user[v]
  BY DEF InsertAdmin, UndoAdmin, InsertUser, UndoUser, UpdateUser, DisableUser, Typed
<1>5. \/ user'[u].status # "active"
      \/ user'[u].role = System
      \/ user'[u].role = f.role /\ Gives(t, f.role)
  <2>1. CASE InsertAdmin(t) /\ ~NameTaken(u, f.name)
    <3>1. user'[u] = Account("setup", AdminForm(f))
      BY <1>3, <2>1 DEF InsertAdmin, Typed
    <3>2. AdminForm(f).role = System
      BY <1>3, <2>1, DirectoryAssumption DEF InsertAdmin, AdminForm
    <3> QED BY <3>1, <3>2 DEF Account
  <2>2. CASE UndoAdmin(t) \/ UndoUser(t)
    BY <1>3, <2>2 DEF UndoAdmin, UndoUser, NoUser, Typed
  <2>3. CASE (InsertUser(t) \/ UpdateUser(t)) /\ ~NameTaken(u, f.name)
    <3>1. user'[u].role = f.role
      BY <1>3, <2>3 DEF InsertUser, UpdateUser, Account, Typed
    <3> QED BY <2>3, <3>1 DEF InsertUser, UpdateUser, Gives
  <2>4. CASE DisableUser(t)
    BY <1>3, <2>4 DEF DisableUser, Typed, UserDoc
  <2> QED BY <2>1, <2>2, <2>3, <2>4
<1>6. \A r \in Role : InUse(r)' => InUse(r) \/ r = System \/ Gives(t, r)
  BY <1>3, <1>4, <1>5 DEF InUse
<1>7. \A v \in User : user'[v].status = "active" => user'[v].role \in Role
  <2>1. Gives(t, f.role) => f.role \in Role
    BY <1>3, DirectoryAssumption DEF Gives
  <2> QED BY <1>3, <1>4, <1>5, <2>1, DirectoryAssumption DEF RoleInv
<1>8. (\A r : ~Gives(t, r)') /\ ~At(t, "delete_role", "role")'
  BY <1>2 DEF Gives
<1> QED BY <1>1, <1>2, <1>6, <1>7, <1>8, StepRoleInv

(* Roles are given, and deleted. *)
LEMMA RolesRoleInv ==
    ASSUME RoleInv, Typed, Typed', NEW t \in Tab,
           \/ \E u \in User, f \in Form : CreateEmployee(t, u, f) \/ UpdateEmployee(t, u, f)
           \/ \E r \in Role : DeleteRole(t, r)
           \/ \E r \in Role, p \in Grantable : CreateRole(t, r, p) \/ UpdateRole(t, r, p)
           \/ RemoveRole(t)
    PROVE  RoleInv'
<1>a. UNCHANGED user => \A u \in User : user'[u].status = "active" => user'[u].role \in Role
  BY DEF RoleInv
<1>b. UNCHANGED user => \A r \in Role : InUse(r)' => InUse(r)
  BY DEF InUse
<1>1. ASSUME NEW u \in User, NEW f \in Form, CreateEmployee(t, u, f) \/ UpdateEmployee(t, u, f) PROVE RoleInv'
  <2>1. \E op \in {"create", "update"} : call' = [call EXCEPT ![t] = Call(op, "user", u, f)]
    BY <1>1 DEF CreateEmployee, UpdateEmployee, Begin
  <2>2. /\ \A s \in Tab \ {t} : call'[s] = call[s]
        /\ call'[t].op \in {"create", "update"} /\ call'[t].form = f
    <3>1. PICK op \in {"create", "update"} : call' = [call EXCEPT ![t] = Call(op, "user", u, f)]
      BY <2>1
    <3>2. call'[t] = Call(op, "user", u, f) /\ \A s \in Tab \ {t} : call'[s] = call[s]
      BY <3>1 DEF Typed
    <3> QED BY <3>1, <3>2 DEF Call
  <2>3. /\ UNCHANGED <<user, role>> /\ split \subseteq split'
        /\ role[f.role].status = "active" /\ (f.role \in Handled(t) => f.role \in split')
    BY <1>1 DEF CreateEmployee, UpdateEmployee, Begin
  <2>4. \A r \in Role : Gives(t, r)' => r = f.role
    BY <2>2 DEF Gives
  <2>5. ~At(t, "delete_role", "role")'
    BY <2>2 DEF At
  <2> QED BY <1>a, <1>b, <2>2, <2>3, <2>4, <2>5, StepRoleInv
<1>2. ASSUME NEW r \in Role, DeleteRole(t, r) PROVE RoleInv'
  <2>1. /\ call' = [call EXCEPT ![t] = Call("delete_role", "role", r, None)] /\ UNCHANGED <<user, role>>
        /\ split \subseteq split' /\ (r \in Assigned(t) => r \in split') /\ Unassigned(r)
    BY <1>2 DEF DeleteRole, Begin
  <2>2. /\ \A s \in Tab \ {t} : call'[s] = call[s]
        /\ call'[t].op = "delete_role" /\ call'[t].on = r
    <3>1. call' = [call EXCEPT ![t] = Call("delete_role", "role", r, None)]
      BY <2>1
    <3> QED BY <3>1 DEF Typed, Call
  <2>3. \A q : ~Gives(t, q)'
    BY <2>2 DEF Gives
  <2>4. ~InUse(r)'
    BY <2>1 DEF InUse, Unassigned
  <2>5. ASSUME NEW s \in Tab, Gives(s, r)' PROVE r \in split'
    <3>1. s # t /\ call'[s] = call[s]
      BY <2>2, <2>3, <2>5
    <3>2. call[s].form \in Form /\ call[s].form.role = r
      BY <2>5, <3>1 DEF Gives, Typed
    <3>3. r \in Assigned(t)
      BY <3>1, <3>2, DirectoryAssumption DEF Assigned
    <3> QED BY <2>1, <3>3
  <2>6. ~InUse(call[t].on)'
    BY <2>2, <2>4 DEF InUse
  <2>7. call'[t].on \in split' \/ \A s \in Tab : ~Gives(s, call[t].on)'
    BY <2>2, <2>5 DEF Gives
  <2> QED BY <1>a, <1>b, <2>1, <2>2, <2>3, <2>6, <2>7, StepRoleInv
<1>3. ASSUME NEW r \in Role, NEW p \in Grantable, CreateRole(t, r, p) \/ UpdateRole(t, r, p) PROVE RoleInv'
  <2>1. UNCHANGED <<user, call, split>>
    BY <1>3 DEF CreateRole, UpdateRole
  <2>2. /\ role' \in [Role -> RoleDoc] /\ role'[r].status = "active"
        /\ \A q \in Role \ {r} : role'[q] = role[q]
    BY <1>3 DEF CreateRole, UpdateRole, RoleInv, RoleDoc
  <2> QED BY <2>1, <2>2, DirectoryAssumption DEF RoleInv, InUse, Gives, At
<1>4. CASE RemoveRole(t)
  <2>1. /\ \A s \in Tab \ {t} : call'[s] = call[s]
        /\ call'[t].op = "none" /\ UNCHANGED <<user, split>> /\ At(t, "delete_role", "role")
    BY <1>4, CallEnded DEF RemoveRole
  <2> DEFINE r == call[t].on
  <2>2. /\ role' \in [Role -> RoleDoc] /\ role'[System] = role[System]
        /\ \A q \in Role \ {r} : role'[q] = role[q]
    BY <1>4, DirectoryAssumption DEF RemoveRole, RoleInv, RoleDoc
  <2>3. r \notin split \cup {System} => ~InUse(r) /\ \A s \in Tab : ~Gives(s, r)
    BY <2>1 DEF RoleInv
  <2>4. \A q \in Role \ split : InUse(q)' => role'[q].status = "active"
    BY <2>1, <2>2, <2>3 DEF RoleInv, InUse
  <2>5. \A s \in Tab : \A q : Gives(s, q)' => Gives(s, q)
    BY <2>1 DEF Gives
  <2>6. \A s \in Tab, q \in Role \ split : Gives(s, q)' => role'[q].status = "active"
    BY <2>2, <2>3, <2>5 DEF RoleInv
  <2>7. \A s \in Tab : At(s, "delete_role", "role")' /\ call'[s].on \notin split' \cup {System} =>
            ~InUse(call[s].on)' /\ \A q \in Tab : ~Gives(q, call[s].on)'
    BY <2>1, <2>5 DEF RoleInv, At, InUse
  <2> QED BY <2>1, <2>2, <2>4, <2>6, <2>7 DEF RoleInv
<1> QED BY <1>1, <1>2, <1>3, <1>4

(* Every step preserves the invariant. *)
LEMMA NextRoleInv == SetupInv /\ SetupInv' /\ RoleInv /\ [Next]_vars => RoleInv'
<1> SUFFICES ASSUME SetupInv, SetupInv', RoleInv, [Next]_vars PROVE RoleInv'
  OBVIOUS
<1>a. Typed /\ Typed'
  BY DEF SetupInv
<1>b. ASSUME UNCHANGED <<user, role, call>>, split \subseteq split' PROVE RoleInv'
  BY <1>b DEF RoleInv, InUse, Gives, At
<1>c. ASSUME NEW t \in Tab, UNCHANGED <<user, role>>, split \subseteq split',
             End(t) \/ \E pc \in Pc \ {"user"} : Goto(t, pc) /\ call[t].op # "delete_role"
      PROVE  RoleInv'
  BY <1>a, <1>c, CallEnded, CallGone, AsideRoleInv
<1>d. ASSUME NEW t \in Tab, NEW op \in Op \ {"create", "update", "delete_role"}, NEW pc \in Pc, NEW on \in Thing,
             NEW f \in Form \cup {None}, call' = [call EXCEPT ![t] = Call(op, pc, on, f)],
             UNCHANGED <<user, role>>, split \subseteq split'
      PROVE  RoleInv'
  <2>1. op \in Op
    BY <1>d
  <2>2. /\ \A s \in Tab \ {t} : call'[s] = call[s]
        /\ call'[t].op = op
    BY <1>a, <1>d, <2>1 DEF Typed, Call
  <2> QED BY <1>a, <1>d, <2>2, AsideRoleInv
<1>e. /\ {"status", "company", "admin", "deactivate", "close_branch", "create_location"}
             \subseteq Op \ {"create", "update", "delete_role"}
      /\ {"setup", "claim", "user", "sweep", "insert"} \subseteq Pc
      /\ User \subseteq Thing /\ Branch \subseteq Thing /\ Location \subseteq Thing
      /\ "employee" \in Thing /\ None \in Thing /\ None \in Form \cup {None} /\ Form \subseteq Form \cup {None}
  BY DEF Op, Pc, Thing
<1>1. ASSUME NEW t \in Tab, SetupStep(t) PROVE RoleInv'
  <2>1. CASE (InsertAdmin(t) /\ ~NameTaken(call[t].on, call[t].form.name)) \/ UndoAdmin(t)
    BY <1>a, <2>1, AccountRoleInv
  <2>2. CASE CheckUsers(t)
    <3>1. /\ UNCHANGED <<user, role, split>> /\ call[t].op = "admin"
          /\ \E pc \in Pc : Goto(t, pc)
      BY <2>2 DEF CheckUsers, Pc, At
    <3> QED BY <1>a, <3>1, CallGone, AsideRoleInv
  <2>3. CASE ~(InsertAdmin(t) /\ ~NameTaken(call[t].on, call[t].form.name)) /\ ~UndoAdmin(t) /\ ~CheckUsers(t)
    <3>1. /\ UNCHANGED <<user, role, split>>
          /\ End(t) \/ \E pc \in Pc \ {"user"} : Goto(t, pc) /\ call[t].op # "delete_role"
      BY <1>1, <2>3 DEF SetupStep, ReadSetup, ClaimSetup, InsertCompany, InsertCompanyFails, ReleaseSetup, AwardToken,
                        ClaimAdmin, InsertAdmin, InsertAdminEmployee, AdminFails, ReleaseAdmin, FinishSetup, At, Pc
    <3> QED BY <1>c, <3>1
  <2> QED BY <2>1, <2>2, <2>3
<1>2. ASSUME NEW t \in Tab, ClientStep(t) PROVE RoleInv'
  <2>1. ASSUME NEW u \in User, NEW f \in Form, SignUp(t, u, f.name) PROVE RoleInv'
    <3>1. /\ UNCHANGED <<role, call, split>> /\ \A v \in User \ {u} : user'[v] = user[v]
          /\ user'[u].role = System
      BY <1>a, <2>1 DEF SignUp, Register, Typed
    <3>2. \A r \in Role : InUse(r)' => InUse(r) \/ r = System
      BY <3>1 DEF InUse
    <3>3. \A r : InUse(r)' /\ r # System => InUse(r)
      BY <3>1 DEF InUse
    <3> QED BY <3>1, <3>2, <3>3, DirectoryAssumption DEF RoleInv, Gives, At
  <2>2. ASSUME NEW p \in {"start", "login"}, Open(t, p) PROVE RoleInv'
    BY <1>d, <1>e, <2>2 DEF Open
  <2>3. CASE StatusAnswered(t) \/ StatusFailed(t) \/ EmployeeCreated(t) \/ AnswerLost(t)
    BY <1>c, <2>3 DEF StatusAnswered, StatusFailed, EmployeeCreated, AnswerLost
  <2>4. CASE SubmitCompany(t)
    BY <1>d, <1>e, <2>4 DEF SubmitCompany
  <2>5. CASE CompanyCreated(t)
    BY <1>d, <1>e, <2>5 DEF CompanyCreated
  <2>6. ASSUME NEW u \in User, NEW f \in Form, SubmitEmployee(t, u, f) PROVE RoleInv'
    BY <1>d, <1>e, <2>6 DEF SubmitEmployee
  <2>7. CASE SignOut(t) \/ \E u \in User : SignIn(t, u)
    BY <1>b, <2>7 DEF SignOut, SignIn
  <2> QED BY <1>2, <2>1, <2>2, <2>3, <2>4, <2>5, <2>6, <2>7 DEF ClientStep
<1>3. ASSUME NEW t \in Tab, EmployeesPage(t) PROVE RoleInv'
  <2>1. ASSUME NEW u \in User, DeactivateEmployee(t, u) PROVE RoleInv'
    BY <1>d, <1>e, <2>1 DEF DeactivateEmployee, Begin
  <2> QED BY <1>a, <1>3, <2>1, RolesRoleInv DEF EmployeesPage, EmployeeFormDialog
<1>4. ASSUME NEW t \in Tab, RolesPage(t) PROVE RoleInv'
  BY <1>a, <1>4, RolesRoleInv DEF RolesPage, RoleFormDialog
<1>5. ASSUME NEW t \in Tab, CompanyPage(t) PROVE RoleInv'
  <2>1. ASSUME NEW x \in Branch, CloseBranch(t, x) PROVE RoleInv'
    BY <1>d, <1>e, <2>1 DEF CloseBranch
  <2>2. ASSUME NEW l \in Location, CreateLocation(t, l) PROVE RoleInv'
    BY <1>d, <1>e, <2>2 DEF CreateLocation
  <2>3. ASSUME NEW x \in Branch, CreateBranch(t, x) PROVE RoleInv'
    BY <1>b, <2>3 DEF CreateBranch, directoryVars
  <2>4. ASSUME NEW l \in Location, CloseLocation(t, l) PROVE RoleInv'
    BY <1>b, <2>4 DEF CloseLocation, directoryVars
  <2> QED BY <1>5, <2>1, <2>2, <2>3, <2>4 DEF CompanyPage, BranchManager, LocationManager
<1>6. ASSUME NEW t \in Tab, StaffStep(t) PROVE RoleInv'
  <2>1. CASE \/ InsertUser(t) /\ ~NameTaken(call[t].on, call[t].form.name)
             \/ UndoUser(t)
             \/ UpdateUser(t) /\ ~NameTaken(call[t].on, call[t].form.name)
             \/ DisableUser(t)
    BY <1>a, <2>1, AccountRoleInv
  <2>2. CASE RemoveRole(t)
    BY <1>a, <2>2, RolesRoleInv
  <2>3. CASE \/ InsertUser(t) /\ NameTaken(call[t].on, call[t].form.name)
             \/ UpdateUser(t) /\ NameTaken(call[t].on, call[t].form.name)
             \/ InsertEmployee(t) \/ UpdateDocument(t) \/ RetireEmployee(t)
    <3>1. /\ UNCHANGED <<user, role>> /\ split \subseteq split'
          /\ End(t) \/ (Goto(t, "undo") /\ call[t].op # "delete_role")
      BY <2>3 DEF InsertUser, UpdateUser, InsertEmployee, UpdateDocument, RetireEmployee, At
    <3>2. "undo" \in Pc \ {"user"}
      BY DEF Pc
    <3> QED BY <1>c, <3>1, <3>2
  <2> QED BY <1>6, <2>1, <2>2, <2>3 DEF StaffStep
<1>7. ASSUME NEW t \in Tab, FacilityStep(t) \/ Stopped(t) PROVE RoleInv'
  BY <1>c, <1>7 DEF FacilityStep, SweepLocations, InsertLocation, Stopped
<1>8. CASE UNCHANGED vars
  BY <1>b, <1>8 DEF vars, directoryVars
<1> QED BY <1>1, <1>2, <1>3, <1>4, <1>5, <1>6, <1>7, <1>8 DEF Next

(* Roles stay orderly in every behaviour. *)
LEMMA SpecRoleInv == Spec => []RoleInv
BY InitRoleInv, NextRoleInv, SpecSetupInv, PTL DEF Spec

(* A role that is deleted was nobody's, and nobody is given it while it    *)
(* goes, unless the two calls overlapped: no account loses its permissions *)
(* unseen.                                                                 *)
THEOREM ThmRoleInUse == Spec => []RoleInUse
<1>1. RoleInv => RoleInUse
  BY DEF RoleInv, InUse, RoleInUse
<1> QED BY <1>1, SpecRoleInv, PTL

-----------------------------------------------------------------------------
(* A tab has closed the branch and not yet its locations. *)
Sweeps(t, x) == At(t, "close_branch", "sweep") /\ call[t].on = x

(* A tab has found the location's branch active and not yet inserted it. *)
Inserts(t, l) == At(t, "create_location", "insert") /\ call[t].on = l

(* Branches on which no calls overlapped or were cut short. *)
Undivided(l) == Within[l] \notin split

(* An open location, or one about to open, is in an open branch, unless    *)
(* the branch's locations are about to be closed.                          *)
FacilityInv ==
    /\ branch \in [Branch -> {"none", "active", "inactive"}]
    /\ location \in [Location -> {"none", "active", "inactive"}]
    /\ \A t \in Tab : At(t, "create_location", "insert") => call[t].on \in Location
    /\ \A l \in Location :
        Undivided(l) /\ (\A t \in Tab : ~Sweeps(t, Within[l])) /\ location[l] = "active"
            => branch[Within[l]] = "active"
    /\ \A t \in Tab, l \in Location : Undivided(l) /\ Inserts(t, l) => branch[Within[l]] = "active"

-----------------------------------------------------------------------------
(* There are no branches initially. *)
LEMMA InitFacilityInv == Init => FacilityInv
BY DEF Init, DirectoryInit, FacilityInit, FacilityInv, At, Inserts, NoCall

(* A call that is not about facilities goes on, ends or begins; or one     *)
(* about them is cut short.                                                *)
LEMMA AsideFacilityInv ==
    ASSUME FacilityInv, NEW t \in Tab, UNCHANGED facilityVars, split \subseteq split',
           \A s \in Tab \ {t} : call'[s] = call[s],
           At(t, "close_branch", "sweep") => call[t].on \in split',
           call'[t].op \notin {"close_branch", "create_location"}
    PROVE  FacilityInv'
<1> USE DEF facilityVars
<1>1. ASSUME NEW l \in Location, Undivided(l)', \A s \in Tab : ~Sweeps(s, Within[l])', location'[l] = "active"
      PROVE  branch'[Within[l]] = "active"
  <2>1. Undivided(l) /\ Within[l] \notin split'
    BY <1>1 DEF Undivided
  <2>2. ASSUME NEW s \in Tab PROVE ~Sweeps(s, Within[l])
    <3>1. CASE s = t
      BY <2>1, <3>1 DEF Sweeps
    <3>2. CASE s # t
      BY <1>1, <3>2 DEF Sweeps, At
    <3> QED BY <3>1, <3>2
  <2> QED BY <1>1, <2>1, <2>2 DEF FacilityInv
<1>2. ASSUME NEW s \in Tab, NEW l \in Location, Undivided(l)', Inserts(s, l)'
      PROVE  branch'[Within[l]] = "active"
  <2>1. s # t /\ Inserts(s, l) /\ Undivided(l)
    BY <1>2 DEF Inserts, At, Undivided
  <2> QED BY <2>1 DEF FacilityInv
<1>3. \A s \in Tab : At(s, "create_location", "insert")' => s # t /\ call'[s] = call[s]
  BY DEF At
<1> QED BY <1>1, <1>2, <1>3 DEF FacilityInv, At

(* Branches and locations open and close. *)
LEMMA FacilitiesFacilityInv ==
    ASSUME FacilityInv, Typed, NEW t \in Tab,
           \/ \E x \in Branch : CreateBranch(t, x) \/ CloseBranch(t, x)
           \/ \E l \in Location : CreateLocation(t, l) \/ CloseLocation(t, l)
           \/ FacilityStep(t)
    PROVE  FacilityInv'
<1>1. ASSUME NEW x \in Branch, CreateBranch(t, x) PROVE FacilityInv'
  <2>1. /\ UNCHANGED <<location, call, split>>
        /\ branch' = [branch EXCEPT ![x] = "active"]
    BY <1>1 DEF CreateBranch, directoryVars
  <2> QED BY <2>1, FacilityAssumption DEF FacilityInv, Undivided, Sweeps, Inserts, At
<1>2. ASSUME NEW x \in Branch, CloseBranch(t, x) PROVE FacilityInv'
  <2>1. /\ UNCHANGED location
        /\ branch' \in [Branch -> {"none", "active", "inactive"}]
        /\ \A y \in Branch \ {x} : branch'[y] = branch[y]
    BY <1>2 DEF CloseBranch, FacilityInv
  <2>2. /\ \A s \in Tab \ {t} : call'[s] = call[s]
        /\ Sweeps(t, x)'
    BY <1>2 DEF CloseBranch, Typed, Call, Sweeps, At
  <2>3. /\ split \subseteq split'
        /\ \A l \in Location, s \in Tab \ {t} : call[s].on = l /\ Within[l] = x => x \in split'
    BY <1>2 DEF CloseBranch, Handled
  <2>4. ~At(t, "close_branch", "sweep")
    BY <1>2 DEF CloseBranch, Idle, NoCall, At
  <2>5. ASSUME NEW l \in Location, Undivided(l)', \A s \in Tab : ~Sweeps(s, Within[l])', location'[l] = "active"
        PROVE  branch'[Within[l]] = "active"
    <3>1. Undivided(l) /\ Within[l] \in Branch \ {x}
      BY <2>2, <2>3, <2>5, FacilityAssumption DEF Undivided
    <3>2. \A s \in Tab : ~Sweeps(s, Within[l])
      BY <2>2, <2>4, <2>5 DEF Sweeps, At
    <3> QED BY <2>1, <2>5, <3>1, <3>2 DEF FacilityInv
  <2>6. ASSUME NEW s \in Tab, NEW l \in Location, Undivided(l)', Inserts(s, l)'
        PROVE  branch'[Within[l]] = "active"
    <3>1. s # t /\ call'[s] = call[s]
      BY <2>2, <2>6 DEF Sweeps, Inserts, At
    <3>2. Inserts(s, l) /\ Undivided(l)
      BY <2>3, <2>6, <3>1 DEF Inserts, At, Undivided
    <3>3. Within[l] \in Branch \ {x}
      BY <2>3, <2>6, <3>1, <3>2, FacilityAssumption DEF Inserts, Undivided
    <3> QED BY <2>1, <3>2, <3>3 DEF FacilityInv
  <2>7. \A s \in Tab : At(s, "create_location", "insert")' => s # t /\ call'[s] = call[s]
    BY <2>2 DEF Sweeps, At
  <2> QED BY <2>1, <2>5, <2>6, <2>7 DEF FacilityInv, At
<1>3. ASSUME NEW l \in Location, CreateLocation(t, l) PROVE FacilityInv'
  <2>1. /\ UNCHANGED <<branch, location, split>> /\ branch[Within[l]] = "active"
        /\ ~At(t, "close_branch", "sweep")
    BY <1>3 DEF CreateLocation, facilityVars, Idle, NoCall, At
  <2>2. /\ \A s \in Tab \ {t} : call'[s] = call[s]
        /\ Inserts(t, l)'
    BY <1>3 DEF CreateLocation, Typed, Call, Inserts, At
  <2>3. \A s \in Tab, m \in Location : Inserts(s, m)' => Inserts(s, m) \/ m = l
    BY <2>2 DEF Inserts, At
  <2>4. \A s \in Tab : \A x : Sweeps(s, x) => Sweeps(s, x)'
    BY <2>1, <2>2 DEF Sweeps, At
  <2> QED BY <2>1, <2>2, <2>3, <2>4 DEF FacilityInv, Undivided, Inserts, At
<1>4. ASSUME NEW l \in Location, CloseLocation(t, l) PROVE FacilityInv'
  <2>1. /\ UNCHANGED <<branch, call, split>>
        /\ location' = [location EXCEPT ![l] = "inactive"]
    BY <1>4 DEF CloseLocation, directoryVars
  <2> QED BY <2>1 DEF FacilityInv, Undivided, Sweeps, Inserts, At
<1>5. CASE SweepLocations(t)
  <2>1. /\ UNCHANGED <<branch, split>> /\ Sweeps(t, call[t].on)
        /\ location' = [l \in Location |->
               IF Within[l] = call[t].on /\ location[l] = "active" THEN "inactive" ELSE location[l]]
    BY <1>5 DEF SweepLocations, Sweeps
  <2>2. /\ \A s \in Tab \ {t} : call'[s] = call[s]
        /\ call'[t].op = "none"
    BY <1>5, CallEnded DEF SweepLocations
  <2>3. \A l \in Location : location'[l] = "active" => location[l] = "active" /\ ~Sweeps(t, Within[l])
    BY <2>1 DEF Sweeps
  <2>4. location' \in [Location -> {"none", "active", "inactive"}]
    BY <2>1 DEF FacilityInv
  <2>5. \A s \in Tab : \A x : s # t /\ Sweeps(s, x) => Sweeps(s, x)'
    BY <2>2 DEF Sweeps, At
  <2>6. \A s \in Tab : \A l : Inserts(s, l)' => Inserts(s, l)
    BY <2>2 DEF Inserts, At
  <2>7. ASSUME NEW l \in Location, Undivided(l)', \A s \in Tab : ~Sweeps(s, Within[l])', location'[l] = "active"
        PROVE  branch'[Within[l]] = "active"
    BY <2>1, <2>3, <2>5, <2>7 DEF FacilityInv, Undivided
  <2>8. \A s \in Tab : At(s, "create_location", "insert")' => s # t /\ call'[s] = call[s]
    BY <2>2 DEF At
  <2> QED BY <2>1, <2>4, <2>6, <2>7, <2>8 DEF FacilityInv, Undivided, At
<1>6. CASE InsertLocation(t)
  <2> DEFINE l == call[t].on
  <2>1. /\ UNCHANGED <<branch, split>> /\ Inserts(t, l) /\ l \in Location
        /\ location' = [location EXCEPT ![l] = "active"]
    BY <1>6 DEF InsertLocation, Inserts, FacilityInv
  <2>2. /\ \A s \in Tab \ {t} : call'[s] = call[s]
        /\ call'[t].op = "none"
    BY <1>6, CallEnded DEF InsertLocation
  <2>3. Undivided(l) => branch[Within[l]] = "active"
    BY <2>1 DEF FacilityInv
  <2>4. \A s \in Tab : \A x : Sweeps(s, x) => Sweeps(s, x)'
    BY <2>1, <2>2 DEF Sweeps, Inserts, At
  <2>5. \A s \in Tab : \A m : Inserts(s, m)' => Inserts(s, m)
    BY <2>2 DEF Inserts, At
  <2>6. \A s \in Tab : At(s, "create_location", "insert")' => s # t /\ call'[s] = call[s]
    BY <2>2 DEF At
  <2>7. \A m \in Location \ {l} : location'[m] = location[m]
    BY <2>1 DEF FacilityInv
  <2>8. location' \in [Location -> {"none", "active", "inactive"}]
    BY <2>1 DEF FacilityInv
  <2>9. ASSUME NEW m \in Location, Undivided(m)', \A s \in Tab : ~Sweeps(s, Within[m])', location'[m] = "active"
        PROVE  branch'[Within[m]] = "active"
    <3>1. Undivided(m) /\ \A s \in Tab : ~Sweeps(s, Within[m])
      BY <2>1, <2>4, <2>9 DEF Undivided
    <3>2. CASE m = l
      BY <2>1, <2>3, <3>1, <3>2
    <3>3. CASE m # l
      BY <2>1, <2>7, <2>9, <3>1, <3>3 DEF FacilityInv
    <3> QED BY <3>2, <3>3
  <2> QED BY <2>1, <2>5, <2>6, <2>8, <2>9 DEF FacilityInv, Undivided, At
<1> QED BY <1>1, <1>2, <1>3, <1>4, <1>5, <1>6 DEF FacilityStep

(* Every step preserves the invariant. *)
LEMMA NextFacilityInv == SetupInv /\ FacilityInv /\ [Next]_vars => FacilityInv'
<1> SUFFICES ASSUME SetupInv, FacilityInv, [Next]_vars PROVE FacilityInv'
  OBVIOUS
<1>a. Typed
  BY DEF SetupInv
<1>b. ASSUME UNCHANGED <<facilityVars, call, split>> PROVE FacilityInv'
  BY <1>b DEF facilityVars, FacilityInv, Undivided, Sweeps, Inserts, At
<1>c. ASSUME NEW t \in Tab, UNCHANGED facilityVars, split \subseteq split',
             End(t) \/ \E pc \in Pc : Goto(t, pc) /\ call[t].op \notin {"close_branch", "create_location"},
             At(t, "close_branch", "sweep") => call[t].on \in split'
      PROVE  FacilityInv'
  BY <1>a, <1>c, CallEnded, CallGone, AsideFacilityInv
<1>d. ASSUME NEW t \in Tab, NEW op \in Op \ {"close_branch", "create_location"}, NEW pc, NEW on, NEW f,
             call' = [call EXCEPT ![t] = Call(op, pc, on, f)], ~At(t, "close_branch", "sweep"),
             UNCHANGED facilityVars, split \subseteq split'
      PROVE  FacilityInv'
  <2>1. (\A s \in Tab \ {t} : call'[s] = call[s]) /\ call'[t].op = op
    BY <1>a, <1>d DEF Typed, Call
  <2> QED BY <1>d, <2>1, AsideFacilityInv
<1>e. {"status", "company", "admin", "create", "update", "deactivate", "delete_role"}
          \subseteq Op \ {"close_branch", "create_location"}
  BY DEF Op
<1>1. ASSUME NEW t \in Tab, SetupStep(t), UNCHANGED <<facilityVars, clientVars>> PROVE FacilityInv'
  <2>1. /\ split \subseteq split' /\ ~At(t, "close_branch", "sweep")
        /\ End(t) \/ \E pc \in Pc : Goto(t, pc) /\ call[t].op \notin {"close_branch", "create_location"}
    BY <1>1 DEF SetupStep, ReadSetup, ClaimSetup, InsertCompany, InsertCompanyFails, ReleaseSetup, AwardToken,
                ClaimAdmin, CheckUsers, InsertAdmin, InsertAdminEmployee, AdminFails, UndoAdmin, ReleaseAdmin,
                FinishSetup, At, Pc
  <2> QED BY <1>c, <1>1, <2>1
<1>2. ASSUME NEW t \in Tab, ClientStep(t) PROVE FacilityInv'
  <2>1. ASSUME NEW u \in User, NEW f \in Form, SignUp(t, u, f.name) PROVE FacilityInv'
    BY <1>b, <2>1 DEF SignUp, Register
  <2>2. ASSUME NEW p \in {"start", "login"}, Open(t, p) PROVE FacilityInv'
    <3>1. /\ call' = [call EXCEPT ![t] = Call("status", "setup", None, None)]
          /\ UNCHANGED <<facilityVars, split>> /\ ~At(t, "close_branch", "sweep")
      BY <2>2 DEF Open, Idle, NoCall, At
    <3> QED BY <1>d, <1>e, <3>1
  <2>3. CASE StatusAnswered(t) \/ StatusFailed(t) \/ EmployeeCreated(t) \/ AnswerLost(t)
    BY <1>c, <2>3 DEF StatusAnswered, StatusFailed, EmployeeCreated, AnswerLost, At
  <2>4. CASE SubmitCompany(t) \/ \E u \in User, f \in Form : SubmitEmployee(t, u, f)
    BY <1>d, <1>e, <2>4 DEF SubmitCompany, SubmitEmployee, Idle, NoCall, At
  <2>5. CASE CompanyCreated(t)
    BY <1>d, <1>e, <2>5 DEF CompanyCreated, At
  <2>6. CASE SignOut(t) \/ \E u \in User : SignIn(t, u)
    BY <1>b, <2>6 DEF SignOut, SignIn
  <2> QED BY <1>2, <2>1, <2>2, <2>3, <2>4, <2>5, <2>6 DEF ClientStep
<1>3. ASSUME NEW t \in Tab, EmployeesPage(t) \/ RolesPage(t), UNCHANGED <<facilityVars, clientVars>>
      PROVE  FacilityInv'
  <2>1. ASSUME NEW u \in User, NEW f \in Form, CreateEmployee(t, u, f) \/ UpdateEmployee(t, u, f) PROVE FacilityInv'
    BY <1>d, <1>e, <1>3, <2>1 DEF CreateEmployee, UpdateEmployee, Begin, Idle, NoCall, At
  <2>2. ASSUME NEW u \in User, DeactivateEmployee(t, u) PROVE FacilityInv'
    <3>1. /\ call' = [call EXCEPT ![t] = Call("deactivate", "user", u, None)]
          /\ split \subseteq split' /\ ~At(t, "close_branch", "sweep")
      BY <2>2 DEF DeactivateEmployee, Begin, Idle, NoCall, At
    <3> QED BY <1>d, <1>e, <1>3, <3>1
  <2>3. ASSUME NEW r \in Role, DeleteRole(t, r) PROVE FacilityInv'
    <3>1. /\ call' = [call EXCEPT ![t] = Call("delete_role", "role", r, None)]
          /\ split \subseteq split' /\ ~At(t, "close_branch", "sweep")
      BY <2>3 DEF DeleteRole, Begin, Idle, NoCall, At
    <3> QED BY <1>d, <1>e, <1>3, <3>1
  <2>4. ASSUME NEW r \in Role, NEW p \in Grantable, CreateRole(t, r, p) \/ UpdateRole(t, r, p) PROVE FacilityInv'
    BY <1>b, <1>3, <2>4 DEF CreateRole, UpdateRole
  <2> QED BY <1>3, <2>1, <2>2, <2>3, <2>4 DEF EmployeesPage, EmployeeFormDialog, RolesPage, RoleFormDialog
<1>4. ASSUME NEW t \in Tab, CompanyPage(t) \/ FacilityStep(t) PROVE FacilityInv'
  BY <1>a, <1>4, FacilitiesFacilityInv DEF CompanyPage, BranchManager, LocationManager
<1>5. ASSUME NEW t \in Tab, StaffStep(t), UNCHANGED <<facilityVars, clientVars>> PROVE FacilityInv'
  <2>1. /\ split \subseteq split' /\ ~At(t, "close_branch", "sweep")
        /\ End(t) \/ \E pc \in Pc : Goto(t, pc) /\ call[t].op \notin {"close_branch", "create_location"}
    BY <1>5 DEF StaffStep, InsertUser, UpdateUser, InsertEmployee, UpdateDocument, RetireEmployee, DisableUser,
                UndoUser, RemoveRole, At, Pc
  <2> QED BY <1>c, <1>5, <2>1
<1>6. ASSUME NEW t \in Tab, Stopped(t), UNCHANGED <<facilityVars, clientVars>> PROVE FacilityInv'
  BY <1>c, <1>6 DEF Stopped, At
<1>7. CASE UNCHANGED vars
  BY <1>b, <1>7 DEF vars, directoryVars
<1> QED BY <1>1, <1>2, <1>3, <1>4, <1>5, <1>6, <1>7 DEF Next

(* Branches and locations stay orderly in every behaviour. *)
LEMMA SpecFacilityInv == Spec => []FacilityInv
BY InitFacilityInv, NextFacilityInv, SpecSetupInv, PTL DEF Spec

(* A branch that closed has no open location once its call has ended,      *)
(* unless a location was created in it meanwhile or the call was cut short *)
(* between the branch and its locations.                                   *)
THEOREM ThmLocationsCloseWithBranch == Spec => []LocationsCloseWithBranch
<1>1. FacilityInv => LocationsCloseWithBranch
  BY DEF FacilityInv, LocationsCloseWithBranch, Undivided, Sweeps, Quiet
<1> QED BY <1>1, SpecFacilityInv, PTL
-----------------------------------------------------------------------------
(* Documents that are written are complete. *)
AccountDoc ==
    [status : {"active", "disabled"}, by : {"setup", "staff", "register"},
     role : Role, name : Name \ {None}]

PersonDoc ==
    [status : Status, role : Role, name : Name, number : {f.number : f \in Form} \cup {None}]

Pages == {"start", "company", "employee", "login", "app"}

(* What becomes of the documents about people in a step. *)
PeopleWritten ==
    \A u \in User :
        /\ user'[u] \in {user[u], NoUser} \cup AccountDoc
        /\ employee'[u] \in {employee[u]} \cup PersonDoc

PeopleInv ==
    /\ \A u \in User : user[u] = NoUser \/ user[u] \in AccountDoc
    /\ \A u \in User : employee[u] = NoEmployee \/ employee[u] \in PersonDoc

(* The setup document names the company once it was awarded; a tab that    *)
(* asks for the setup status goes on to the second step, or stays.         *)
PlaceInv ==
    /\ SetupTypeOK
    /\ who \in [Tab -> User \cup {None}]
    /\ page \in [Tab -> Pages]
    /\ \A t \in Tab : call[t].op = "status" => call[t].on \in {None, "employee"}

(* A form makes complete documents. *)
LEMMA FormDocs ==
    ASSUME NEW f \in Form, NEW by \in {"setup", "staff", "register"}
    PROVE  /\ Account(by, f) \in AccountDoc /\ Account(by, AdminForm(f)) \in AccountDoc
           /\ Employee(f) \in PersonDoc /\ Employee(AdminForm(f)) \in PersonDoc
<1>1. /\ f.role \in Role /\ f.status \in Status /\ f.name \in Name \ {None}
      /\ f = [role |-> f.role, status |-> f.status, name |-> f.name, number |-> f.number]
      /\ f.number \in {g.number : g \in Form}
  BY DirectoryAssumption DEF Name
<1>2. /\ AdminForm(f).role = System /\ AdminForm(f).status = "active"
      /\ AdminForm(f).name = f.name /\ AdminForm(f).number = f.number
  BY <1>1 DEF AdminForm
<1>3. System \in Role /\ "active" \in Status
  BY DirectoryAssumption DEF Status
<1>4. Account(by, f) \in AccountDoc /\ Account(by, AdminForm(f)) \in AccountDoc
  BY <1>1, <1>2, <1>3 DEF Account, AccountStatus, AccountDoc
<1>5. Employee(f) \in PersonDoc /\ Employee(AdminForm(f)) \in PersonDoc
  BY <1>1, <1>2, <1>3 DEF Employee, PersonDoc
<1> QED BY <1>4, <1>5

(* An account whose employee exists is a complete document. *)
LEMMA HasAccount ==
    ASSUME SetupInv, PeopleInv, NEW u \in User, Has(u)
    PROVE  user[u] \in AccountDoc /\ employee[u] \in PersonDoc
<1>1. user[u].by # "none"
  BY DEF SetupInv, StaffInv
<1> QED BY <1>1 DEF PeopleInv, Has, NoUser

(* The writes of a call about an employee. *)
LEMMA StaffWrites ==
    ASSUME SetupInv, PeopleInv, NEW t \in Tab, StaffStep(t)
    PROVE  PeopleWritten
<1> DEFINE u == call[t].on  f == call[t].form
<1>a. /\ user \in [User -> UserDoc] /\ employee \in [User -> EmployeeDoc]
      /\ call[t].op \in {"create", "update", "deactivate"} => u \in User
      /\ call[t].op \in {"create", "update"} => f \in Form
      /\ call[t].op \in {"update", "deactivate"} => user[u] \in AccountDoc /\ employee[u] \in PersonDoc
  <2>1. call[t].op \in {"update", "deactivate"} => u \in User /\ Has(u)
    BY DEF SetupInv, Typed, StaffInv
  <2> QED BY <2>1, HasAccount DEF SetupInv, Typed
<1>1. CASE InsertUser(t)
  <2>1. u \in User /\ f \in Form /\ employee' = employee
        /\ (user' = user \/ user' = [user EXCEPT ![u] = Account("staff", f)])
    BY <1>1, <1>a DEF InsertUser, At
  <2>2. Account("staff", f) \in AccountDoc
    BY <2>1, FormDocs
  <2> QED BY <1>a, <2>1, <2>2 DEF PeopleWritten
<1>2. CASE InsertEmployee(t)
  <2>1. u \in User /\ f \in Form /\ user' = user
        /\ (employee' = employee \/ employee' = [employee EXCEPT ![u] = Employee(f)])
    BY <1>2, <1>a DEF InsertEmployee, At
  <2>2. Employee(f) \in PersonDoc
    BY <2>1, FormDocs
  <2> QED BY <1>a, <2>1, <2>2 DEF PeopleWritten
<1>3. CASE UndoUser(t)
  BY <1>3, <1>a DEF UndoUser, PeopleWritten
<1>4. CASE UpdateUser(t)
  <2>1. u \in User /\ f \in Form /\ employee' = employee /\ user[u] \in AccountDoc
        /\ (user' = user \/ user' = [user EXCEPT ![u] = Account(user[u].by, f)])
    BY <1>4, <1>a DEF UpdateUser, At
  <2>2. user[u].by \in {"setup", "staff", "register"}
    BY <2>1 DEF AccountDoc
  <2>3. Account(user[u].by, f) \in AccountDoc
    BY <2>1, <2>2, FormDocs
  <2> QED BY <1>a, <2>1, <2>3 DEF PeopleWritten
<1>5. CASE UpdateDocument(t)
  <2>1. u \in User /\ f \in Form /\ user' = user
        /\ (employee' = employee \/ employee' = [employee EXCEPT ![u] = Employee(f)])
    BY <1>5, <1>a DEF UpdateDocument, At
  <2>2. Employee(f) \in PersonDoc
    BY <2>1, FormDocs
  <2> QED BY <1>a, <2>1, <2>2 DEF PeopleWritten
<1>6. CASE DisableUser(t)
  <2> DEFINE doc == [user[u] EXCEPT !.status = "disabled"]
  <2>1. u \in User /\ user[u] \in AccountDoc /\ employee' = employee /\ user' = [user EXCEPT ![u] = doc]
    BY <1>6, <1>a DEF DisableUser, At
  <2>2. doc \in AccountDoc
    BY <2>1 DEF AccountDoc
  <2> HIDE DEF doc
  <2> QED BY <1>a, <2>1, <2>2 DEF PeopleWritten
<1>7. CASE RetireEmployee(t)
  <2> DEFINE doc == [employee[u] EXCEPT !.status = "inactive"]
  <2>1. u \in User /\ employee[u] \in PersonDoc /\ user' = user /\ employee' = [employee EXCEPT ![u] = doc]
    BY <1>7, <1>a DEF RetireEmployee, At
  <2>2. doc \in PersonDoc
    BY <2>1 DEF PersonDoc, Status
  <2> HIDE DEF doc
  <2> QED BY <1>a, <2>1, <2>2 DEF PeopleWritten
<1>8. CASE RemoveRole(t)
  BY <1>8 DEF RemoveRole, PeopleWritten
<1> QED BY <1>1, <1>2, <1>3, <1>4, <1>5, <1>6, <1>7, <1>8 DEF StaffStep

(* The writes of any step. *)
LEMMA StepPeople ==
    ASSUME SetupInv, PeopleInv, [Next]_vars
    PROVE  PeopleWritten
<1>a. user \in [User -> UserDoc] /\ employee \in [User -> EmployeeDoc]
  BY DEF SetupInv, Typed
<1>b. ASSUME UNCHANGED <<user, employee>> PROVE PeopleWritten
  BY <1>b DEF PeopleWritten
<1>1. ASSUME NEW t \in Tab, SetupStep(t) PROVE PeopleWritten
  <2> DEFINE u == call[t].on  f == call[t].form
  <2>1. call[t].op = "admin" => u \in User /\ f \in Form
    BY DEF SetupInv, Typed
  <2>2. CASE InsertAdmin(t)
    <3>1. u \in User /\ f \in Form /\ employee' = employee
          /\ (user' = user \/ user' = [user EXCEPT ![u] = Account("setup", AdminForm(f))])
      BY <2>1, <2>2 DEF InsertAdmin, At
    <3>2. Account("setup", AdminForm(f)) \in AccountDoc
      BY <3>1, FormDocs
    <3> QED BY <1>a, <3>1, <3>2 DEF PeopleWritten
  <2>3. CASE InsertAdminEmployee(t)
    <3>1. u \in User /\ f \in Form /\ user' = user
          /\ (employee' = employee \/ employee' = [employee EXCEPT ![u] = Employee(AdminForm(f))])
      BY <2>1, <2>3 DEF InsertAdminEmployee, At
    <3>2. Employee(AdminForm(f)) \in PersonDoc
      BY <3>1, FormDocs
    <3> QED BY <1>a, <3>1, <3>2 DEF PeopleWritten
  <2>4. CASE UndoAdmin(t)
    BY <1>a, <2>1, <2>4 DEF UndoAdmin, At, PeopleWritten
  <2>5. CASE ~(InsertAdmin(t) \/ InsertAdminEmployee(t) \/ UndoAdmin(t))
    BY <1>1, <1>b, <2>5 DEF SetupStep, ReadSetup, ClaimSetup, InsertCompany, InsertCompanyFails, ReleaseSetup,
                      AwardToken, ClaimAdmin, CheckUsers, AdminFails, ReleaseAdmin, FinishSetup
  <2> QED BY <2>2, <2>3, <2>4, <2>5
<1>2. ASSUME NEW t \in Tab, ClientStep(t) PROVE PeopleWritten
  <2>1. ASSUME NEW v \in User, NEW f \in Form, SignUp(t, v, f.name) PROVE PeopleWritten
    <3> DEFINE doc == [status |-> "active", by |-> "register", role |-> System, name |-> f.name]
    <3>1. user' = [user EXCEPT ![v] = doc] /\ employee' = employee
      BY <2>1 DEF SignUp, Register
    <3>2. doc \in AccountDoc
      BY DirectoryAssumption DEF AccountDoc, Name
    <3> HIDE DEF doc
    <3> QED BY <1>a, <3>1, <3>2 DEF PeopleWritten
  <2>2. CASE ~\E v \in User, f \in Form : SignUp(t, v, f.name)
    BY <1>2, <1>b, <2>2 DEF ClientStep, Open, StatusAnswered, StatusFailed, SubmitCompany, CompanyCreated,
                      EmployeeCreated, AnswerLost, SignIn, SubmitEmployee, SignOut
  <2> QED BY <2>1, <2>2
<1>3. ASSUME NEW t \in Tab, EmployeesPage(t) \/ RolesPage(t) \/ CompanyPage(t) \/ FacilityStep(t)
      PROVE  PeopleWritten
  BY <1>3, <1>b DEF EmployeesPage, EmployeeFormDialog, CreateEmployee, UpdateEmployee, DeactivateEmployee, Begin,
              RolesPage, RoleFormDialog, CreateRole, UpdateRole, DeleteRole,
              CompanyPage, BranchManager, LocationManager, CreateBranch, CloseBranch, CreateLocation, CloseLocation,
              FacilityStep, SweepLocations, InsertLocation, directoryVars
<1>4. ASSUME NEW t \in Tab, Stopped(t) PROVE PeopleWritten
  BY <1>4, <1>b DEF Stopped
<1>5. CASE UNCHANGED vars
  BY <1>5, <1>b DEF vars, directoryVars
<1> QED BY <1>1, <1>2, <1>3, <1>4, <1>5, StaffWrites DEF Next

(* A tab's page, call and session in a step of another kind than its own.  *)
LEMMA AsidePlaceInv ==
    ASSUME PlaceInv, NEW t \in Tab, UNCHANGED <<who, page, setup, company, known>>,
           \A s \in Tab \ {t} : call'[s] = call[s],
           call'[t].op = "status" => call[t].op = "status" /\ call'[t].on = call[t].on
    PROVE  PlaceInv'
BY DEF PlaceInv, SetupTypeOK

(* The wizard's calls move the setup document on. *)
LEMMA SetupPlaceInv ==
    ASSUME SetupInv, PlaceInv, NEW t \in Tab, SetupStep(t), UNCHANGED <<who, page, known>>
    PROVE  PlaceInv'
<1>a. Typed
  BY DEF SetupInv
<1>1. /\ \A s \in Tab \ {t} : call'[s] = call[s]
      /\ call'[t].op = "status" => call[t].op = "status" /\ call'[t].on = call[t].on
  <2>1. CASE End(t)
    BY <1>a, <2>1, CallEnded
  <2>2. CASE \E pc \in Pc : Goto(t, pc)
    BY <1>a, <2>2, CallGone
  <2>3. End(t) \/ \E pc \in Pc : Goto(t, pc)
    BY DEF SetupStep, ReadSetup, ClaimSetup, InsertCompany, InsertCompanyFails, ReleaseSetup, AwardToken,
           ClaimAdmin, CheckUsers, InsertAdmin, InsertAdminEmployee, AdminFails, UndoAdmin, ReleaseAdmin,
           FinishSetup, Pc
  <2> QED BY <2>1, <2>2, <2>3
<1>2. company' \subseteq Tab
  BY DEF SetupStep, ReadSetup, ClaimSetup, InsertCompany, InsertCompanyFails, ReleaseSetup, AwardToken,
         ClaimAdmin, CheckUsers, InsertAdmin, InsertAdminEmployee, AdminFails, UndoAdmin, ReleaseAdmin,
         FinishSetup, setupVars, PlaceInv, SetupTypeOK
<1>3. \/ setup' = setup
      \/ setup' \in [state : {"absent", "creating_company"}, company : {None}]
      \/ setup' = [state |-> "awaiting_admin", company |-> t]
      \/ /\ setup.state \in {"awaiting_admin", "creating_admin"}
         /\ \E state \in {"awaiting_admin", "creating_admin", "complete"} : setup' = [setup EXCEPT !.state = state]
  BY DEF SetupStep, ReadSetup, ClaimSetup, InsertCompany, InsertCompanyFails, ReleaseSetup, AwardToken,
         ClaimAdmin, CheckUsers, InsertAdmin, InsertAdminEmployee, AdminFails, UndoAdmin, ReleaseAdmin,
         FinishSetup, setupVars
<1>4. setup' \in [state : {"absent", "creating_company"}, company : {None}] \cup
                  [state : {"awaiting_admin", "creating_admin", "complete"}, company : Tab]
  <2> DEFINE Awarding == [state : {"awaiting_admin", "creating_admin", "complete"}, company : Tab]
  <2>1. ASSUME setup.state \in {"awaiting_admin", "creating_admin"},
               NEW state \in {"awaiting_admin", "creating_admin", "complete"}
        PROVE  [setup EXCEPT !.state = state] \in Awarding
    <3>1. setup \in Awarding
      BY <2>1 DEF PlaceInv, SetupTypeOK
    <3> QED BY <3>1
  <2> QED BY <1>3, <2>1 DEF PlaceInv, SetupTypeOK
<1> QED BY <1>1, <1>2, <1>4 DEF PlaceInv, SetupTypeOK

(* A page leads on to a page. *)
LEMMA RedirectedPage ==
    ASSUME NEW p \in Pages, NEW status \in {"company", "employee", "login", None}, NEW account
    PROVE  Redirected(p, status, account) \in Pages
BY DEF Redirected, Pages

(* What a tab does of its own. *)
LEMMA ClientPlaceInv ==
    ASSUME SetupInv, PlaceInv, NEW t \in Tab, ClientStep(t)
    PROVE  PlaceInv'
<1>a. /\ call \in [Tab -> CallDoc]
      /\ known \in [Tab -> {"company", "employee", "login", None}]
      /\ page \in [Tab -> Pages] /\ who \in [Tab -> User \cup {None}]
  BY DEF SetupInv, Typed, PlaceInv, SetupTypeOK
<1>b. ASSUME UNCHANGED <<setup, company>>, known' \in [Tab -> {"company", "employee", "login", None}],
             page' \in [Tab -> Pages], who' \in [Tab -> User \cup {None}],
             \A s \in Tab \ {t} : call'[s] = call[s],
             call'[t].op = "status" => call'[t].on \in {None, "employee"}
      PROVE  PlaceInv'
  BY <1>b DEF PlaceInv, SetupTypeOK
<1>c. ASSUME NEW op, NEW pc, NEW on, NEW f, call' = [call EXCEPT ![t] = Call(op, pc, on, f)]
      PROVE  (\A s \in Tab \ {t} : call'[s] = call[s]) /\ call'[t].op = op /\ call'[t].on = on
  BY <1>a, <1>c DEF Call
<1>d. ASSUME End(t)
      PROVE  (\A s \in Tab \ {t} : call'[s] = call[s]) /\ call'[t].op = "none"
  BY <1>a, <1>d DEF End, NoCall
<1>1. ASSUME NEW p \in {"start", "login"}, Open(t, p) PROVE PlaceInv'
  <2>1. Redirected(p, None, who[t]) \in Pages
    BY RedirectedPage DEF Pages
  <2>2. /\ page' = [page EXCEPT ![t] = Redirected(p, None, who[t])]
        /\ known' = [known EXCEPT ![t] = None]
        /\ call' = [call EXCEPT ![t] = Call("status", "setup", None, None)]
        /\ UNCHANGED <<setup, company, who>>
    BY <1>1 DEF Open, setupVars
  <2> QED BY <1>a, <1>b, <1>c, <2>1, <2>2
<1>2. CASE StatusAnswered(t) \/ StatusFailed(t)
  <2>1. Onward(t) \in Pages
    BY <1>a, <1>2 DEF StatusAnswered, StatusFailed, Onward, PlaceInv, Pages
  <2>2. \E status \in {"company", "employee", "login", None} :
          /\ known' = [known EXCEPT ![t] = status]
          /\ page' = [page EXCEPT ![t] = Redirected(Onward(t), status, who[t])]
             \/ page' = [page EXCEPT ![t] = Onward(t)]
    BY <1>2 DEF StatusAnswered, StatusFailed, StatusStep
  <2>3. End(t) /\ UNCHANGED <<setup, company, who>>
    BY <1>2 DEF StatusAnswered, StatusFailed, setupVars
  <2>4. /\ known' \in [Tab -> {"company", "employee", "login", None}]
        /\ page' \in [Tab -> Pages]
    BY <1>a, <2>1, <2>2, RedirectedPage
  <2> QED BY <1>a, <1>b, <1>d, <2>3, <2>4
<1>3. CASE SubmitCompany(t)
  BY <1>a, <1>b, <1>c, <1>3 DEF SubmitCompany, setupVars, clientVars
<1>4. CASE CompanyCreated(t)
  BY <1>a, <1>b, <1>c, <1>4 DEF CompanyCreated, setupVars
<1>5. CASE EmployeeCreated(t)
  <2>1. Redirected("login", known[t], who[t]) \in Pages
    BY <1>a, RedirectedPage DEF Pages
  <2> QED BY <1>a, <1>b, <1>d, <1>5, <2>1 DEF EmployeeCreated, setupVars
<1>6. CASE AnswerLost(t)
  BY <1>a, <1>b, <1>d, <1>6 DEF AnswerLost, setupVars, clientVars
<1>7. ASSUME NEW u \in User, SignIn(t, u) PROVE PlaceInv'
  <2>1. /\ who' = [who EXCEPT ![t] = u] /\ page' = [page EXCEPT ![t] = "app"]
        /\ UNCHANGED <<setup, company, known, call>>
    BY <1>7 DEF SignIn, setupVars
  <2> QED BY <1>a, <2>1 DEF PlaceInv, SetupTypeOK, Pages
<1>8. ASSUME NEW u \in User, NEW f \in Form, SubmitEmployee(t, u, f) PROVE PlaceInv'
  <2>1. /\ call' = [call EXCEPT ![t] = Call("admin", "claim", u, f)]
        /\ UNCHANGED <<setup, company, known, page, who>>
    BY <1>8 DEF SubmitEmployee, setupVars, clientVars
  <2>2. (\A s \in Tab \ {t} : call'[s] = call[s]) /\ call'[t].op = "admin"
    BY <1>c, <2>1
  <2> QED BY <1>a, <1>b, <2>1, <2>2
<1>9. ASSUME NEW u \in User, NEW f \in Form, SignUp(t, u, f.name) PROVE PlaceInv'
  <2>1. /\ who' = [who EXCEPT ![t] = u] /\ page' = [page EXCEPT ![t] = "app"]
        /\ UNCHANGED <<setup, company, known, call>>
    BY <1>9 DEF SignUp, Register, setupVars
  <2> QED BY <1>a, <2>1 DEF PlaceInv, SetupTypeOK, Pages
<1>10. CASE SignOut(t)
  <2>1. Redirected("app", known[t], None) \in Pages
    BY <1>a, RedirectedPage DEF Pages
  <2>2. /\ who' = [who EXCEPT ![t] = None] /\ page' = [page EXCEPT ![t] = Redirected("app", known[t], None)]
        /\ UNCHANGED <<setup, company, known, call>>
    BY <1>10 DEF SignOut, setupVars
  <2> QED BY <1>a, <2>1, <2>2 DEF PlaceInv, SetupTypeOK
<1> QED BY <1>1, <1>2, <1>3, <1>4, <1>5, <1>6, <1>7, <1>8, <1>9, <1>10 DEF ClientStep

(* The pages behind the sign-in begin no call for the setup status. *)
LEMMA PagePlaceInv ==
    ASSUME SetupInv, PlaceInv, NEW t \in Tab, UNCHANGED <<setupVars, known, clientVars>>,
           \/ EmployeesPage(t) \/ RolesPage(t) \/ CompanyPage(t)
           \/ StaffStep(t) \/ FacilityStep(t) \/ Stopped(t)
    PROVE  PlaceInv'
<1>a. call \in [Tab -> CallDoc] /\ Typed
  BY DEF SetupInv, Typed
<1>b. UNCHANGED <<who, page, setup, company, known>>
  BY DEF setupVars, clientVars, EmployeesPage, EmployeeFormDialog, CreateEmployee, UpdateEmployee,
         DeactivateEmployee, Begin, RolesPage, RoleFormDialog, CreateRole, UpdateRole, DeleteRole,
         CompanyPage, BranchManager, LocationManager, CreateBranch, CloseBranch, CreateLocation,
         CloseLocation, StaffStep, InsertUser, InsertEmployee, UndoUser, UpdateUser, UpdateDocument,
         DisableUser, RetireEmployee, RemoveRole, FacilityStep, SweepLocations, InsertLocation, Stopped,
         directoryVars
<1>1. ASSUME NEW op \in Op \ {"status"}, NEW pc, NEW on, NEW f, call' = [call EXCEPT ![t] = Call(op, pc, on, f)]
      PROVE  PlaceInv'
  <2>1. (\A s \in Tab \ {t} : call'[s] = call[s]) /\ call'[t].op = op
    BY <1>a, <1>1 DEF Call
  <2> QED BY <1>b, <2>1, AsidePlaceInv
<1>2. CASE End(t)
  BY <1>a, <1>b, <1>2, CallEnded, AsidePlaceInv
<1>3. CASE \E pc \in Pc : Goto(t, pc)
  BY <1>a, <1>b, <1>3, CallGone, AsidePlaceInv
<1>4. CASE call' = call
  BY <1>b, <1>4, AsidePlaceInv
<1>5. CASE EmployeesPage(t) \/ RolesPage(t) \/ CompanyPage(t)
  <2>1. ASSUME NEW u \in User, NEW f \in Form, CreateEmployee(t, u, f) \/ UpdateEmployee(t, u, f) PROVE PlaceInv'
    BY <1>1, <2>1 DEF CreateEmployee, UpdateEmployee, Begin, Op
  <2>2. ASSUME NEW u \in User, DeactivateEmployee(t, u) PROVE PlaceInv'
    BY <1>1, <2>2 DEF DeactivateEmployee, Begin, Op
  <2>3. ASSUME NEW r \in Role, NEW p \in Grantable, CreateRole(t, r, p) \/ UpdateRole(t, r, p) PROVE PlaceInv'
    BY <1>4, <2>3 DEF CreateRole, UpdateRole
  <2>4. ASSUME NEW r \in Role, DeleteRole(t, r) PROVE PlaceInv'
    BY <1>1, <2>4 DEF DeleteRole, Begin, Op
  <2>5. ASSUME NEW x \in Branch, CreateBranch(t, x) \/ CloseBranch(t, x) PROVE PlaceInv'
    BY <1>1, <1>4, <2>5 DEF CreateBranch, CloseBranch, directoryVars, Op
  <2>6. ASSUME NEW l \in Location, CreateLocation(t, l) \/ CloseLocation(t, l) PROVE PlaceInv'
    BY <1>1, <1>4, <2>6 DEF CreateLocation, CloseLocation, directoryVars, Op
  <2> QED BY <1>5, <2>1, <2>2, <2>3, <2>4, <2>5, <2>6 DEF EmployeesPage, EmployeeFormDialog, RolesPage,
             RoleFormDialog, CompanyPage, BranchManager, LocationManager
<1>6. CASE StaffStep(t) \/ FacilityStep(t) \/ Stopped(t)
  <2>1. End(t) \/ \E pc \in Pc : Goto(t, pc)
    BY <1>6 DEF StaffStep, InsertUser, InsertEmployee, UndoUser, UpdateUser, UpdateDocument,
         DisableUser, RetireEmployee, RemoveRole, FacilityStep, SweepLocations, InsertLocation, Stopped, Pc
  <2> QED BY <1>2, <1>3, <2>1
<1> QED BY <1>5, <1>6

(* Initially nobody exists, and every page starts. *)
LEMMA InitPlaceInv == Init => PeopleInv /\ PlaceInv
BY DEF Init, DirectoryInit, SetupInit, PeopleInv, PlaceInv, SetupTypeOK, Pages, NoCall

(* Every step keeps documents complete and tabs on pages. *)
LEMMA NextPlaceInv == SetupInv /\ PeopleInv /\ PlaceInv /\ [Next]_vars => PeopleInv' /\ PlaceInv'
<1> SUFFICES ASSUME SetupInv, PeopleInv, PlaceInv, [Next]_vars PROVE PeopleInv' /\ PlaceInv'
  OBVIOUS
<1>1. PeopleInv'
  BY StepPeople DEF PeopleWritten, PeopleInv
<1>2. PlaceInv'
  <2>1. ASSUME NEW t \in Tab, SetupStep(t), UNCHANGED <<facilityVars, clientVars>> PROVE PlaceInv'
    <3>1. UNCHANGED <<who, page, known>>
      BY <2>1 DEF clientVars, SetupStep, ReadSetup, ClaimSetup, InsertCompany, InsertCompanyFails, ReleaseSetup,
             AwardToken, ClaimAdmin, CheckUsers, InsertAdmin, InsertAdminEmployee, AdminFails, UndoAdmin,
             ReleaseAdmin, FinishSetup
    <3> QED BY <2>1, <3>1, SetupPlaceInv
  <2>2. CASE UNCHANGED vars
    BY <2>2 DEF vars, directoryVars, setupVars, clientVars, PlaceInv, SetupTypeOK
  <2> QED BY <2>1, <2>2, ClientPlaceInv, PagePlaceInv DEF Next
<1> QED BY <1>1, <1>2

(* Documents, calls and pages keep their types, and a role or a name that  *)
(* an account bears is one there is.                                       *)
THEOREM ThmTypeOK == Spec => []TypeOK
<1>1. Spec => [](PeopleInv /\ PlaceInv)
  BY InitPlaceInv, NextPlaceInv, SpecSetupInv, PTL DEF Spec
<1>2. SetupInv /\ RoleInv /\ FacilityInv /\ PeopleInv /\ PlaceInv => TypeOK
  BY DEF SetupInv, Typed, RoleInv, RoleDoc, FacilityInv, PeopleInv, PlaceInv, AccountDoc, PersonDoc, Pages,
         TypeOK, DirectoryTypeOK, FacilityTypeOK
<1> QED BY <1>1, <1>2, SpecSetupInv, SpecRoleInv, SpecFacilityInv, PTL
=============================================================================
