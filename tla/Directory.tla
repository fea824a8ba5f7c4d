----------------------------- MODULE Directory ------------------------------
(***************************************************************************)
(* The people of a company: accounts (users), employees and roles, and who *)
(* is allowed what (backend/app/core/authorization.py), with the calls     *)
(* that tabs of browsers have under way.  A tab makes one call at a time.  *)
(***************************************************************************)
EXTENDS Naturals, FiniteSets

CONSTANTS
    None,
    Tab,        \* tabs of browsers
    User,       \* accounts; an employee bears the name of its account
    Role,       \* roles of the company, and
    System,     \* one that stands for the system's templates
    Form,       \* what is typed into an employee form
    Grantable   \* sets of permissions a role may be given

Status == {"active", "on_leave", "inactive"}

ASSUME DirectoryAssumption ==
    /\ System \in Role
    /\ None \notin Tab \cup User \cup Role \cup Form
    /\ \A f \in Form :
        /\ f = [role |-> f.role, status |-> f.status, name |-> f.name, number |-> f.number]
        /\ f.role \in Role /\ f.status \in Status /\ f.name # None

VARIABLES
    user,       \* users
    employee,   \* employees
    role,       \* roles
    who,        \* the account whose tokens a tab holds
    call,       \* the call each tab has under way
    split       \* history: documents on which calls overlapped or were cut short

directoryVars == <<user, employee, role, who, call, split>>

(* by: what made the account.  Initial setup sets is_super_admin, nothing  *)
(* else does.                                                              *)
NoUser == [status |-> "none", by |-> "none", role |-> None, name |-> None]

NoEmployee == [status |-> "none", role |-> None, name |-> None, number |-> None]

NoRole == [status |-> "none", permissions |-> {}]

(* on: the document the call is about; form: what it writes. *)
NoCall == [op |-> "none", pc |-> "idle", on |-> None, form |-> None]

Call(op, pc, on, form) == [op |-> op, pc |-> pc, on |-> on, form |-> form]

DirectoryTypeOK ==
    /\ \A u \in User :
        /\ user[u] # NoUser =>
              /\ user[u].status \in {"active", "disabled"}
              /\ user[u].by \in {"setup", "staff", "register"}
              /\ user[u].role \in Role /\ user[u].name # None
        /\ employee[u] # NoEmployee => employee[u].status \in Status /\ employee[u].role \in Role
    /\ \A r \in Role : role[r].status \in {"none", "active", "inactive"} /\ role[r].permissions \in Grantable \cup {{}}
    /\ who \in [Tab -> User \cup {None}]

DirectoryInit ==
    /\ user = [u \in User |-> NoUser]
    /\ employee = [u \in User |-> NoEmployee]
    /\ role \in {[[r \in Role |-> NoRole] EXCEPT ![System] = [status |-> "active", permissions |-> p]] : p \in Grantable}
    /\ who = [t \in Tab |-> None]
    /\ call = [t \in Tab |-> NoCall]
    /\ split = {}

-----------------------------------------------------------------------------
IsSuper(u) == user[u].by = "setup"

Permissions(u) ==
    IF user[u].role \in Role /\ role[user[u].role].status = "active" THEN role[user[u].role].permissions ELSE {}

(* What a call needs, checked against the live account and role.  "super"  *)
(* is require_super_admin.                                                 *)
Authorised(t, key) ==
    /\ who[t] # None
    /\ user[who[t]].status = "active"
    /\ IsSuper(who[t]) \/ key \in Permissions(who[t])

Idle(t) == call[t] = NoCall

At(t, op, pc) == call[t].op = op /\ call[t].pc = pc

Goto(t, pc) == call' = [call EXCEPT ![t].pc = pc]

End(t) == call' = [call EXCEPT ![t] = NoCall]

(* What the calls of other tabs are about, and the roles they assign. *)
Handled(t) == {call[c].on : c \in Tab \ {t}}

Assigned(t) == {call[c].form.role : c \in {d \in Tab \ {t} : call[d].form # None}}

(* An account for a new document: nobody holds tokens of an earlier one. *)
Fresh(u) ==
    /\ user[u] = NoUser
    /\ \A t \in Tab : who[t] # u /\ call[t].on # u

(* The unique indexes of users, and of employees. *)
NameTaken(u, name) == \E v \in User \ {u} : user[v].name = name

EmployeeTaken(u, f) == \E v \in User \ {u} : employee[v].name = f.name \/ employee[v].number = f.number

AccountStatus(status) == IF status = "active" THEN "active" ELSE "disabled"

Account(by, f) == [status |-> AccountStatus(f.status), by |-> by, role |-> f.role, name |-> f.name]

Employee(f) == [status |-> f.status, role |-> f.role, name |-> f.name, number |-> f.number]

(* A handler stops between two of its writes: the process ends, or the     *)
(* database refuses the next call.                                         *)
Stopped(t) ==
    /\ call[t].pc \notin {"idle", "answered"}
    /\ split' = IF call[t].pc \in {"employee", "undo", "sweep"} THEN split \cup {call[t].on} ELSE split
    /\ End(t)
    /\ UNCHANGED <<user, employee, role, who>>
=============================================================================
