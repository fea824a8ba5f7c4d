---------------------------- MODULE InitialSetup ----------------------------
(***************************************************************************)
(* The first company and the first administrator                           *)
(* (backend/app/application/setup/service.py), call by call.  A company    *)
(* and its setup token bear the name of the tab that created them.         *)
(***************************************************************************)
EXTENDS Directory

VARIABLES
    setup,      \* platform_setup: the one document
    company,    \* companies
    known       \* the setup status each page has

setupVars == <<setup, company>>

SetupTypeOK ==
    /\ setup \in [state : {"absent", "creating_company"}, company : {None}] \cup
                  [state : {"awaiting_admin", "creating_admin", "complete"}, company : Tab]
    /\ company \subseteq Tab
    /\ known \in [Tab -> {"company", "employee", "login", None}]

SetupInit ==
    /\ setup = [state |-> "absent", company |-> None]
    /\ company = {}
    /\ known = [t \in Tab |-> None]

-----------------------------------------------------------------------------
(* GET /setup/status reads the setup document, then the companies. *)

ReadSetup(t) ==
    /\ At(t, "status", "setup")
    /\ Goto(t, IF setup.state \in {"awaiting_admin", "creating_admin"} THEN "due" ELSE "company")
    /\ UNCHANGED <<setupVars, known, user, employee, role, who, split>>

StatusStep(pc) ==
    IF company = {} THEN "company" ELSE IF pc = "due" THEN "employee" ELSE "login"

-----------------------------------------------------------------------------
(* create_initial_company *)

(* Mutant: the setup document is not inserted but overwritten. *)
ClaimAgain(t) ==
    /\ At(t, "company", "claim")
    /\ setup' = [state |-> "creating_company", company |-> None]
    /\ Goto(t, "insert")
    /\ UNCHANGED <<company, known, user, employee, role, who, split>>

ClaimSetup(t) ==
    /\ At(t, "company", "claim")
    /\ IF setup.state = "absent"
          THEN setup' = [state |-> "creating_company", company |-> None] /\ Goto(t, "insert")
          ELSE End(t) /\ UNCHANGED setup
    /\ UNCHANGED <<company, known, user, employee, role, who, split>>

InsertCompany(t) ==
    /\ At(t, "company", "insert")
    /\ company' = company \cup {t}
    /\ Goto(t, "award")
    /\ UNCHANGED <<setup, known, user, employee, role, who, split>>

InsertCompanyFails(t) ==
    /\ At(t, "company", "insert")
    /\ Goto(t, "release")
    /\ UNCHANGED <<setupVars, known, user, employee, role, who, split>>

ReleaseSetup(t) ==
    /\ At(t, "company", "release")
    /\ setup' = IF setup.state = "creating_company" THEN [state |-> "absent", company |-> None] ELSE setup
    /\ End(t)
    /\ UNCHANGED <<company, known, user, employee, role, who, split>>

(* Mutant: the update leaves the company out. *)
AwardNothing(t) ==
    /\ At(t, "company", "award")
    /\ setup' = [setup EXCEPT !.state = "awaiting_admin"]
    /\ Goto(t, "answered")
    /\ UNCHANGED <<company, known, user, employee, role, who, split>>

AwardToken(t) ==
    /\ At(t, "company", "award")
    /\ setup' = IF setup.state = "creating_company" THEN [state |-> "awaiting_admin", company |-> t] ELSE setup
    /\ Goto(t, "answered")
    /\ UNCHANGED <<company, known, user, employee, role, who, split>>

-----------------------------------------------------------------------------
(* create_initial_employee.  The token was found valid before the claim;   *)
(* only the end of setup makes it invalid.                                 *)

(* Mutant: the claim does not ask for the state it leaves. *)
ClaimAnyAdmin(t) ==
    /\ At(t, "admin", "claim")
    /\ IF setup.state # "complete"
          THEN setup' = [setup EXCEPT !.state = "creating_admin"] /\ Goto(t, "check")
          ELSE End(t) /\ UNCHANGED setup
    /\ UNCHANGED <<company, known, user, employee, role, who, split>>

ClaimAdmin(t) ==
    /\ At(t, "admin", "claim")
    /\ IF setup.state = "awaiting_admin"
          THEN setup' = [setup EXCEPT !.state = "creating_admin"] /\ Goto(t, "check")
          ELSE End(t) /\ UNCHANGED setup
    /\ UNCHANGED <<company, known, user, employee, role, who, split>>

CheckUsers(t) ==
    /\ At(t, "admin", "check")
    /\ Goto(t, IF \E u \in User : user[u] # NoUser THEN "release" ELSE "user")
    /\ UNCHANGED <<setupVars, known, user, employee, role, who, split>>

(* The form has neither role nor status: both are set here. *)
AdminForm(f) == [f EXCEPT !.role = System, !.status = "active"]

InsertAdmin(t) ==
    /\ At(t, "admin", "user")
    /\ LET u == call[t].on  f == call[t].form IN
        IF NameTaken(u, f.name)
        THEN Goto(t, "release") /\ UNCHANGED user
        ELSE user' = [user EXCEPT ![u] = Account("setup", AdminForm(f))] /\ Goto(t, "employee")
    /\ UNCHANGED <<setupVars, known, employee, role, who, split>>

InsertAdminEmployee(t) ==
    /\ At(t, "admin", "employee")
    /\ LET u == call[t].on  f == call[t].form IN
        IF EmployeeTaken(u, f)
        THEN Goto(t, "undo") /\ UNCHANGED employee
        ELSE employee' = [employee EXCEPT ![u] = Employee(AdminForm(f))] /\ Goto(t, "finish")
    /\ UNCHANGED <<setupVars, known, user, role, who, split>>

(* Mutant: an employee that cannot be inserted is not noticed. *)
FailsUnnoticed(t) ==
    /\ \/ At(t, "admin", "user") /\ Goto(t, "release")
       \/ At(t, "admin", "employee") /\ Goto(t, "finish")
    /\ UNCHANGED <<setupVars, known, user, employee, role, who, split>>

AdminFails(t) ==
    /\ \/ At(t, "admin", "user") /\ Goto(t, "release")
       \/ At(t, "admin", "employee") /\ Goto(t, "undo")
    /\ UNCHANGED <<setupVars, known, user, employee, role, who, split>>

UndoAdmin(t) ==
    /\ At(t, "admin", "undo")
    /\ user' = [user EXCEPT ![call[t].on] = NoUser]
    /\ Goto(t, "release")
    /\ UNCHANGED <<setupVars, known, employee, role, who, split>>

ReleaseAdmin(t) ==
    /\ At(t, "admin", "release")
    /\ setup' = IF setup.state = "creating_admin" THEN [setup EXCEPT !.state = "awaiting_admin"] ELSE setup
    /\ End(t)
    /\ UNCHANGED <<company, known, user, employee, role, who, split>>

FinishSetup(t) ==
    /\ At(t, "admin", "finish")
    /\ setup' = IF setup.state = "creating_admin" THEN [setup EXCEPT !.state = "complete"] ELSE setup
    /\ Goto(t, "answered")
    /\ UNCHANGED <<company, known, user, employee, role, who, split>>

SetupStep(t) ==
    \/ ReadSetup(t)
    \/ ClaimSetup(t) \/ InsertCompany(t) \/ InsertCompanyFails(t) \/ ReleaseSetup(t) \/ AwardToken(t)
    \/ ClaimAdmin(t) \/ CheckUsers(t) \/ InsertAdmin(t) \/ InsertAdminEmployee(t)
    \/ AdminFails(t) \/ UndoAdmin(t) \/ ReleaseAdmin(t) \/ FinishSetup(t)
=============================================================================
