--------------------------- MODULE Administration ----------------------------
(***************************************************************************)
(* A company is set up and run from tabs of browsers: the wizard           *)
(* (frontend/src/pages/InitialSetupPages.tsx over features/setup), the     *)
(* sign-in page, and the pages for employees, roles, branches and          *)
(* locations, over the services they call.                                 *)
(***************************************************************************)
EXTENDS InitialSetup, EmployeeAccounts, Facilities, Navigation

CONSTANTS
    Browser,
    Of,         \* the browser a tab belongs to
    Together    \* bound: if FALSE, the wizard has ended everywhere before staff or
                \* facilities change, and one behaviour changes one of the two

ASSUME AdministrationAssumption ==
    Of \in [Tab -> Browser] /\ Together \in BOOLEAN

VARIABLES
    page,       \* the page a tab shows; "app" is every page behind the sign-in
    stored      \* setupStorage: the setup session in each browser's localStorage

clientVars == <<page, stored>>

vars == <<directoryVars, setupVars, known, facilityVars, clientVars>>

Init ==
    /\ DirectoryInit /\ SetupInit /\ FacilityInit
    /\ page = [t \in Tab |-> "start"]
    /\ stored = [b \in Browser |-> None]

-----------------------------------------------------------------------------
(* Where a page leads on to, given the setup status the provider has. *)
Redirected(p, status, account) ==
    IF p \in {"start", "app"} /\ account # None THEN "app"
    ELSE IF p \in {"start", "app"} /\ status # None THEN status
    ELSE IF p = "app" THEN "start"
    ELSE IF p = "login" /\ status \in {"company", "employee"} THEN status
    ELSE p

(* A page is loaded: the provider asks for the setup status.  The pages    *)
(* behind the sign-in do not read it.  A page of the wizard that is loaded *)
(* by its address is one that was opened earlier.                          *)
Open(t, p) ==
    /\ Idle(t) /\ who[t] = None
    /\ Together \/ ~(known[t] = "login" /\ setup.state = "complete")
    /\ page' = [page EXCEPT ![t] = Redirected(p, None, who[t])]
    /\ known' = [known EXCEPT ![t] = None]
    /\ call' = [call EXCEPT ![t] = Call("status", "setup", None, None)]
    /\ UNCHANGED <<setupVars, user, employee, role, who, split, facilityVars, stored>>

(* The wizard's first step goes on to the second once its refresh ended,   *)
(* however it ended.                                                       *)
Onward(t) == IF call[t].on = None THEN page[t] ELSE call[t].on

StatusAnswered(t) ==
    /\ call[t].op = "status" /\ call[t].pc \in {"company", "due"}
    /\ LET status == StatusStep(call[t].pc) IN
        /\ known' = [known EXCEPT ![t] = status]
        /\ page' = [page EXCEPT ![t] = Redirected(Onward(t), status, who[t])]
    /\ End(t)
    /\ UNCHANGED <<setupVars, user, employee, role, who, split, facilityVars, stored>>

StatusFailed(t) ==
    /\ call[t].op = "status"
    /\ known' = [known EXCEPT ![t] = None]
    /\ page' = [page EXCEPT ![t] = Onward(t)]
    /\ End(t)
    /\ UNCHANGED <<setupVars, user, employee, role, who, split, facilityVars, stored>>

-----------------------------------------------------------------------------
(* The wizard *)

(* The first read of create_initial_company goes with the submission. *)
SubmitCompany(t) ==
    /\ page[t] = "company" /\ Idle(t)
    /\ company = {}
    /\ call' = [call EXCEPT ![t] = Call("company", "claim", None, None)]
    /\ UNCHANGED <<setupVars, known, user, employee, role, who, split, facilityVars, clientVars>>

CompanyCreated(t) ==
    /\ At(t, "company", "answered")
    /\ stored' = [stored EXCEPT ![Of[t]] = t]
    /\ call' = [call EXCEPT ![t] = Call("status", "setup", "employee", None)]
    /\ UNCHANGED <<setupVars, known, user, employee, role, who, split, facilityVars, page>>

(* The first check of create_initial_employee is that of the token, which  *)
(* is removed when setup is complete.                                      *)
SubmitEmployee(t, u, f) ==
    /\ page[t] = "employee" /\ Idle(t)
    /\ stored[Of[t]] # None
    /\ stored[Of[t]] = setup.company /\ setup.state # "complete"
    /\ Fresh(u)
    /\ call' = [call EXCEPT ![t] = Call("admin", "claim", u, f)]
    /\ UNCHANGED <<setupVars, known, user, employee, role, who, split, facilityVars, clientVars>>

(* The provider is not asked to refresh: the page that follows is chosen   *)
(* by the status it had.                                                   *)
EmployeeCreated(t) ==
    /\ At(t, "admin", "answered")
    /\ stored' = [stored EXCEPT ![Of[t]] = None]
    /\ page' = [page EXCEPT ![t] = Redirected("login", known[t], who[t])]
    /\ End(t)
    /\ UNCHANGED <<setupVars, known, user, employee, role, who, split, facilityVars>>

(* An answer that does not arrive: the page shows an error and stays. *)
AnswerLost(t) ==
    /\ call[t].pc = "answered"
    /\ End(t)
    /\ UNCHANGED <<setupVars, known, user, employee, role, who, split, facilityVars, clientVars>>

-----------------------------------------------------------------------------
(* The session, as AuthContext keeps it *)

SignIn(t, u) ==
    /\ page[t] = "login" /\ known[t] # None /\ Idle(t)
    /\ user[u].status = "active"
    /\ who' = [who EXCEPT ![t] = u]
    /\ page' = [page EXCEPT ![t] = "app"]
    /\ UNCHANGED <<user, employee, role, call, split, setupVars, known, facilityVars, stored>>

SignUp(t, u, name) ==
    /\ page[t] = "login" /\ known[t] # None
    /\ company # {}
    /\ Register(t, u, name)
    /\ page' = [page EXCEPT ![t] = "app"]
    /\ UNCHANGED <<setupVars, known, facilityVars, stored>>

(* signOut, by the user or because the session has ended. *)
SignOut(t) ==
    /\ Idle(t) /\ who[t] # None
    /\ who' = [who EXCEPT ![t] = None]
    /\ page' = [page EXCEPT ![t] = Redirected("app", known[t], None)]
    /\ UNCHANGED <<user, employee, role, call, split, setupVars, known, facilityVars, stored>>

-----------------------------------------------------------------------------
(* The pages behind the sign-in.  A page is visited from the menu; its     *)
(* buttons are there for who has the permission.  The profile they consult *)
(* may be older than the account the server consults: it can only keep     *)
(* from calling somebody the server would have served.                     *)

Super(t) == who[t] # None /\ IsSuper(who[t])

Visits(t, s) ==
    /\ page[t] = "app" /\ who[t] # None /\ Idle(t)
    /\ CanView(Super(t), Permissions(who[t]), s) /\ Admits(Super(t), Permissions(who[t]), s)

Shown(t, key) == Gate(Super(t), Permissions(who[t]), key)

(* Staff and facilities have nothing in common but who may change them. *)
WizardEnded ==
    \A t \in Tab : known[t] = "login" /\ call[t].op \notin {"status", "company", "admin"}

NoFacilities == \A x \in Branch : branch[x] = "none"

NoStaff == \A u \in User, r \in Role \ {System} : user[u].by \in {"setup", "none"} /\ role[r] = NoRole

(* What the dialogs save: a new document, or the one they were opened for. *)
EmployeeFormDialog(t) ==
    \E u \in User, f \in Form :
        \/ Shown(t, "employee:save") /\ CreateEmployee(t, u, f)
        \/ Shown(t, "employee:edit") /\ UpdateEmployee(t, u, f)

EmployeesPage(t) ==
    /\ Together \/ (WizardEnded /\ NoFacilities)
    /\ Visits(t, "employees")
    /\ \/ EmployeeFormDialog(t)
       \/ \E u \in User : Shown(t, "employee:delete") /\ DeactivateEmployee(t, u)

RoleFormDialog(t) ==
    \E p \in Grantable :
        \/ \E r \in Role \ {System} : CreateRole(t, r, p)
        \/ \E r \in Role : UpdateRole(t, r, p)

RolesPage(t) ==
    /\ Together \/ (WizardEnded /\ NoFacilities)
    /\ Visits(t, "roles")
    /\ RoleFormDialog(t) \/ \E r \in Role \ {System} : DeleteRole(t, r)

BranchManager(t) == \E x \in Branch : CreateBranch(t, x) \/ CloseBranch(t, x)

LocationManager(t) == \E l \in Location : CreateLocation(t, l) \/ CloseLocation(t, l)

CompanyPage(t) ==
    /\ Together \/ (WizardEnded /\ NoStaff)
    /\ Visits(t, "companies")
    /\ BranchManager(t) \/ LocationManager(t)

ClientStep(t) ==
    \/ \E p \in {"start", "login"} : Open(t, p)
    \/ StatusAnswered(t) \/ StatusFailed(t)
    \/ SubmitCompany(t) \/ CompanyCreated(t) \/ EmployeeCreated(t) \/ AnswerLost(t)
    \/ \E u \in User : SignIn(t, u)
    \/ \E u \in User, f \in Form : SubmitEmployee(t, u, f) \/ SignUp(t, u, f.name)
    \/ SignOut(t)

Next ==
    \E t \in Tab :
        \/ SetupStep(t) /\ UNCHANGED <<facilityVars, clientVars>>
        \/ ClientStep(t)
        \/ EmployeesPage(t) /\ UNCHANGED <<setupVars, known, facilityVars, clientVars>>
        \/ RolesPage(t) /\ UNCHANGED <<setupVars, known, facilityVars, clientVars>>
        \/ CompanyPage(t) /\ UNCHANGED <<setupVars, known, clientVars>>
        \/ StaffStep(t) /\ UNCHANGED <<setupVars, known, facilityVars, clientVars>>
        \/ FacilityStep(t) /\ UNCHANGED <<setupVars, known, clientVars>>
        \/ Stopped(t) /\ UNCHANGED <<setupVars, known, facilityVars, clientVars>>

Spec == Init /\ [][Next]_vars

-----------------------------------------------------------------------------
(* Documents, calls and pages hold values of the types the code gives      *)
(* them; an assigned role, and the name of an account, exist.              *)
TypeOK ==
    /\ DirectoryTypeOK /\ SetupTypeOK /\ FacilityTypeOK
    /\ page \in [Tab -> {"start", "company", "employee", "login", "app"}]
    /\ stored \in [Browser -> Tab \cup {None}]

(* The first company and its administrator are created exactly once,       *)
(* whoever tries, whatever is refused, fails or stops half-way.            *)
OneCompany == \A c, d \in company : c = d

OneAdministrator == \A u, v \in User : IsSuper(u) /\ IsSuper(v) => u = v

SetUpOnce == OneCompany /\ OneAdministrator

(* Setup that says it is complete has left an administrator whose employee *)
(* exists: no failure on the way passes for the end.                       *)
CompleteHasAdministrator ==
    setup.state = "complete" => \E u \in User : IsSuper(u) /\ employee[u] # NoEmployee

(* A setup session a browser has stored is the one that setup waits for,   *)
(* or has ended with.                                                      *)
SessionHonoured == \A b \in Browser : stored[b] \in {None, setup.company}

(* Calls on an account or its employee that have not ended. *)
Quiet(u) == \A t \in Tab : call[t].on # u

(* An account that an administrator or setup made has its employee, unless *)
(* its call is under way or stopped half-way: what a refused creation has  *)
(* inserted is taken back.                                                 *)
NoOrphans ==
    \A u \in User :
        user[u].by \in {"setup", "staff"} /\ Quiet(u) /\ u \notin split => employee[u] # NoEmployee

(* The account agrees with the employee on who may log in, in which role   *)
(* and by which name, unless calls overlapped, stopped or were refused     *)
(* between their two writes.                                               *)
AccountFollowsEmployee ==
    \A u \in User :
        employee[u] # NoEmployee /\ Quiet(u) /\ u \notin split =>
            /\ user[u].status = AccountStatus(employee[u].status)
            /\ user[u].role = employee[u].role
            /\ user[u].name = employee[u].name

(* Who has left stays out, unless calls on the employee overlapped or one  *)
(* was cut short: an employee that was deactivated is not changed again,   *)
(* and the account is not let back in.  The exception is real: an update   *)
(* that found the employee before the deactivation writes after it, and    *)
(* brings back the employee or the account.  Once no call on the employee  *)
(* is under way, nothing changes either document any more, whatever calls  *)
(* overlapped before.                                                      *)
LeftForGood ==
    [][\A u \in User :
        employee[u].status = "inactive" =>
            /\ u \notin split => employee'[u] = employee[u] /\ user'[u].status = "disabled"
            /\ Quiet(u) => employee'[u] = employee[u] /\ user'[u] = user[u]]_vars

(* A branch that closed has no open location, once its call has ended.     *)
LocationsCloseWithBranch ==
    \A l \in Location :
        location[l] = "active" /\ Quiet(Within[l]) /\ Within[l] \notin split => branch[Within[l]] = "active"

(* An active account never has a deleted role, so that none loses its      *)
(* permissions unseen, unless the role was assigned while it was deleted.  *)
RoleInUse ==
    \A u \in User :
        user[u].status = "active" /\ user[u].role \notin split => role[user[u].role].status = "active"

(* What the menu shows can be opened, and what opens is served.            *)
PagesServed ==
    \A t \in Tab :
        who[t] # None => \A s \in Screen :
            CanView(Super(t), Permissions(who[t]), s) =>
                Admits(Super(t), Permissions(who[t]), s) /\ Serves(Super(t), Permissions(who[t]), s)
=============================================================================
