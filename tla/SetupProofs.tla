---------------------------- MODULE SetupProofs -----------------------------
(***************************************************************************)
(* Initial setup happens once and leaves no account behind, and a page     *)
(* that is shown is served, for any number of tabs, browsers, accounts,    *)
(* forms, roles, branches and locations.                                   *)
(***************************************************************************)
EXTENDS Administration, TLAPS

Op == {"none", "status", "company", "admin", "create", "update", "deactivate",
       "delete_role", "close_branch", "create_location"}

Pc == {"idle", "setup", "company", "due", "claim", "insert", "release", "award", "answered",
       "check", "user", "employee", "undo", "finish", "role", "sweep"}

Thing == User \cup Role \cup Branch \cup Location \cup {None, "employee"}

CallDoc == [op : Op, pc : Pc, on : Thing, form : Form \cup {None}]

Name == {f.name : f \in Form} \cup {None}

UserDoc ==
    [status : {"none", "active", "disabled"}, by : {"none", "setup", "staff", "register"},
     role : Role \cup {None}, name : Name]

EmployeeDoc ==
    [status : Status \cup {"none"}, role : Role \cup {None}, name : Name,
     number : {f.number : f \in Form} \cup {None}]

SetupDoc ==
    [state : {"absent", "creating_company", "awaiting_admin", "creating_admin", "complete"},
     company : Tab \cup {None}]

(* The types, with what a call on an account is about. *)
Typed ==
    /\ call \in [Tab -> CallDoc]
    /\ \A t \in Tab :
        /\ call[t].op \in {"admin", "create", "update", "deactivate"} => call[t].on \in User
        /\ call[t].op \in {"admin", "create", "update"} => call[t].form \in Form
    /\ user \in [User -> UserDoc]
    /\ employee \in [User -> EmployeeDoc]
    /\ setup \in SetupDoc
    /\ stored \in [Browser -> Tab \cup {None}]

(* A tab between its claim of the setup document and its release of it. *)
MakesCompany(t) == call[t].op = "company" /\ call[t].pc \in {"insert", "release", "award"}

MakesAdmin(t) ==
    call[t].op = "admin" /\ call[t].pc \in {"check", "user", "employee", "undo", "release", "finish"}

Awarded == setup.state \in {"awaiting_admin", "creating_admin", "complete"}

(* The claim of the document excludes every other tab, and is given back   *)
(* only while there is no company.                                         *)
CompanyInv ==
    /\ \A s, t \in Tab : MakesCompany(s) /\ MakesCompany(t) => s = t
    /\ \A t \in Tab : MakesCompany(t) => setup.state = "creating_company"
    /\ \A t \in Tab : MakesCompany(t) /\ call[t].pc # "award" => company = {}
    /\ setup.state = "absent" => company = {}
    /\ OneCompany

(* The session a tab is told of, and a browser stores, stays the one of    *)
(* the setup document.                                                     *)
SessionInv ==
    /\ \A t \in Tab : At(t, "company", "answered") => Awarded /\ setup.company = t
    /\ \A b \in Browser : stored[b] # None => Awarded /\ stored[b] = setup.company

NoAdministrator == \A u \in User : ~IsSuper(u)

(* The same for the administrator, who is given up before the claim is. *)
AdminInv ==
    /\ \A s, t \in Tab : MakesAdmin(s) /\ MakesAdmin(t) => s = t
    /\ \A t \in Tab : MakesAdmin(t) => setup.state = "creating_admin"
    /\ \A t \in Tab : MakesAdmin(t) /\ call[t].pc \in {"check", "user", "release"} => NoAdministrator
    /\ \A t \in Tab : MakesAdmin(t) => \A u \in User : IsSuper(u) => u = call[t].on
    /\ setup.state \in {"absent", "creating_company", "awaiting_admin"} => NoAdministrator
    /\ OneAdministrator

Has(u) == employee[u] # NoEmployee

Creates(t) == call[t].op \in {"create", "admin"}

(* A tab has inserted an account and not its employee. *)
Between(t) == Creates(t) /\ call[t].pc \in {"employee", "undo"}

(* No two calls create one account; what a call may take back has no       *)
(* employee yet; an account without one has a call to answer for it.       *)
StaffInv ==
    /\ \A s, t \in Tab : Creates(s) /\ Creates(t) /\ call[s].on = call[t].on => s = t
    /\ \A t \in Tab : call[t].op \in {"update", "deactivate"} => Has(call[t].on)
    /\ \A u \in User : Has(u) => user[u].by # "none"
    /\ \A t \in Tab :
        /\ Creates(t) /\ call[t].pc \in {"claim", "check", "user", "employee", "undo"} => ~Has(call[t].on)
        /\ call[t].op = "create" /\ call[t].pc \in {"employee", "undo"} => user[call[t].on].by = "staff"
        /\ call[t].op = "admin" /\ call[t].pc \in {"employee", "undo", "finish"} => user[call[t].on].by = "setup"
        /\ At(t, "admin", "finish") => Has(call[t].on)
    /\ \A u \in User :
        user[u].by \in {"setup", "staff"} =>
            Has(u) \/ u \in split \/ \E t \in Tab : Between(t) /\ call[t].on = u
    /\ setup.state = "complete" => \E u \in User : IsSuper(u) /\ Has(u)

SetupInv == Typed /\ CompanyInv /\ SessionInv /\ AdminInv /\ StaffInv

-----------------------------------------------------------------------------
(* Initially nothing is set up, and nobody exists. *)
LEMMA InitSetupInv == Init => SetupInv
<1> SUFFICES ASSUME Init PROVE SetupInv
  OBVIOUS
<1> USE DEF Init, DirectoryInit, SetupInit, IsSuper
<1>1. /\ call = [t \in Tab |-> NoCall] /\ user = [u \in User |-> NoUser]
      /\ employee = [u \in User |-> NoEmployee] /\ setup = [state |-> "absent", company |-> None]
      /\ company = {} /\ stored = [b \in Browser |-> None]
  OBVIOUS
<1>2. Typed
  BY <1>1 DEF Typed, CallDoc, Op, Pc, Thing, UserDoc, EmployeeDoc, SetupDoc, Name, NoCall, NoUser, NoEmployee
<1>3. CompanyInv
  BY <1>1 DEF CompanyInv, MakesCompany, NoCall, OneCompany
<1>4. SessionInv
  BY <1>1 DEF SessionInv, At, NoCall
<1>5. AdminInv
  BY <1>1 DEF AdminInv, MakesAdmin, NoAdministrator, OneAdministrator, NoCall, NoUser
<1>6. StaffInv
  BY <1>1 DEF StaffInv, Creates, Between, Has, At, NoCall, NoUser
<1> QED BY <1>2, <1>3, <1>4, <1>5, <1>6 DEF SetupInv

-----------------------------------------------------------------------------
(* How a call ends, goes on and begins. *)
LEMMA CallEnded ==
    ASSUME Typed, NEW t \in Tab, End(t)
    PROVE  /\ call' \in [Tab -> CallDoc]
           /\ \A s \in Tab \ {t} : call'[s] = call[s]
           /\ call'[t].op = "none" /\ call'[t].pc = "idle"
BY DEF Typed, End, NoCall, CallDoc, Op, Pc, Thing

LEMMA CallGone ==
    ASSUME Typed, NEW t \in Tab, NEW pc \in Pc, Goto(t, pc)
    PROVE  /\ call' \in [Tab -> CallDoc]
           /\ \A s \in Tab \ {t} : call'[s] = call[s]
           /\ call'[t].op = call[t].op /\ call'[t].pc = pc
           /\ call'[t].on = call[t].on /\ call'[t].form = call[t].form
BY DEF Typed, Goto, CallDoc

LEMMA CallBegun ==
    ASSUME Typed, NEW t \in Tab, NEW op \in Op, NEW pc \in Pc, NEW on \in Thing, NEW f \in Form \cup {None},
           call' = [call EXCEPT ![t] = Call(op, pc, on, f)]
    PROVE  /\ call' \in [Tab -> CallDoc]
           /\ \A s \in Tab \ {t} : call'[s] = call[s]
           /\ call'[t].op = op /\ call'[t].pc = pc /\ call'[t].on = on /\ call'[t].form = f
BY DEF Typed, Call, CallDoc

-----------------------------------------------------------------------------
(* A call that ends without a write leaves nothing to answer for, unless   *)
(* it is stopped half-way.                                                 *)
LEMMA EndedSetupInv ==
    ASSUME SetupInv, NEW t \in Tab, End(t), split \subseteq split',
           Between(t) => call[t].on \in split',
           UNCHANGED <<user, employee, setupVars>>,
           stored' \in [Browser -> Tab \cup {None}],
           \A b \in Browser : stored'[b] \in {stored[b], None}
    PROVE  SetupInv'
<1> USE DEF SetupInv, setupVars
<1>1. /\ call' \in [Tab -> CallDoc]
      /\ \A s \in Tab \ {t} : call'[s] = call[s]
      /\ call'[t].op = "none" /\ call'[t].pc = "idle"
  BY CallEnded
<1>2. Typed'
  BY <1>1 DEF Typed
<1>3. CompanyInv'
  BY <1>1 DEF CompanyInv, MakesCompany, OneCompany
<1>4. SessionInv'
  BY <1>1 DEF SessionInv, Awarded, At
<1>5. AdminInv'
  BY <1>1 DEF AdminInv, MakesAdmin, NoAdministrator, OneAdministrator, IsSuper
<1>6. StaffInv'
  BY <1>1 DEF StaffInv, Creates, Between, Has, At, IsSuper
<1> QED BY <1>2, <1>3, <1>4, <1>5, <1>6

(* A call of no concern here: it names nothing that is being created. *)
Aside(op) == op \in {"status", "delete_role", "close_branch", "create_location"}

(* A call begins, before any claim and any write. *)
LEMMA BegunSetupInv ==
    ASSUME SetupInv, NEW t \in Tab, NEW op \in Op, NEW pc \in Pc, NEW on \in Thing, NEW f \in Form \cup {None},
           call' = [call EXCEPT ![t] = Call(op, pc, on, f)],
           ~Between(t), split \subseteq split',
           UNCHANGED <<user, employee, setupVars>>,
           stored' \in [Browser -> Tab \cup {None}],
           \A b \in Browser : stored'[b] = stored[b] \/ (stored'[b] = t /\ Awarded /\ setup.company = t),
           \/ Aside(op)
           \/ op = "company" /\ pc = "claim"
           \/ op = "admin" /\ pc = "claim" /\ on \in User /\ f \in Form /\ Fresh(on)
           \/ op = "create" /\ pc = "user" /\ on \in User /\ f \in Form /\ Fresh(on)
           \/ op = "update" /\ on \in User /\ f \in Form /\ Has(on)
           \/ op = "deactivate" /\ on \in User /\ Has(on)
    PROVE  SetupInv'
<1> USE DEF SetupInv, setupVars
<1>1. /\ call' \in [Tab -> CallDoc]
      /\ \A s \in Tab \ {t} : call'[s] = call[s]
      /\ call'[t].op = op /\ call'[t].pc = pc /\ call'[t].on = on /\ call'[t].form = f
  BY CallBegun
<1>2. Typed'
  BY <1>1 DEF Typed, Aside
<1>3. CompanyInv'
  BY <1>1 DEF CompanyInv, MakesCompany, OneCompany, Aside
<1>4. SessionInv'
  BY <1>1 DEF SessionInv, Awarded, At, Aside
<1>5. AdminInv'
  BY <1>1 DEF AdminInv, MakesAdmin, NoAdministrator, OneAdministrator, IsSuper, Aside
<1>6. StaffInv'
  <2>1. on \in User /\ Fresh(on) => ~Has(on) /\ \A s \in Tab : call[s].on # on
    BY DEF StaffInv, Fresh, NoUser
  <2> QED BY <1>1, <2>1 DEF StaffInv, Creates, Between, Has, At, IsSuper, Aside
<1> QED BY <1>2, <1>3, <1>4, <1>5, <1>6

(* A call goes on, without a write, to take back what it did. *)
LEMMA GoneSetupInv ==
    ASSUME SetupInv, NEW t \in Tab, NEW pc \in Pc, Goto(t, pc),
           UNCHANGED <<user, employee, setupVars, stored, split>>,
           \/ call[t].op = "status"
           \/ call[t].op = "company" /\ call[t].pc = "insert" /\ pc = "release"
           \/ call[t].op = "admin" /\ call[t].pc = "check" /\ pc \in {"release", "user"}
           \/ call[t].op = "admin" /\ call[t].pc = "user" /\ pc = "release"
           \/ Creates(t) /\ call[t].pc = "employee" /\ pc = "undo"
    PROVE  SetupInv'
<1> USE DEF SetupInv, setupVars
<1>1. /\ call' \in [Tab -> CallDoc]
      /\ \A s \in Tab \ {t} : call'[s] = call[s]
      /\ call'[t].op = call[t].op /\ call'[t].pc = pc
      /\ call'[t].on = call[t].on /\ call'[t].form = call[t].form
  BY CallGone
<1>2. Typed'
  BY <1>1 DEF Typed
<1>3. CompanyInv'
  BY <1>1 DEF CompanyInv, MakesCompany, OneCompany, Creates
<1>4. SessionInv'
  BY <1>1 DEF SessionInv, Awarded, At, Creates
<1>5. AdminInv'
  BY <1>1 DEF AdminInv, MakesAdmin, NoAdministrator, OneAdministrator, IsSuper, Creates
<1>6. StaffInv'
  BY <1>1 DEF StaffInv, Creates, Between, Has, At, IsSuper
<1> QED BY <1>2, <1>3, <1>4, <1>5, <1>6

-----------------------------------------------------------------------------
(* The company's creation, once the document is claimed. *)
LEMMA CompanySetupInv ==
    ASSUME SetupInv, NEW t \in Tab, UNCHANGED stored,
           ClaimSetup(t) \/ InsertCompany(t) \/ InsertCompanyFails(t) \/ ReleaseSetup(t) \/ AwardToken(t)
    PROVE  SetupInv'
<1> USE DEF SetupInv
<1>a. UNCHANGED <<user, employee, split>>
  BY DEF ClaimSetup, InsertCompany, InsertCompanyFails, ReleaseSetup, AwardToken
<1>b. ASSUME \A s \in Tab \ {t} : call'[s] = call[s], call[t].op = "company", call'[t].op \in {"none", "company"},
             \/ setup' = setup
             \/ setup.state \in {"absent", "creating_company"} /\ setup'.state \in {"absent", "creating_company", "awaiting_admin"}
      PROVE  AdminInv' /\ StaffInv'
  <2>1. AdminInv'
    BY <1>a, <1>b DEF AdminInv, MakesAdmin, NoAdministrator, OneAdministrator, IsSuper
  <2>2. StaffInv'
    BY <1>a, <1>b DEF StaffInv, Creates, Between, Has, At, IsSuper
  <2> QED BY <2>1, <2>2
<1>1. CASE ClaimSetup(t) /\ setup.state # "absent"
  BY <1>1, EndedSetupInv DEF ClaimSetup, At, Between, Creates, setupVars, Typed
<1>2. CASE ClaimSetup(t) /\ setup.state = "absent"
  <2>1. /\ call' \in [Tab -> CallDoc] /\ \A s \in Tab \ {t} : call'[s] = call[s]
        /\ call[t].op = "company" /\ call'[t].op = "company" /\ call'[t].pc = "insert"
    BY <1>2, CallGone DEF ClaimSetup, At, Pc
  <2>2. setup' = [state |-> "creating_company", company |-> None] /\ UNCHANGED company
    BY <1>2 DEF ClaimSetup
  <2>3. Typed'
    BY <1>a, <2>1, <2>2 DEF Typed, SetupDoc
  <2>4. CompanyInv'
    BY <1>2, <2>1, <2>2 DEF CompanyInv, MakesCompany, OneCompany
  <2>5. SessionInv'
    BY <1>2, <2>1, <2>2 DEF SessionInv, Awarded, At
  <2> QED BY <1>2, <1>b, <2>1, <2>2, <2>3, <2>4, <2>5
<1>3. CASE InsertCompany(t)
  <2>1. /\ call' \in [Tab -> CallDoc] /\ \A s \in Tab \ {t} : call'[s] = call[s]
        /\ call[t].op = "company" /\ call[t].pc = "insert" /\ call'[t].op = "company" /\ call'[t].pc = "award"
    BY <1>3, CallGone DEF InsertCompany, At, Pc
  <2>2. company' = company \cup {t} /\ UNCHANGED setup
    BY <1>3 DEF InsertCompany
  <2>3. Typed'
    BY <1>a, <2>1, <2>2 DEF Typed
  <2>4. CompanyInv'
    BY <2>1, <2>2 DEF CompanyInv, MakesCompany, OneCompany
  <2>5. SessionInv'
    BY <2>1, <2>2 DEF SessionInv, Awarded, At
  <2> QED BY <1>b, <2>1, <2>2, <2>3, <2>4, <2>5
<1>4. CASE InsertCompanyFails(t)
  BY <1>4, GoneSetupInv DEF InsertCompanyFails, At, Pc
<1>5. CASE ReleaseSetup(t)
  <2>1. /\ call' \in [Tab -> CallDoc] /\ \A s \in Tab \ {t} : call'[s] = call[s]
        /\ call[t].op = "company" /\ call[t].pc = "release" /\ call'[t].op = "none"
    BY <1>5, CallEnded DEF ReleaseSetup, At
  <2>2. setup.state = "creating_company" /\ company = {}
    BY <2>1 DEF CompanyInv, MakesCompany
  <2>3. setup' = [state |-> "absent", company |-> None] /\ UNCHANGED company
    BY <1>5, <2>2 DEF ReleaseSetup
  <2>4. Typed'
    BY <1>a, <2>1, <2>3 DEF Typed, SetupDoc
  <2>5. CompanyInv'
    BY <2>1, <2>2, <2>3 DEF CompanyInv, MakesCompany, OneCompany
  <2>6. SessionInv'
    BY <2>1, <2>2, <2>3 DEF SessionInv, Awarded, At
  <2> QED BY <1>b, <2>1, <2>2, <2>3, <2>4, <2>5, <2>6
<1>6. CASE AwardToken(t)
  <2>1. /\ call' \in [Tab -> CallDoc] /\ \A s \in Tab \ {t} : call'[s] = call[s]
        /\ call[t].op = "company" /\ call[t].pc = "award" /\ call'[t].op = "company" /\ call'[t].pc = "answered"
    BY <1>6, CallGone DEF AwardToken, At, Pc
  <2>2. setup.state = "creating_company"
    BY <2>1 DEF CompanyInv, MakesCompany
  <2>3. setup' = [state |-> "awaiting_admin", company |-> t] /\ UNCHANGED company
    BY <1>6, <2>2 DEF AwardToken
  <2>4. Typed'
    BY <1>a, <2>1, <2>3 DEF Typed, SetupDoc
  <2>5. CompanyInv'
    BY <2>1, <2>2, <2>3 DEF CompanyInv, MakesCompany, OneCompany
  <2>6. SessionInv'
    BY <2>1, <2>2, <2>3 DEF SessionInv, Awarded, At
  <2> QED BY <1>b, <2>1, <2>2, <2>3, <2>4, <2>5, <2>6
<1> QED BY <1>1, <1>2, <1>3, <1>4, <1>5, <1>6

-----------------------------------------------------------------------------
(* Forms make documents of the types. *)
LEMMA DocTypes ==
    ASSUME NEW f \in Form, NEW by \in {"setup", "staff", "register", "none"}
    PROVE  /\ f.role \in Role /\ f.status \in Status /\ f.name \in Name
           /\ Account(by, f) \in UserDoc /\ Account(by, f).by = by
           /\ Account(by, AdminForm(f)) \in UserDoc /\ Account(by, AdminForm(f)).by = by
           /\ Employee(f) \in EmployeeDoc /\ Employee(f) # NoEmployee
           /\ Employee(AdminForm(f)) \in EmployeeDoc /\ Employee(AdminForm(f)) # NoEmployee
<1>1. /\ f.role \in Role /\ f.status \in Status /\ f.name \in Name
      /\ f = [role |-> f.role, status |-> f.status, name |-> f.name, number |-> f.number]
  BY DirectoryAssumption DEF Name
<1>2. /\ AdminForm(f).role = System /\ AdminForm(f).status = "active"
      /\ AdminForm(f).name = f.name /\ AdminForm(f).number = f.number
  BY <1>1 DEF AdminForm
<1>3. Account(by, f) \in UserDoc /\ Account(by, f).by = by
  BY <1>1 DEF Account, AccountStatus, UserDoc
<1>4. Account(by, AdminForm(f)) \in UserDoc /\ Account(by, AdminForm(f)).by = by
  BY <1>1, <1>2, DirectoryAssumption DEF Account, AccountStatus, UserDoc
<1>5. Employee(f) \in EmployeeDoc /\ Employee(f) # NoEmployee
  BY <1>1 DEF Employee, EmployeeDoc, NoEmployee, Status
<1>6. Employee(AdminForm(f)) \in EmployeeDoc /\ Employee(AdminForm(f)) # NoEmployee
  BY <1>1, <1>2, DirectoryAssumption DEF Employee, EmployeeDoc, NoEmployee, Status
<1> QED BY <1>1, <1>3, <1>4, <1>5, <1>6

(* The administrator's creation, once the document is claimed, changes     *)
(* neither the companies nor the session.                                  *)
LEMMA AdminKeepsCompany ==
    ASSUME SetupInv, NEW t \in Tab, UNCHANGED <<stored, company>>,
           call[t].op = "admin", call'[t].op \in {"none", "admin"}, \A s \in Tab \ {t} : call'[s] = call[s],
           \/ UNCHANGED setup
           \/ /\ setup.state \in {"awaiting_admin", "creating_admin"}
              /\ setup'.state \in {"awaiting_admin", "creating_admin", "complete"}
              /\ setup'.company = setup.company
    PROVE  CompanyInv' /\ SessionInv'
<1>1. CompanyInv'
  BY DEF SetupInv, CompanyInv, MakesCompany, OneCompany
<1>2. SessionInv'
  BY DEF SetupInv, SessionInv, Awarded, At
<1> QED BY <1>1, <1>2

(* The administrator's creation. *)
LEMMA AdminSetupInv ==
    ASSUME SetupInv, NEW t \in Tab, UNCHANGED stored,
           \/ ClaimAdmin(t) \/ CheckUsers(t) \/ InsertAdmin(t) \/ InsertAdminEmployee(t)
           \/ AdminFails(t) \/ UndoAdmin(t) \/ ReleaseAdmin(t) \/ FinishSetup(t)
    PROVE  SetupInv'
<1> USE DEF SetupInv
<1> DEFINE u == call[t].on  f == call[t].form
<1>a. call[t].op = "admin" /\ u \in User /\ f \in Form
  BY DEF Typed, ClaimAdmin, CheckUsers, InsertAdmin, InsertAdminEmployee, AdminFails, UndoAdmin, ReleaseAdmin, FinishSetup, At
<1>b. UNCHANGED <<company, split>>
  BY DEF ClaimAdmin, CheckUsers, InsertAdmin, InsertAdminEmployee, AdminFails, UndoAdmin, ReleaseAdmin, FinishSetup, setupVars
<1>1. CASE ClaimAdmin(t) /\ setup.state # "awaiting_admin"
  BY <1>1, <1>a, EndedSetupInv DEF ClaimAdmin, At, Between, setupVars, Typed
<1>2. CASE ClaimAdmin(t) /\ setup.state = "awaiting_admin"
  <2>1. /\ call' \in [Tab -> CallDoc] /\ \A s \in Tab \ {t} : call'[s] = call[s]
        /\ call[t].pc = "claim" /\ call'[t].op = "admin" /\ call'[t].pc = "check" /\ call'[t].on = u /\ call'[t].form = f
    BY <1>2, <1>a, CallGone DEF ClaimAdmin, At, Pc
  <2>2. setup' = [setup EXCEPT !.state = "creating_admin"] /\ UNCHANGED <<user, employee>>
    BY <1>2 DEF ClaimAdmin
  <2>3. setup' \in SetupDoc /\ setup'.state = "creating_admin" /\ setup'.company = setup.company
    BY <2>2 DEF Typed, SetupDoc
  <2>4. Typed'
    BY <1>a, <2>1, <2>2, <2>3 DEF Typed
  <2>5. AdminInv'
    BY <1>2, <2>1, <2>2, <2>3 DEF AdminInv, MakesAdmin, NoAdministrator, OneAdministrator, IsSuper
  <2>6. StaffInv'
    BY <1>a, <1>b, <2>1, <2>2, <2>3 DEF StaffInv, Creates, Between, Has, At, IsSuper
  <2> QED BY <1>2, <1>a, <1>b, <2>1, <2>3, <2>4, <2>5, <2>6, AdminKeepsCompany
<1>3. CASE CheckUsers(t)
  BY <1>3, <1>a, GoneSetupInv DEF CheckUsers, At, Pc
<1>4. CASE InsertAdmin(t) /\ NameTaken(u, f.name)
  BY <1>4, <1>a, GoneSetupInv DEF InsertAdmin, At, Pc, setupVars
<1>5. CASE InsertAdmin(t) /\ ~NameTaken(u, f.name)
  <2>1. /\ call' \in [Tab -> CallDoc] /\ \A s \in Tab \ {t} : call'[s] = call[s]
        /\ call[t].pc = "user" /\ call'[t].op = "admin" /\ call'[t].pc = "employee" /\ call'[t].on = u /\ call'[t].form = f
    BY <1>5, <1>a, CallGone DEF InsertAdmin, At, Pc
  <2>2. user' = [user EXCEPT ![u] = Account("setup", AdminForm(f))] /\ UNCHANGED <<setup, employee>>
    BY <1>5 DEF InsertAdmin, setupVars
  <2>3. /\ user' \in [User -> UserDoc] /\ user'[u].by = "setup"
        /\ \A v \in User \ {u} : user'[v] = user[v]
    BY <1>a, <2>2, DocTypes DEF Typed
  <2>4. Typed'
    BY <1>a, <2>1, <2>2, <2>3 DEF Typed
  <2>5. AdminInv'
    BY <1>a, <2>1, <2>2, <2>3 DEF AdminInv, MakesAdmin, NoAdministrator, OneAdministrator, IsSuper
  <2>6. StaffInv'
    BY <1>a, <1>b, <2>1, <2>2, <2>3 DEF StaffInv, Creates, Between, Has, At, IsSuper, Typed
  <2> QED BY <1>a, <1>b, <2>1, <2>2, <2>4, <2>5, <2>6, AdminKeepsCompany
<1>6. CASE InsertAdminEmployee(t) /\ EmployeeTaken(u, f)
  BY <1>6, <1>a, GoneSetupInv DEF InsertAdminEmployee, At, Pc, setupVars, Creates
<1>7. CASE InsertAdminEmployee(t) /\ ~EmployeeTaken(u, f)
  <2>1. /\ call' \in [Tab -> CallDoc] /\ \A s \in Tab \ {t} : call'[s] = call[s]
        /\ call[t].pc = "employee" /\ call'[t].op = "admin" /\ call'[t].pc = "finish" /\ call'[t].on = u /\ call'[t].form = f
    BY <1>7, <1>a, CallGone DEF InsertAdminEmployee, At, Pc
  <2>2. employee' = [employee EXCEPT ![u] = Employee(AdminForm(f))] /\ UNCHANGED <<setup, user>>
    BY <1>7 DEF InsertAdminEmployee, setupVars
  <2>3. /\ employee' \in [User -> EmployeeDoc] /\ employee'[u] # NoEmployee
        /\ \A v \in User \ {u} : employee'[v] = employee[v]
    BY <1>a, <2>2, DocTypes DEF Typed
  <2>4. Typed'
    BY <1>a, <2>1, <2>2, <2>3 DEF Typed
  <2>5. AdminInv'
    BY <1>a, <2>1, <2>2 DEF AdminInv, MakesAdmin, NoAdministrator, OneAdministrator, IsSuper
  <2>6. StaffInv'
    BY <1>a, <1>b, <2>1, <2>2, <2>3 DEF StaffInv, Creates, Between, Has, At, IsSuper, Typed
  <2> QED BY <1>a, <1>b, <2>1, <2>2, <2>4, <2>5, <2>6, AdminKeepsCompany
<1>8. CASE AdminFails(t)
  BY <1>8, <1>a, GoneSetupInv DEF AdminFails, At, Pc, Creates
<1>9. CASE UndoAdmin(t)
  <2>1. /\ call' \in [Tab -> CallDoc] /\ \A s \in Tab \ {t} : call'[s] = call[s]
        /\ call[t].pc = "undo" /\ call'[t].op = "admin" /\ call'[t].pc = "release" /\ call'[t].on = u /\ call'[t].form = f
    BY <1>9, <1>a, CallGone DEF UndoAdmin, At, Pc
  <2>2. user' = [user EXCEPT ![u] = NoUser] /\ UNCHANGED <<setup, employee>>
    BY <1>9 DEF UndoAdmin, setupVars
  <2>3. /\ user' \in [User -> UserDoc] /\ user'[u].by = "none"
        /\ \A v \in User \ {u} : user'[v] = user[v]
    BY <1>a, <2>2 DEF Typed, NoUser, UserDoc, Name
  <2>4. Typed'
    BY <1>a, <2>1, <2>2, <2>3 DEF Typed
  <2>5. AdminInv'
    BY <1>a, <2>1, <2>2, <2>3 DEF AdminInv, MakesAdmin, NoAdministrator, OneAdministrator, IsSuper
  <2>6. StaffInv'
    BY <1>a, <1>b, <2>1, <2>2, <2>3 DEF StaffInv, Creates, Between, Has, At, IsSuper, Typed
  <2> QED BY <1>a, <1>b, <2>1, <2>2, <2>4, <2>5, <2>6, AdminKeepsCompany
<1>10. CASE ReleaseAdmin(t)
  <2>1. /\ call' \in [Tab -> CallDoc] /\ \A s \in Tab \ {t} : call'[s] = call[s]
        /\ call[t].pc = "release" /\ call'[t].op = "none"
    BY <1>10, CallEnded DEF ReleaseAdmin, At
  <2>2. setup.state = "creating_admin"
    BY <1>a, <2>1 DEF AdminInv, MakesAdmin
  <2>3. setup' = [setup EXCEPT !.state = "awaiting_admin"] /\ UNCHANGED <<user, employee>>
    BY <1>10, <2>2 DEF ReleaseAdmin
  <2>4. setup' \in SetupDoc /\ setup'.state = "awaiting_admin" /\ setup'.company = setup.company
    BY <2>3 DEF Typed, SetupDoc
  <2>5. Typed'
    BY <2>1, <2>3, <2>4 DEF Typed
  <2>6. AdminInv'
    BY <1>a, <2>1, <2>3, <2>4 DEF AdminInv, MakesAdmin, NoAdministrator, OneAdministrator, IsSuper
  <2>7. StaffInv'
    BY <1>b, <2>1, <2>3, <2>4 DEF StaffInv, Creates, Between, Has, At, IsSuper
  <2> QED BY <1>a, <1>b, <2>1, <2>2, <2>4, <2>5, <2>6, <2>7, AdminKeepsCompany
<1>11. CASE FinishSetup(t)
  <2>1. /\ call' \in [Tab -> CallDoc] /\ \A s \in Tab \ {t} : call'[s] = call[s]
        /\ call[t].pc = "finish" /\ call'[t].op = "admin" /\ call'[t].pc = "answered" /\ call'[t].on = u /\ call'[t].form = f
    BY <1>11, <1>a, CallGone DEF FinishSetup, At, Pc
  <2>2. setup.state = "creating_admin"
    BY <1>a, <2>1 DEF AdminInv, MakesAdmin
  <2>3. setup' = [setup EXCEPT !.state = "complete"] /\ UNCHANGED <<user, employee>>
    BY <1>11, <2>2 DEF FinishSetup
  <2>4. setup' \in SetupDoc /\ setup'.state = "complete" /\ setup'.company = setup.company
    BY <2>3 DEF Typed, SetupDoc
  <2>5. Typed'
    BY <1>a, <2>1, <2>3, <2>4 DEF Typed
  <2>6. AdminInv'
    BY <1>a, <2>1, <2>3, <2>4 DEF AdminInv, MakesAdmin, NoAdministrator, OneAdministrator, IsSuper
  <2>7. IsSuper(u) /\ Has(u)
    BY <1>a, <2>1 DEF StaffInv, At, IsSuper
  <2>8. StaffInv'
    BY <1>a, <1>b, <2>1, <2>3, <2>4, <2>7 DEF StaffInv, Creates, Between, Has, At, IsSuper
  <2> QED BY <1>a, <1>b, <2>1, <2>2, <2>4, <2>5, <2>6, <2>8, AdminKeepsCompany
<1> QED BY <1>1, <1>2, <1>3, <1>4, <1>5, <1>6, <1>7, <1>8, <1>9, <1>10, <1>11

-----------------------------------------------------------------------------
(* Staff, roles and facilities do not touch setup, and make no             *)
(* administrator.                                                          *)
LEMMA StaffKeepsSetup ==
    ASSUME SetupInv, NEW t \in Tab, UNCHANGED <<stored, setupVars>>,
           call[t].op \notin {"company", "admin"}, call'[t].op \notin {"company", "admin"},
           \A s \in Tab \ {t} : call'[s] = call[s],
           \A v \in User : user'[v].by # user[v].by => user'[v].by # "setup"
    PROVE  CompanyInv' /\ SessionInv' /\ AdminInv'
<1> USE DEF setupVars
<1>1. CompanyInv'
  BY DEF SetupInv, CompanyInv, MakesCompany, OneCompany
<1>2. SessionInv'
  BY DEF SetupInv, SessionInv, Awarded, At
<1>3. AdminInv'
  BY DEF SetupInv, AdminInv, MakesAdmin, NoAdministrator, OneAdministrator, IsSuper
<1> QED BY <1>1, <1>2, <1>3

(* Calls on staff and roles. *)
LEMMA StaffStepSetupInv ==
    ASSUME SetupInv, NEW t \in Tab, StaffStep(t), UNCHANGED <<stored, setupVars>>
    PROVE  SetupInv'
<1> USE DEF SetupInv
<1> DEFINE u == call[t].on  f == call[t].form
<1>a. call[t].op \in {"create", "update", "deactivate"} => u \in User
  BY DEF Typed
<1>b. call[t].op \in {"create", "update"} => f \in Form
  BY DEF Typed
<1>1. CASE InsertUser(t) /\ NameTaken(u, f.name)
  BY <1>1, EndedSetupInv DEF InsertUser, At, Between, Typed
<1>2. CASE InsertUser(t) /\ ~NameTaken(u, f.name)
  <2>1. /\ call' \in [Tab -> CallDoc] /\ \A s \in Tab \ {t} : call'[s] = call[s]
        /\ call[t].op = "create" /\ call[t].pc = "user"
        /\ call'[t].op = "create" /\ call'[t].pc = "employee" /\ call'[t].on = u /\ call'[t].form = f
    BY <1>2, CallGone DEF InsertUser, At, Pc
  <2>2. user' = [user EXCEPT ![u] = Account("staff", f)] /\ UNCHANGED <<employee, split>>
    BY <1>2 DEF InsertUser
  <2>3. /\ user' \in [User -> UserDoc] /\ user'[u].by = "staff"
        /\ \A v \in User \ {u} : user'[v] = user[v]
    BY <1>a, <1>b, <2>1, <2>2, DocTypes DEF Typed
  <2>4. Typed'
    BY <1>a, <1>b, <2>1, <2>2, <2>3 DEF Typed, setupVars
  <2>5. StaffInv'
    BY <1>a, <2>1, <2>2, <2>3 DEF StaffInv, Creates, Between, Has, At, IsSuper, Typed, setupVars
  <2> QED BY <2>1, <2>3, <2>4, <2>5, StaffKeepsSetup
<1>3. CASE InsertEmployee(t) /\ EmployeeTaken(u, f)
  BY <1>3, GoneSetupInv DEF InsertEmployee, At, Pc, Creates
<1>4. CASE InsertEmployee(t) /\ ~EmployeeTaken(u, f)
  <2>1. /\ call' \in [Tab -> CallDoc] /\ \A s \in Tab \ {t} : call'[s] = call[s]
        /\ call[t].op = "create" /\ call[t].pc = "employee" /\ call'[t].op = "none"
    BY <1>4, CallEnded DEF InsertEmployee, At
  <2>2. employee' = [employee EXCEPT ![u] = Employee(f)] /\ UNCHANGED <<user, split>>
    BY <1>4 DEF InsertEmployee
  <2>3. /\ employee' \in [User -> EmployeeDoc] /\ employee'[u] # NoEmployee
        /\ \A v \in User \ {u} : employee'[v] = employee[v]
    BY <1>a, <1>b, <2>1, <2>2, DocTypes DEF Typed
  <2>4. Typed'
    BY <2>1, <2>2, <2>3 DEF Typed, setupVars
  <2>5. StaffInv'
    BY <1>a, <2>1, <2>2, <2>3 DEF StaffInv, Creates, Between, Has, At, IsSuper, Typed, setupVars
  <2> QED BY <2>1, <2>2, <2>4, <2>5, StaffKeepsSetup
<1>5. CASE UndoUser(t)
  <2>1. /\ call' \in [Tab -> CallDoc] /\ \A s \in Tab \ {t} : call'[s] = call[s]
        /\ call[t].op = "create" /\ call[t].pc = "undo" /\ call'[t].op = "none"
    BY <1>5, CallEnded DEF UndoUser, At
  <2>2. user' = [user EXCEPT ![u] = NoUser] /\ UNCHANGED <<employee, split>>
    BY <1>5 DEF UndoUser
  <2>3. /\ user' \in [User -> UserDoc] /\ user'[u].by = "none"
        /\ \A v \in User \ {u} : user'[v] = user[v]
    BY <1>a, <2>1, <2>2 DEF Typed, NoUser, UserDoc, Name
  <2>4. Typed'
    BY <2>1, <2>2, <2>3 DEF Typed, setupVars
  <2>5. StaffInv'
    BY <1>a, <2>1, <2>2, <2>3 DEF StaffInv, Creates, Between, Has, At, IsSuper, Typed, setupVars
  <2> QED BY <2>1, <2>3, <2>4, <2>5, StaffKeepsSetup
<1>6. CASE UpdateUser(t) /\ NameTaken(u, f.name)
  BY <1>6, EndedSetupInv DEF UpdateUser, At, Between, Creates, Typed
<1>7. CASE UpdateUser(t) /\ ~NameTaken(u, f.name)
  <2>1. /\ call' \in [Tab -> CallDoc] /\ \A s \in Tab \ {t} : call'[s] = call[s]
        /\ call[t].op = "update" /\ call'[t].op = "update" /\ call'[t].on = u /\ call'[t].form = f
    BY <1>7, CallGone DEF UpdateUser, At, Pc
  <2>2. user' = [user EXCEPT ![u] = Account(user[u].by, f)] /\ UNCHANGED <<employee, split>>
    BY <1>7 DEF UpdateUser
  <2>3. user[u].by \in {"none", "setup", "staff", "register"}
    BY <1>a, <2>1 DEF Typed, UserDoc
  <2>4. /\ user' \in [User -> UserDoc] /\ user'[u].by = user[u].by
        /\ \A v \in User \ {u} : user'[v] = user[v]
    BY <1>a, <1>b, <2>1, <2>2, <2>3, DocTypes DEF Typed
  <2>5. Typed'
    BY <1>a, <1>b, <2>1, <2>2, <2>4 DEF Typed, setupVars
  <2>6. StaffInv'
    BY <1>a, <2>1, <2>2, <2>4 DEF StaffInv, Creates, Between, Has, At, IsSuper, Typed, setupVars
  <2> QED BY <2>1, <2>4, <2>5, <2>6, StaffKeepsSetup
<1>8. CASE UpdateDocument(t) /\ EmployeeTaken(u, f)
  BY <1>8, EndedSetupInv DEF UpdateDocument, At, Between, Creates, Typed
<1>9. CASE UpdateDocument(t) /\ ~EmployeeTaken(u, f)
  <2>1. /\ call' \in [Tab -> CallDoc] /\ \A s \in Tab \ {t} : call'[s] = call[s]
        /\ call[t].op = "update" /\ call'[t].op = "none"
    BY <1>9, CallEnded DEF UpdateDocument, At
  <2>2. employee' = [employee EXCEPT ![u] = Employee(f)] /\ UNCHANGED <<user, split>>
    BY <1>9 DEF UpdateDocument
  <2>3. /\ employee' \in [User -> EmployeeDoc] /\ employee'[u] # NoEmployee
        /\ \A v \in User \ {u} : employee'[v] = employee[v]
    BY <1>a, <1>b, <2>1, <2>2, DocTypes DEF Typed
  <2>4. Typed'
    BY <2>1, <2>2, <2>3 DEF Typed, setupVars
  <2>5. StaffInv'
    BY <1>a, <2>1, <2>2, <2>3 DEF StaffInv, Creates, Between, Has, At, IsSuper, Typed, setupVars
  <2> QED BY <2>1, <2>2, <2>4, <2>5, StaffKeepsSetup
<1>10. CASE DisableUser(t)
  <2>1. /\ call' \in [Tab -> CallDoc] /\ \A s \in Tab \ {t} : call'[s] = call[s]
        /\ call[t].op = "deactivate" /\ call'[t].op = "deactivate" /\ call'[t].on = u /\ call'[t].form = f
    BY <1>10, CallGone DEF DisableUser, At, Pc
  <2>2. user' = [user EXCEPT ![u].status = "disabled"] /\ UNCHANGED <<employee, split>>
    BY <1>10 DEF DisableUser
  <2>3. /\ user' \in [User -> UserDoc] /\ user'[u].by = user[u].by
        /\ \A v \in User \ {u} : user'[v] = user[v]
    BY <1>a, <2>1, <2>2 DEF Typed, UserDoc
  <2>4. Typed'
    BY <1>a, <2>1, <2>2, <2>3 DEF Typed, setupVars
  <2>5. StaffInv'
    BY <1>a, <2>1, <2>2, <2>3 DEF StaffInv, Creates, Between, Has, At, IsSuper, Typed, setupVars
  <2> QED BY <2>1, <2>3, <2>4, <2>5, StaffKeepsSetup
<1>11. CASE RetireEmployee(t)
  <2>1. /\ call' \in [Tab -> CallDoc] /\ \A s \in Tab \ {t} : call'[s] = call[s]
        /\ call[t].op = "deactivate" /\ call'[t].op = "none"
    BY <1>11, CallEnded DEF RetireEmployee, At
  <2>2. employee' = [employee EXCEPT ![u].status = "inactive"] /\ UNCHANGED <<user, split>>
    BY <1>11 DEF RetireEmployee
  <2>3. /\ employee' \in [User -> EmployeeDoc] /\ employee'[u] # NoEmployee
        /\ \A v \in User \ {u} : employee'[v] = employee[v]
    BY <1>a, <2>1, <2>2 DEF Typed, EmployeeDoc, NoEmployee, Status
  <2>4. Typed'
    BY <2>1, <2>2, <2>3 DEF Typed, setupVars
  <2>5. StaffInv'
    BY <1>a, <2>1, <2>2, <2>3 DEF StaffInv, Creates, Between, Has, At, IsSuper, Typed, setupVars
  <2> QED BY <2>1, <2>2, <2>4, <2>5, StaffKeepsSetup
<1>12. CASE RemoveRole(t)
  BY <1>12, EndedSetupInv DEF RemoveRole, At, Between, Creates, Typed
<1> QED BY <1>1, <1>2, <1>3, <1>4, <1>5, <1>6, <1>7, <1>8, <1>9, <1>10, <1>11, <1>12 DEF StaffStep

(* Someone registers. *)
LEMMA SignUpSetupInv ==
    ASSUME SetupInv, NEW t \in Tab, NEW u \in User, NEW f \in Form, SignUp(t, u, f.name)
    PROVE  SetupInv'
<1> USE DEF SetupInv
<1> DEFINE doc == [status |-> "active", by |-> "register", role |-> System, name |-> f.name]
<1>1. Fresh(u) /\ user' = [user EXCEPT ![u] = doc] /\ UNCHANGED <<employee, call, split, setupVars, stored>>
  BY DEF SignUp, Register
<1>2. doc \in UserDoc /\ doc.by = "register"
  BY DirectoryAssumption DEF UserDoc, Name
<1> HIDE DEF doc
<1>3. /\ user' \in [User -> UserDoc] /\ user'[u].by = "register"
      /\ \A v \in User \ {u} : user'[v] = user[v]
  BY <1>1, <1>2 DEF Typed
<1>4. Typed'
  BY <1>1, <1>3 DEF Typed, setupVars
<1>5. CompanyInv' /\ SessionInv'
  BY <1>1 DEF CompanyInv, SessionInv, MakesCompany, OneCompany, Awarded, At, setupVars
<1>6. AdminInv'
  BY <1>1, <1>3 DEF AdminInv, MakesAdmin, NoAdministrator, OneAdministrator, IsSuper, setupVars
<1>7. StaffInv'
  <2>1. user[u].by = "none" /\ ~Has(u) /\ \A s \in Tab : call[s].on # u
    BY <1>1 DEF Fresh, NoUser, StaffInv
  <2> QED BY <1>1, <1>3, <2>1 DEF StaffInv, Creates, Between, Has, At, IsSuper, Typed, setupVars
<1> QED BY <1>4, <1>5, <1>6, <1>7

-----------------------------------------------------------------------------
(* A step that changes nothing the invariant is about. *)
LEMMA UntouchedSetupInv ==
    ASSUME SetupInv, UNCHANGED <<call, user, employee, setupVars, stored>>, split \subseteq split'
    PROVE  SetupInv'
<1> USE DEF SetupInv, setupVars
<1>1. Typed'
  BY DEF Typed
<1>2. CompanyInv' /\ SessionInv'
  BY DEF CompanyInv, SessionInv, MakesCompany, OneCompany, Awarded, At
<1>3. AdminInv'
  BY DEF AdminInv, MakesAdmin, NoAdministrator, OneAdministrator, IsSuper
<1>4. StaffInv'
  BY DEF StaffInv, Creates, Between, Has, At, IsSuper
<1> QED BY <1>1, <1>2, <1>3, <1>4

(* What a tab does of its own. *)
LEMMA ClientStepSetupInv ==
    ASSUME SetupInv, NEW t \in Tab, ClientStep(t)
    PROVE  SetupInv'
<1> USE DEF SetupInv
<1>1. ASSUME NEW p \in {"start", "login"}, Open(t, p) PROVE SetupInv'
  <2>1. call[t].op = "none" /\ call' = [call EXCEPT ![t] = Call("status", "setup", None, None)]
        /\ UNCHANGED <<user, employee, setupVars, split, stored>>
    BY <1>1 DEF Open, Idle, NoCall
  <2> QED BY <2>1, BegunSetupInv DEF Op, Pc, Thing, Between, Creates, Aside, Typed
<1>2. CASE StatusAnswered(t) \/ StatusFailed(t)
  BY <1>2, EndedSetupInv DEF StatusAnswered, StatusFailed, Between, Creates, Typed
<1>3. CASE SubmitCompany(t)
  <2>1. call[t].op = "none" /\ call' = [call EXCEPT ![t] = Call("company", "claim", None, None)]
        /\ UNCHANGED <<user, employee, setupVars, split, stored>>
    BY <1>3 DEF SubmitCompany, Idle, NoCall, clientVars
  <2> QED BY <2>1, BegunSetupInv DEF Op, Pc, Thing, Between, Creates, Typed
<1>4. CASE CompanyCreated(t)
  <2>1. call[t].op = "company" /\ call' = [call EXCEPT ![t] = Call("status", "setup", "employee", None)]
        /\ UNCHANGED <<user, employee, setupVars, split>>
    BY <1>4 DEF CompanyCreated, At
  <2>2. Awarded /\ setup.company = t
    BY <1>4 DEF CompanyCreated, SessionInv
  <2>3. /\ stored' \in [Browser -> Tab \cup {None}]
        /\ \A b \in Browser : stored'[b] = stored[b] \/ stored'[b] = t
    BY <1>4 DEF CompanyCreated, Typed
  <2>4. ~Between(t) /\ Aside("status")
    BY <2>1 DEF Between, Creates, Aside
  <2>5. "status" \in Op /\ "setup" \in Pc /\ "employee" \in Thing /\ None \in Form \cup {None}
    BY DEF Op, Pc, Thing
  <2> QED BY <2>1, <2>2, <2>3, <2>4, <2>5, BegunSetupInv
<1>5. CASE EmployeeCreated(t)
  <2>1. /\ stored' \in [Browser -> Tab \cup {None}]
        /\ \A b \in Browser : stored'[b] \in {stored[b], None}
    BY <1>5 DEF EmployeeCreated, Typed
  <2>2. End(t) /\ ~Between(t) /\ UNCHANGED <<user, employee, setupVars, split>>
    BY <1>5 DEF EmployeeCreated, At, Between
  <2> QED BY <2>1, <2>2, EndedSetupInv
<1>6. CASE AnswerLost(t)
  BY <1>6, EndedSetupInv DEF AnswerLost, Between, clientVars, Typed
<1>7. ASSUME NEW u \in User, SignIn(t, u) PROVE SetupInv'
  BY <1>7, UntouchedSetupInv DEF SignIn
<1>8. ASSUME NEW u \in User, NEW f \in Form, SubmitEmployee(t, u, f) PROVE SetupInv'
  <2>1. call[t].op = "none" /\ call' = [call EXCEPT ![t] = Call("admin", "claim", u, f)] /\ Fresh(u)
        /\ UNCHANGED <<user, employee, setupVars, split, stored>>
    BY <1>8 DEF SubmitEmployee, Idle, NoCall, clientVars
  <2> QED BY <2>1, BegunSetupInv DEF Op, Pc, Thing, Between, Creates, Typed
<1>9. ASSUME NEW u \in User, NEW f \in Form, SignUp(t, u, f.name) PROVE SetupInv'
  BY <1>9, SignUpSetupInv
<1>10. CASE SignOut(t)
  BY <1>10, UntouchedSetupInv DEF SignOut
<1> QED BY <1>1, <1>2, <1>3, <1>4, <1>5, <1>6, <1>7, <1>8, <1>9, <1>10 DEF ClientStep

(* What an administrator or a manager begins, and the steps of facilities. *)
LEMMA PageSetupInv ==
    ASSUME SetupInv, NEW t \in Tab, UNCHANGED <<setupVars, stored>>,
           EmployeesPage(t) \/ RolesPage(t) \/ CompanyPage(t) \/ FacilityStep(t)
    PROVE  SetupInv'
<1> USE DEF SetupInv
<1>a. ASSUME NEW op \in Op, NEW pc \in Pc, NEW on \in Thing, NEW f \in Form \cup {None}, Begin(t, op, pc, on, f)
      PROVE  ~Between(t) /\ call' = [call EXCEPT ![t] = Call(op, pc, on, f)] /\ UNCHANGED <<user, employee>>
  BY <1>a DEF Begin, Idle, NoCall, Between, Creates
<1>b. /\ {"create", "update", "deactivate", "delete_role", "close_branch", "create_location"} \subseteq Op
      /\ {"user", "role", "sweep", "insert"} \subseteq Pc
      /\ User \subseteq Thing /\ Role \subseteq Thing /\ Branch \subseteq Thing /\ Location \subseteq Thing
      /\ None \in Form \cup {None} /\ Form \subseteq Form \cup {None}
  BY DEF Op, Pc, Thing
<1>c. stored' \in [Browser -> Tab \cup {None}] /\ \A b \in Browser : stored'[b] = stored[b]
  BY DEF Typed
<1>1. ASSUME NEW u \in User, NEW f \in Form, CreateEmployee(t, u, f) PROVE SetupInv'
  <2>1. Begin(t, "create", "user", u, f) /\ Fresh(u) /\ split \subseteq split'
    BY <1>1 DEF CreateEmployee
  <2> QED BY <1>a, <1>b, <1>c, <2>1, BegunSetupInv
<1>2. ASSUME NEW u \in User, NEW f \in Form, UpdateEmployee(t, u, f) PROVE SetupInv'
  <2>1. Begin(t, "update", "user", u, f) /\ Has(u) /\ split \subseteq split'
    BY <1>2 DEF UpdateEmployee, Find, Has
  <2> QED BY <1>a, <1>b, <1>c, <2>1, BegunSetupInv
<1>3. ASSUME NEW u \in User, DeactivateEmployee(t, u) PROVE SetupInv'
  <2>1. Begin(t, "deactivate", "user", u, None) /\ Has(u) /\ split \subseteq split'
    BY <1>3 DEF DeactivateEmployee, Find, Has
  <2> QED BY <1>a, <1>b, <1>c, <2>1, BegunSetupInv
<1>4. ASSUME NEW r \in Role, DeleteRole(t, r) PROVE SetupInv'
  <2>1. Begin(t, "delete_role", "role", r, None) /\ split \subseteq split'
    BY <1>4 DEF DeleteRole
  <2> QED BY <1>a, <1>b, <1>c, <2>1, BegunSetupInv DEF Aside
<1>5. ASSUME NEW r \in Role, NEW p \in Grantable, CreateRole(t, r, p) \/ UpdateRole(t, r, p) PROVE SetupInv'
  BY <1>5, UntouchedSetupInv DEF CreateRole, UpdateRole
<1>6. ASSUME NEW x \in Branch, CreateBranch(t, x) PROVE SetupInv'
  BY <1>6, UntouchedSetupInv DEF CreateBranch, directoryVars
<1>7. ASSUME NEW x \in Branch, CloseBranch(t, x) PROVE SetupInv'
  <2>1. /\ call' = [call EXCEPT ![t] = Call("close_branch", "sweep", x, None)]
        /\ ~Between(t) /\ split \subseteq split' /\ UNCHANGED <<user, employee>>
    BY <1>7 DEF CloseBranch, Idle, NoCall, Between, Creates
  <2> QED BY <1>b, <1>c, <2>1, BegunSetupInv DEF Aside
<1>8. ASSUME NEW l \in Location, CreateLocation(t, l) PROVE SetupInv'
  <2>1. /\ call' = [call EXCEPT ![t] = Call("create_location", "insert", l, None)]
        /\ ~Between(t) /\ split \subseteq split' /\ UNCHANGED <<user, employee>>
    BY <1>8 DEF CreateLocation, Idle, NoCall, Between, Creates
  <2> QED BY <1>b, <1>c, <2>1, BegunSetupInv DEF Aside
<1>9. ASSUME NEW l \in Location, CloseLocation(t, l) PROVE SetupInv'
  BY <1>9, UntouchedSetupInv DEF CloseLocation, directoryVars
<1>10. CASE FacilityStep(t)
  BY <1>10, <1>c, EndedSetupInv DEF FacilityStep, SweepLocations, InsertLocation, At, Between, Creates
<1>11. CASE EmployeesPage(t)
  BY <1>1, <1>2, <1>3, <1>11 DEF EmployeesPage, EmployeeFormDialog
<1>12. CASE RolesPage(t)
  BY <1>4, <1>5, <1>12 DEF RolesPage, RoleFormDialog
<1>13. CASE CompanyPage(t)
  BY <1>6, <1>7, <1>8, <1>9, <1>13 DEF CompanyPage, BranchManager, LocationManager
<1> QED BY <1>10, <1>11, <1>12, <1>13

(* Every step preserves the invariant. *)
LEMMA NextSetupInv == SetupInv /\ [Next]_vars => SetupInv'
<1> SUFFICES ASSUME SetupInv, [Next]_vars PROVE SetupInv'
  OBVIOUS
<1>1. ASSUME NEW t \in Tab, SetupStep(t), UNCHANGED <<facilityVars, clientVars>> PROVE SetupInv'
  <2>1. CASE ReadSetup(t)
    <3>1. /\ call[t].op = "status"
          /\ Goto(t, IF setup.state \in {"awaiting_admin", "creating_admin"} THEN "due" ELSE "company")
          /\ UNCHANGED <<user, employee, setupVars, stored, split>>
      BY <1>1, <2>1 DEF ReadSetup, At, clientVars
    <3>2. (IF setup.state \in {"awaiting_admin", "creating_admin"} THEN "due" ELSE "company") \in Pc
      BY DEF Pc
    <3> QED BY <3>1, <3>2, GoneSetupInv
  <2>2. UNCHANGED stored
    BY <1>1 DEF clientVars
  <2> QED BY <1>1, <2>1, <2>2, CompanySetupInv, AdminSetupInv DEF SetupStep
<1>2. ASSUME NEW t \in Tab, ClientStep(t) PROVE SetupInv'
  BY <1>2, ClientStepSetupInv
<1>3. ASSUME NEW t \in Tab, EmployeesPage(t) \/ RolesPage(t) \/ CompanyPage(t) \/ FacilityStep(t),
             UNCHANGED <<setupVars, known, clientVars>>
      PROVE  SetupInv'
  BY <1>3, PageSetupInv DEF clientVars
<1>4. ASSUME NEW t \in Tab, StaffStep(t), UNCHANGED <<setupVars, known, clientVars>> PROVE SetupInv'
  BY <1>4, StaffStepSetupInv DEF clientVars
<1>5. ASSUME NEW t \in Tab, Stopped(t), UNCHANGED <<setupVars, known, clientVars>> PROVE SetupInv'
  <2>1. /\ End(t) /\ split \subseteq split' /\ (Between(t) => call[t].on \in split')
        /\ UNCHANGED <<user, employee, setupVars, stored>>
    BY <1>5 DEF Stopped, Between, clientVars
  <2> QED BY <2>1, EndedSetupInv DEF SetupInv, Typed
<1>6. CASE UNCHANGED vars
  BY <1>6, UntouchedSetupInv DEF vars, directoryVars, clientVars
<1> QED BY <1>1, <1>2, <1>3, <1>4, <1>5, <1>6 DEF Next

-----------------------------------------------------------------------------
(* The invariant holds in every reachable state. *)
LEMMA SpecSetupInv == Spec => []SetupInv
BY InitSetupInv, NextSetupInv, PTL DEF Spec

(* However many tabs set up the company at once, and wherever one of their *)
(* calls is refused, fails or stops, there is one company and one          *)
(* administrator at most.                                                  *)
THEOREM ThmSetUpOnce == Spec => []SetUpOnce
<1>1. SetupInv => SetUpOnce
  BY DEF SetupInv, CompanyInv, AdminInv, SetUpOnce
<1> QED BY <1>1, SpecSetupInv, PTL

(* Setup that is complete has left an administrator with an employee, and  *)
(* nothing that staff do afterwards takes one of the two away.             *)
THEOREM ThmCompleteHasAdministrator == Spec => []CompleteHasAdministrator
<1>1. SetupInv => CompleteHasAdministrator
  BY DEF SetupInv, StaffInv, Has, CompleteHasAdministrator
<1> QED BY <1>1, SpecSetupInv, PTL

(* The setup session a browser stores is never that of another company, or *)
(* of a setup that was begun anew.                                         *)
THEOREM ThmSessionHonoured == Spec => []SessionHonoured
<1>1. SetupInv => SessionHonoured
  BY DEF SetupInv, SessionInv, SessionHonoured
<1> QED BY <1>1, SpecSetupInv, PTL

(* An account of setup or of an administrator has its employee once its    *)
(* call has ended, unless the call stopped half-way.                       *)
THEOREM ThmNoOrphans == Spec => []NoOrphans
<1>1. SetupInv => NoOrphans
  BY DEF SetupInv, StaffInv, Between, Has, Quiet, NoOrphans
<1> QED BY <1>1, SpecSetupInv, PTL

-----------------------------------------------------------------------------
(* The three tables agree: an item of the menu is for those whom its route *)
(* admits, and whom its page's calls are open to.                          *)
LEMMA TablesAgree ==
    ASSUME NEW s \in Screen, NEW super \in BOOLEAN, NEW permissions, CanView(super, permissions, s)
    PROVE  Admits(super, permissions, s) /\ Serves(super, permissions, s)
<1>1. CASE super
  BY <1>1 DEF Admits, Serves
<1>2. CASE ~super
  <2>1. s \in DOMAIN MenuPermission /\ s \notin SuperOnly /\ MenuPermission[s] \in permissions
    BY <1>2 DEF CanView, Screen
  <2>2. s \notin SuperAdminRoute /\ RoutePermissions[s] = {MenuPermission[s]}
    BY <2>1 DEF MenuPermission, RoutePermissions, SuperAdminRoute, SuperOnly
  <2>3. \A keys \in Loads[s] : MenuPermission[s] \in keys
    BY <2>1 DEF MenuPermission, Loads
  <2> QED BY <2>1, <2>2, <2>3 DEF Admits, Serves
<1> QED BY <1>1, <1>2

(* Whatever roles are given and whoever signs in, what the menu shows can  *)
(* be opened and is served.                                                *)
THEOREM ThmPagesServed == Spec => []PagesServed
<1>1. PagesServed
  <2> SUFFICES ASSUME NEW t \in Tab, NEW s \in Screen, who[t] # None,
                      CanView(Super(t), Permissions(who[t]), s)
               PROVE  Admits(Super(t), Permissions(who[t]), s) /\ Serves(Super(t), Permissions(who[t]), s)
    BY DEF PagesServed
  <2>1. Super(t) \in BOOLEAN
    BY DEF Super, IsSuper
  <2> QED BY <2>1, TablesAgree
<1> QED BY <1>1, PTL
=============================================================================
