SPECIFICATION Spec
CONSTANTS
    None = None
    t1 = t1
    t2 = t2
    r1 = r1
    x1 = x1
    l1 = l1
    System = system
    Tab <- Tabs
    Browser = {"browser"}
    Of <- TheBrowser
    User = {u1, u2}
    Role = {system, r1}
    Form <- Forms
    Grantable <- Grants
    Branch = {x1}
    Location = {l1}
    Within <- Places
    Together = FALSE
CHECK_DEADLOCK FALSE
SYMMETRY Interchangeable
INVARIANTS TypeOK SetUpOnce CompleteHasAdministrator SessionHonoured NoOrphans AccountFollowsEmployee LocationsCloseWithBranch RoleInUse PagesServed
PROPERTIES LeftForGood
