SPECIFICATION Spec
CONSTANTS
    None = None
    here = here
    elsewhere = elsewhere
    EntryReq = {e1, e2}
    ExitReq = {x1, x2, x3}
    AdminReq = {}
    Vehicle = {v1, v2}
    Slot = {}
    Tag = {t1}
    Location <- MCLocation
    SlotLocation <- MCSlotLocation
    PostedAt <- MCUnposted
    MaxTime = 1
    MayFail = TRUE
    Window <- MCWindow
    Change <- MCNoChange
    AdminStatus <- MCAvailable
    AdminOverride = FALSE
CHECK_DEADLOCK FALSE
SYMMETRY RequestSymmetry
INVARIANTS ClosedHasItsExit CloseNeverRefused
PROPERTIES ImplementsVisits SettledForGood
