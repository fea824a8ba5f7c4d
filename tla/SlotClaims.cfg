SPECIFICATION Spec
CONSTANTS
    None = None
    here = here
    elsewhere = elsewhere
    EntryReq = {e1, e2}
    ExitReq = {x1}
    AdminReq = {a1, a2}
    Vehicle = {v1, v2}
    Slot = {s1}
    Tag = {}
    Location <- MCLocation
    SlotLocation <- MCSlotLocation
    PostedAt <- MCPostedAt
    MaxTime = 1
    MayFail = FALSE
    Window <- MCWindow
    Change <- MCCancel
    AdminStatus <- MCAvailable
    AdminOverride = FALSE
CHECK_DEADLOCK FALSE
SYMMETRY RequestSymmetry
INVARIANTS TypeOK OccupiedIsHeld ClaimIsOurs
