SPECIFICATION Spec
CONSTANTS
    None = None
    here = here
    elsewhere = elsewhere
    EntryReq = {e1}
    ExitReq = {x1}
    AdminReq = {}
    Vehicle = {v1}
    Slot = {}
    Tag = {}
    Location <- MCLocation
    SlotLocation <- MCSlotLocation
    PostedAt <- MCUnposted
    MaxTime = 1
    MayFail = TRUE
    Window <- MCWindow
    Change <- MCNoChange
    AdminStatus <- MCAvailable
    AdminOverride = FALSE
CHECK_DEADLOCK FALSE
INVARIANTS ExitMeansClosed
