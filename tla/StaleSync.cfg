SPECIFICATION Spec
CONSTANTS
    None = None
    here = here
    elsewhere = elsewhere
    EntryReq = {}
    ExitReq = {}
    AdminReq = {a1, a2}
    Vehicle = {v1}
    Slot = {s1}
    Tag = {}
    Location <- MCLocation
    SlotLocation <- MCSlotLocation
    PostedAt <- MCUnposted
    MaxTime = 1
    MayFail = FALSE
    Window <- MCWindow
    Change <- MCToggle
    AdminStatus <- MCReserved
    AdminOverride = FALSE
CHECK_DEADLOCK FALSE
INVARIANTS QuietSlotReflects
