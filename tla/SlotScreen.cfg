SPECIFICATION Spec
CONSTANTS
    None = None
    here = here
    elsewhere = elsewhere
    EntryReq = {e1}
    ExitReq = {}
    AdminReq = {a1}
    Vehicle = {v1}
    Slot = {s1}
    Tag = {}
    Location <- MCLocation
    SlotLocation <- MCSlotLocation
    PostedAt <- MCUnposted
    MaxTime = 1
    MayFail = FALSE
    Window <- MCWindow
    Change <- MCNoChange
    AdminStatus <- MCClosable
    AdminOverride = TRUE
CHECK_DEADLOCK FALSE
INVARIANTS HolderKeepsSlot
