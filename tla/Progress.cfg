SPECIFICATION FairSpec
CONSTANTS
    None = None
    here = here
    elsewhere = elsewhere
    EntryReq = {e1}
    ExitReq = {x1, x2}
    AdminReq = {a1, a2}
    Vehicle = {v1}
    Slot = {s1}
    Tag = {}
    Location <- MCLocation
    SlotLocation <- MCSlotLocation
    PostedAt <- MCUnposted
    MaxTime = 1
    MayFail = FALSE
    Window <- MCWindow
    Change <- MCCancel
    AdminStatus <- MCAvailable
    AdminOverride = FALSE
CHECK_DEADLOCK FALSE
INVARIANTS LedgerAgrees ExitMeansClosed
PROPERTIES OfferSettles RefusalFreesSlot
