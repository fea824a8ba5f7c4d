SPECIFICATION Spec
CONSTANTS
    None = None
    TicksPerMinute = 2
    Moment = {0, 3}
    Plate = {p1, p2}
    Entry = {e1, e2}
    Call = {c1, c2}
    Rate <- Tariffs
    Advance = {27}
    Typed = {1}
    MaxPending = 1
    Overlay = FALSE
CHECK_DEADLOCK FALSE
SYMMETRY Interchangeable
INVARIANTS TypeOK MembershipSettles ReceiptIsLatest BusyHasCause CameraOffWhenClosed
PROPERTIES SettledAtItsPrice ServesVisits
