SPECIFICATION Spec
CONSTANTS
    None = None
    TicksPerMinute = 1
    Hour = 2
    GridRows = 2
    MaxRows = 3
    MaxSlabs = 2
    Rate = {r1}
    Key = {k1}
    Ends = {None, 2}
    Foreign <- Others
INVARIANTS TypeOK FormAccepted Editable EveryStayOnce
