SPECIFICATION Spec
CONSTANTS
    None = None
    User = {u1}
    Call = {c1, c2, c3}
    Tab = {t1, t2}
    Request = {r1, r2}
    MaxLoads = 2
CHECK_DEADLOCK FALSE
SYMMETRY Interchangeable
INVARIANTS TypeOK RotatedOnce RedeemedOnce PresentedOnce WaitersAreServed
PROPERTIES StaysSignedIn
