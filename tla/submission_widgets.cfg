SPECIFICATION Spec
INVARIANT OutboxAtomic
PROPERTY StoreSpec
SYMMETRY Symmetry
CONSTANTS
    Request = {r1, r2}
    Process = {p1, p2}
    Widget = {w1, w2}
    Key = {k1}
    NoKey = NoKey
    BlankKey = BlankKey
    EventType = {email}
    None = None
    MaxCrashes = 1
    MaxEdits = 1
    MaxFaults = 2
CHECK_DEADLOCK FALSE
