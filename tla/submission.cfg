SPECIFICATION Spec
INVARIANTS
    TypeOK
    ReplaysAgree
    AckDurable
    ErrorLeavesNothing
    ServerErrorCause
    RetryFindsLead
    NoSelfBlocking
SYMMETRY Symmetry
CONSTANTS
    Request = {r1, r2, r3}
    Process = {p1, p2}
    Widget = {w1}
    Key = {k1}
    NoKey = NoKey
    BlankKey = BlankKey
    EventType = {email}
    None = None
    MaxCrashes = 1
    MaxEdits = 0
    MaxFaults = 3
CHECK_DEADLOCK FALSE
