SPECIFICATION Spec
INVARIANTS
    OneAccountPerEmail
    AnswerTellsOutcome
    OwnersGetIn
    SessionIsOwn
SYMMETRY Symmetry
CONSTANTS
    Request = {r1, r2, r3}
    Name = {n1}
    Password = {short, other, long}
    TooLong = {long}
    Expiry = 2
    None = None
    MaxTime = 2
    MaxCrashes = 1
    MaxFaults = 1
CHECK_DEADLOCK FALSE
