SPECIFICATION PipeFairSpec
PROPERTIES
    PerformedWhileStored
    LeadIsFollowedUp
    RequestAnswered
CONSTANTS
    Event <- Rows
    Lead <- Leads
    LeadOf <- LeadOfRow
    Worker <- Workers
    Request = {r1, r2}
    Process = {p1}
    Widget = {w1}
    Key = {}
    NoKey = NoKey
    BlankKey = BlankKey
    EventType = {email}
    None = None
    MaxCrashes = 1
    MaxAttempts = 2
    Base = 1
    Limit = 2
    MaxLate = 0
    MaxRollbacks = 1
    MaxFaults = 1
CHECK_DEADLOCK FALSE
