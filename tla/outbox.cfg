SPECIFICATION Spec
INVARIANTS
    TypeOK
    AttemptsBounded
    OnceUnlessUnrecorded
PROPERTY PromiseSpec
SYMMETRY Symmetry
CONSTANTS
    l1 = l1
    l2 = l2
    e1 = e1
    e2 = e2
    e3 = e3
    Event = {e1, e2, e3}
    Lead = {l1, l2}
    LeadOf <- TwoLeads
    Worker = {w1, w2}
    MaxAttempts = 2
    Base = 2
    Limit = 2
    MaxLate = 1
    MaxRollbacks = 1
CHECK_DEADLOCK FALSE
