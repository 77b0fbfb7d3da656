SPECIFICATION Spec
INVARIANTS
    IpWindow
    WidgetWindow
    RefusedOnlyWhenFull
    RetryAfterSuffices
    RemainingIsHonest
    OneFlooderCannotFill
SYMMETRY Symmetry
CONSTANTS
    IP = {i1, i2}
    Widget = {w1, w2}
    IpLimit = 2
    WidgetLimit = 3
    Window = 3
    Second = 2
    MaxTime = 6
    MaxChecks = 6
CHECK_DEADLOCK FALSE
