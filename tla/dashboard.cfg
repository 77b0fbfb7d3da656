SPECIFICATION Spec
INVARIANTS
    NumbersAgree
    WalkIsComplete
PROPERTY OthersChangeNothing
SYMMETRY Symmetry
CONSTANTS
    t1 = t1
    t2 = t2
    w1 = w1
    w2 = w2
    w3 = w3
    Tenant = {t1, t2}
    Widget = {w1, w2, w3}
    Owner <- Owners
    Newest = 2
    Page = 1
    None = None
    Commits = 3
CHECK_DEADLOCK FALSE
