SPECIFICATION Spec
INVARIANTS
    NoStale304
    BoundedStaleness
    RefusedOnlyIfChanged
    LeadFitsVersion
CONSTANTS
    Editor = {e1}
    Visitor = {v1}
    Form <- Forms
    Null = Null
    Unset = Unset
    None = None
    MaxAge = 2
    MaxVersion = 4
CHECK_DEADLOCK FALSE
