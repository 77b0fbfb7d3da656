SPECIFICATION Spec
INVARIANT NoStale304
CONSTANTS
    Editor = {e1, e2}
    Visitor = {v1}
    Form <- Forms
    Null = Null
    Unset = Unset
    None = None
    MaxAge = 2
    MaxVersion = 4
CHECK_DEADLOCK FALSE
