SPECIFICATION Spec
INVARIANTS
    HonestIsHeard
    OneLeadPerFilling
PROPERTY BotLearnsNoReason
CONSTANTS
    Field = {f1, f2}
    Required = {f1}
    Formatted = {f1, f2}
    Providers = 2
    FallbackIp = FALSE
    MinFill = 1
    MaxElapsed = 2
    MaxSends = 3
    None = None
CHECK_DEADLOCK FALSE
