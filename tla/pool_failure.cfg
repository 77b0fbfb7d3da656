SPECIFICATION Spec
PROPERTY EnrichmentIsAbsorbed
CONSTANTS
    Submission = {s1, s2, s3}
    Handler = {}
    Drain = {}
    PoolMax = 2
    PoolTimeout = 1
    None = None
