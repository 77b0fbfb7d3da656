SPECIFICATION FairSpec
INVARIANT NoLeak
PROPERTIES
    StallCostsARequest
    EverySessionEnds
CONSTANTS
    Submission = {s1, s2}
    Handler = {h1}
    Drain = {d1}
    PoolMax = 2
    PoolTimeout = 1
    None = None
