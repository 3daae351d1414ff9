SPECIFICATION Spec
SYMMETRY Symmetry
CONSTANTS
    Requests = {r1, r2}
    Buckets <- MCBuckets
    MaxRetries = 1
    None = None
INVARIANTS
    HistogramWellFormed
    FinishedAreCounted
