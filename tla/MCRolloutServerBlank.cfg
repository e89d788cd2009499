SPECIFICATION Spec
CONSTANTS
    timed = timed
    endless = endless
    unknown = unknown
    Requests <- MixedRequests
    Timed <- MixedTimed
    Known <- MixedKnown
    Concurrency = 1
    MaxRetries = 1
INVARIANTS
    FailuresAreReported
