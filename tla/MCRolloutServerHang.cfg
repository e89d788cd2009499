SPECIFICATION FairSpec
CONSTANTS
    timed = timed
    endless = endless
    unknown = unknown
    Requests <- MixedRequests
    Timed <- MixedTimed
    Known <- MixedKnown
    Concurrency = 2
    MaxRetries = 1
PROPERTIES
    TimedRequestsAnswered
