SPECIFICATION FairSpec
CONSTANTS
    first = first
    second = second
    third = third
    Batch <- MCBatch
    Timed <- SomeTimed
    Concurrency = 2
INVARIANTS
    TypeOK
    LiveChildrenBounded
    NoListedChildLeftBehind
    ReturnedBatchIsComplete
    NoOutcomeOverlooked
PROPERTIES
    RefinesService
    BatchEnds
