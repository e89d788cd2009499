SPECIFICATION Spec
CONSTANTS
    Agents <- AllAgents
    MaxIterations = 3
    MaxCalls = 2
    MaxParseRetries = 2
    CleansUp = TRUE
    HistoryN = 2
INVARIANTS
    TypeOK
    HistoryIsWellFormed
    OutcomesAreEarned
    CallsAreBounded
    ImagesDoNotPileUp
