SPECIFICATION Spec
CONSTANTS
    Agents <- ImageAgents
    MaxIterations = 3
    MaxCalls = 2
    MaxParseRetries = 2
    CleansUp = TRUE
    HistoryN = 2
INVARIANTS
    OnlyCurrentImages
