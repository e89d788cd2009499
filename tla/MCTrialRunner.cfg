SPECIFICATION FairSpec
CONSTANTS
    Trials <- MCTrials
    MaxAttempts <- MCMaxAttempts
    Attempts <- MCAttempts
    Env <- MCEnv
    Kind <- MCKind
    Revision <- MCRevision
    Refresh <- MCRefresh
    Mortal <- MCMortal
    Batches <- MCBatches
INVARIANTS
    TypeOK
    NoContainerForgotten
    AnswersAreOnDisk
    AnswersAreEarned
    GradedAsPosed
PROPERTIES
    OrphansAreReaped
