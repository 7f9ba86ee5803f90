SPECIFICATION FairSpec
CONSTANTS
    Limit <- TwoChunks
    PipeCapacity = 1
    Scripts <- AllScripts
INVARIANTS
    TypeOK
    NothingOutlives
    AnswersAreWhole
    HeapFailureReported
    PublishedIsAccepted
    RetriedOnce
PROPERTIES
    AnalysisEnds
CHECK_DEADLOCK FALSE
