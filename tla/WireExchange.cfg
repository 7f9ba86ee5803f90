SPECIFICATION FairSpec
CONSTANTS
    MaxLine = 2
    Streams <- ShortStreams
INVARIANTS
    TypeOK
    ZeroMeansAllSucceeded
PROPERTIES
    AnswersEachLine
    LinesAnsweredPromptly
    AbortEnds
CHECK_DEADLOCK FALSE
