SPECIFICATION Spec
CONSTANTS
    left = left
    right = right
    root = root
    sub = sub
    None = None
    Start = Start
    word = word
    Targets = {left, right}
    Modules <- SomeModules
    Requests <- SomeRequests
    PageSize = 2
    MaxModuleExports = 3
    MaxIndexed = 4
    MaxMatches = 3
    MaxMemberCandidates = 5
    MaxMemberMatches = 2
    MaxSize = 12
    MaxQueries = 3
    Named <- NamesMatching
    Documented <- DocumentsMatching
    MaxCalls = 2
    MaxUpdates = 1
INVARIANTS
    AnswersAreOfOneSnapshot
    WalksAreComplete
CHECK_DEADLOCK FALSE
