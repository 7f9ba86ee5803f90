SPECIFICATION Spec
CONSTANTS
    index = index
    util = util
    item = item
    module = module
    Missing = Missing
    SourceFiles = {index, util}
    Nodes = {index, util, item, module}
    FileOf <- FileOfEach
    Entrypoint = index
    Graphs <- SmallPrograms
    Statements <- FewStatements
    Size <- SmallSize
    BodySize <- SmallSize
    MaxNodes = 8
INVARIANTS
    TypeOK
    AcceptedIsResolved
    RejectedIsUnresolved
    CountedOnce
CHECK_DEADLOCK FALSE
