SPECIFICATION Spec
CONSTANTS
    None = None
    Repositories <- SomeRepositories
    Invocations <- SomeInvocations
    Directories <- SomeDirectories
    Builtins = {"fs"}
    PackageOf <- SomePackages
    Resolve <- SomePaths
    MaxAncestors = 3
    MaxWorkspaces = 2
    MaxDepth = 3
    MaxOperations = 20
INVARIANTS
    SelectsTheOnlyConsumer
    ExitTellsTheOutcome
CHECK_DEADLOCK FALSE
