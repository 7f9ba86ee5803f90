SPECIFICATION Spec
CONSTANTS
    top = top
    app = app
    lib = lib
    dep = dep
    alias = alias
    topJson = topJson
    appJson = appJson
    libJson = libJson
    depJson = depJson
    aliasJson = aliasJson
    libIndex = libIndex
    libScript = libScript
    libTypes = libTypes
    depIndex = depIndex
    aliasIndex = aliasIndex
    libQuery = libQuery
    typesQuery = typesQuery
    depQuery = depQuery
    None = None
    Dirs = {top, app, lib, dep, alias}
    Parent <- ParentOf
    Nested = {lib, dep, alias}
    Real <- RealOf
    Sources = {libIndex, libScript, libTypes, depIndex, aliasIndex}
    Manifests = {topJson, appJson, libJson, depJson, aliasJson}
    Dir <- DirOf
    RealFile <- RealFileOf
    Style <- StyleOfExtension
    Queries = {libQuery, typesQuery, depQuery}
    Candidates <- CandidateFiles
    Types <- TypesQuery
    Inspectable = {libIndex, libTypes, depIndex, aliasIndex}
    Contexts <- AskedContexts
    Disks <- InstalledDisks
    OperationLimits = {5, 8, 40}
    ByteLimits = {1, 3, 9}
    MaxManifest = 2
    MaxResolved = 2
    MaxLookups = 2
INVARIANTS
    AnswersAreExact
    LimitsSurface
    KeptAnswersAreExact
CHECK_DEADLOCK FALSE
