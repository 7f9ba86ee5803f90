SPECIFICATION Spec
CONSTANTS
    m = m
    d = d
    v1 = v1
    v2 = v2
    None = None
    Inspections = {r1, r2}
    Requests = {q1}
    Items <- TwoItems
    Manifests <- OneManifest
    Versions <- TwoVersions
    Selection <- SelectEither
    MaxDirectoryEntries = 4
    MaxWipes = 0
    Crashes = FALSE
    StorageFaults = TRUE
SYMMETRY Interchangeable
INVARIANTS
    TypeOK
    EntriesFaithful
PROPERTIES
    CacheIsInvisible
CHECK_DEADLOCK FALSE
