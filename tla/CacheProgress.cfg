SPECIFICATION FairSpec
CONSTANTS
    m = m
    d = d
    v1 = v1
    v2 = v2
    None = None
    Inspections = {r1, r2}
    Requests = {q1}
    Items <- OneManifest
    Manifests <- OneManifest
    Versions <- TwoVersions
    Selection <- SelectFirst
    MaxDirectoryEntries = 3
    MaxWipes = 0
    Crashes = TRUE
    StorageFaults = FALSE
PROPERTIES
    EveryInspectionEnds
    LockReleased
CHECK_DEADLOCK FALSE
