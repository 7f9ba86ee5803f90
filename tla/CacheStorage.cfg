SPECIFICATION Spec
CONSTANTS
    m = m
    d = d
    v1 = v1
    v2 = v2
    None = None
    Inspections = {r1, r2, r3}
    Requests = {q1, q2}
    Items <- OneManifest
    Manifests <- OneManifest
    Versions <- OneVersion
    Selection <- SelectOnly
    MaxDirectoryEntries = 3
    MaxWipes = 1
    Crashes = TRUE
    StorageFaults = FALSE
INVARIANTS
    WriterExclusion
    CapacityBound
    EntriesReadable
CHECK_DEADLOCK FALSE
