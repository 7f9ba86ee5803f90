SPECIFICATION FairSpec
CONSTANTS
    app = app
    dep = dep
    base = base
    nest = nest
    types = types
    aIndex = aIndex
    aUtil = aUtil
    dIndex = dIndex
    bIndex = bIndex
    nIndex = nIndex
    tIndex = tIndex
    es = es
    dom = dom
    None = None
    Packages = {app, dep, base, nest, types}
    Root = app
    Provider = types
    Files = {aIndex, aUtil, dIndex, bIndex, nIndex, tIndex}
    Libraries = {es, dom}
    StandardLibrary = es
    Owner <- InstalledOwner
    Within <- InstalledWithin
    Entry <- InstalledEntry
    Declares <- Declared
    Text <- InstalledText
    Unstable = {aUtil, dIndex}
    MaxFiles = 7
INVARIANTS
    TypeOK
    AuthorityIsDeclared
    LatestProgramIsClosed
PROPERTIES
    LoadingEnds
CHECK_DEADLOCK FALSE
