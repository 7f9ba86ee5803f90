SPECIFICATION Spec
CONSTANTS
    root = root
    dist = dist
    gen = gen
    ext = ext
    first = first
    second = second
    outer = outer
    nameA = nameA
    nameB = nameB
    nameD = nameD
    nameG = nameG
    bad = bad
    tDist = tDist
    tGen = tGen
    tRoot = tRoot
    tDeep = tDeep
    tNull = tNull
    tOther = tOther
    tFork = tFork
    tList = tList
    tShut = tShut
    tDefault = tDefault
    None = None
    Directories = {root, dist, gen, ext}
    Regular = {first, second, outer}
    Inside = {root, dist, gen, first, second}
    Root = root
    Place <- Placed
    Names = {nameA, nameB, nameD, nameG, bad}
    UnsafeNames = {bad}
    Trees <- InstalledTrees
    Targets = {tDist, tGen, tRoot, tDeep, tNull, tOther, tFork, tList, tShut, tDefault}
    Target <- ExportTargets
    Manifests <- PackageManifests
    Resolvable <- ResolvedSubpaths
    Bounds <- InspectionBounds
    MaxChanges = 2
INVARIANTS
    DiscoveryIsEvidenced
    LimitsAreExact
    SubpathsAreDeclared
CHECK_DEADLOCK FALSE
