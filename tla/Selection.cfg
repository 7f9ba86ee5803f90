SPECIFICATION Spec
CONSTANTS
    top = top
    repo = repo
    app = app
    deep = deep
    repoLib = repoLib
    appLib = appLib
    repoTypes = repoTypes
    repoNode = repoNode
    store = store
    nestedRoot = nestedRoot
    inner = inner
    lib = lib
    typesName = typesName
    node = node
    libFile = libFile
    storeFile = storeFile
    innerFile = innerFile
    nestedFile = nestedFile
    typesFile = typesFile
    nodeFile = nodeFile
    None = None
    Dirs = {top, repo, app, deep, repoLib, appLib, repoTypes, repoNode, store, nestedRoot, inner}
    Parent <- ParentOf
    Packages = {lib, typesName, node}
    TypesOf <- TypesOfPackage
    Slot <- SlotOf
    Materialized = {repoLib, appLib, repoTypes, repoNode, store, nestedRoot}
    Declarations = {libFile, storeFile, innerFile, nestedFile, typesFile, nodeFile}
    Dir <- DirOf
    Layouts <- InstalledLayouts
    Neighbours <- LayoutNeighbours
    Requests <- SelectionRequests
    MaxDepth = 3
    MaxChanges = 1
INVARIANTS
    SelectionIsEvidenced
    AuthorityOwnsDeclarations
CHECK_DEADLOCK FALSE
