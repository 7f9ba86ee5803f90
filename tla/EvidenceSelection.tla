--------------------------- MODULE EvidenceSelection ---------------------------
(***************************************************************************)
(* The selection of Installed Evidence for one request.                    *)
(*                                                                         *)
(* A package is looked for in the node_modules of the resolution context   *)
(* and of every directory above it; so is the @types package that may      *)
(* declare it.  The compiler resolves the specifier inside these packages, *)
(* and the package that holds the declaration becomes its authority,       *)
(* unless the declaration lies in a package nested in it.  A platform      *)
(* module is declared by a visible @types/node, and a package that a cached *)
(* resolution depends on is looked for with the rights of the package that *)
(* contains the import.                                                    *)
(*                                                                         *)
(* Each search goes up the directories for at most MAX_PACKAGE_SEARCH_DEPTH *)
(* of them, and every file it looks for, every manifest it reads and every *)
(* resolution is observed.  The installation may change between searches:  *)
(* manifests, markers, what a package directory links to, and what the     *)
(* compiler resolves.  Directories above the context are not links.        *)
(***************************************************************************)
EXTENDS Naturals, FiniteSets

CONSTANTS Dirs,          \* directories
          Parent,        \* the directory above; the topmost is above itself
          Packages,      \* names of packages
          TypesOf,       \* the name of the package that declares a package
          Slot,          \* where a directory's node_modules holds a package
          Materialized,  \* directories that lie in a node_modules directory
          Declarations,  \* canonical declaration files
          Dir,           \* their directories
          Layouts,       \* installations: manifests, markers, links, resolutions
          Neighbours,    \* the installations one change away
          Requests,
          MaxDepth,      \* MAX_PACKAGE_SEARCH_DEPTH
          MaxChanges,    \* bound on the changes to the installation
          None

\* A manifest has a package identity or none, declares dependencies, and may
\* have exports, workspaces and a "types" entry; a broken one is not an object.
IsManifest(m) ==
    /\ m # None
    /\ {m.broken, m.exports, m.workspaces} \subseteq BOOLEAN
    /\ m.broken => m.identity = None
    /\ m.types \in Declarations \cup {None}

\* A directory and those above it: what every set closed under Parent has.
Above ==
    [d \in Dirs |->
        {a \in Dirs : \A S \in SUBSET Dirs :
            d \in S /\ (\A x \in S : Parent[x] \in S) => a \in S}]

Markers == {"pnp.cjs", "pnp.js", "workspace"}

\* A link leads to a directory that is none, and what the compiler resolves is
\* named by its canonical path, which no link is on.
IsLayout(l) ==
    /\ DOMAIN l.manifest \subseteq Dirs
    /\ \A d \in DOMAIN l.manifest : IsManifest(l.manifest[d])
    /\ \A d \in DOMAIN l.real : l.real[d] \in Dirs \ DOMAIN l.real
    /\ l.markers \in [Markers -> SUBSET Dirs]
    /\ l.resolves \in [Packages -> Declarations \cup {None}]
    /\ \A p \in Packages : l.resolves[p] # None => Above[Dir[l.resolves[p]]] \cap DOMAIN l.real = {}

ASSUME SelectionAssumption ==
    /\ Parent \in [Dirs -> Dirs]
    /\ \A d, e \in Dirs : d \in Above[e] /\ e \in Above[d] => d = e
    /\ TypesOf \in [Packages -> Packages]
    /\ Slot \in [Dirs -> [Packages -> Dirs \cup {None}]]
    /\ Materialized \subseteq Dirs
    /\ Dir \in [Declarations -> Dirs]
    /\ None \notin Dirs \cup Declarations
    /\ None \notin [root : Dirs, repository : Dirs, canonical : Dirs \cup {None}]
    /\ MaxDepth \in Nat \ {0}
    /\ \A l \in Layouts : IsLayout(l) /\ Neighbours[l] \subseteq Layouts
    /\ \A r \in Requests : /\ r.kind \in {"package", "platform", "dependency"}
                            /\ r.context \in Dirs /\ r.package \in Packages

VARIABLES
    layout,      \* the installation
    changes,     \* how often it changed
    request,
    pc,
    error,       \* why nothing was selected
    role,        \* whether the package or its provider is looked for
    declared,    \* the context declares the package
    package,     \* packageLocation
    provider,    \* providerLocation
    declaration, \* what the specifier resolved to
    authority,   \* the selected declaration package
    manifests,   \* packageManifestCache
    observed,    \* what was observed of files, manifests and resolutions
    cacheable,   \* no observation contradicted another
    provenance,  \* a declaration and the identity it was attributed to
    followed     \* where the package and its provider led, once found (history)

selectionVars == <<role, declared, package, provider, declaration, authority>>
proofVars     == <<manifests, observed, cacheable>>
vars == <<layout, changes, request, pc, error, selectionVars, proofVars, provenance, followed>>

Init ==
    /\ layout \in Layouts
    /\ changes = 0
    /\ request \in Requests
    /\ pc = "context"
    /\ error = None
    /\ role = "package"
    /\ declared = FALSE
    /\ package = None /\ provider = None /\ declaration = None /\ authority = None
    /\ manifests = <<>> /\ observed = <<>> /\ cacheable = TRUE
    /\ provenance = None /\ followed = {}

-----------------------------------------------------------------------------
(* The installation.                                                       *)

IsPathWithin(root, d) == root \in Above[d]

Real(l, d) == IF d \in DOMAIN l.real THEN l.real[d] ELSE d

ManifestAt(l, d) == IF d # None /\ Real(l, d) \in DOMAIN l.manifest THEN l.manifest[Real(l, d)] ELSE None

\* The directories with a manifest.
Has(l) == {d \in Dirs : ManifestAt(l, d) # None}

\* The directories whose node_modules holds a package, and those with a sign
\* of an installation without node_modules.
Holders(l, p) == {d \in Dirs : Slot[d][p] \in Has(l)}
Marked(l) == l.markers["pnp.cjs"] \cup l.markers["pnp.js"]

\* What there is to observe: presence with the canonical directory, contents,
\* markers and resolutions.
Value(l, item) ==
    CASE item[1] = "presence" -> IF ManifestAt(l, item[2]) = None THEN None ELSE Real(l, item[2])
      [] item[1] = "contents" -> ManifestAt(l, item[2])
      [] item[1] = "resolution" -> l.resolves[item[2]]
      [] OTHER -> item[2] \in l.markers[item[1]]

\* Mutant of Observe: a file that is missing leaves no trace.
ObservePresent(items) ==
    LET seen == {i \in items : Value(layout, i) # None}
    IN  /\ cacheable' = (cacheable /\ \A i \in seen \cap DOMAIN observed : observed[i] = Value(layout, i))
        /\ observed' = [i \in DOMAIN observed \cup seen |->
                            IF i \in DOMAIN observed THEN observed[i] ELSE Value(layout, i)]

\* The recorder keeps the first observation, and another one that differs
\* makes the outcome unfit for the cache.
Observe(items) ==
    /\ cacheable' = (cacheable /\ \A i \in items \cap DOMAIN observed : observed[i] = Value(layout, i))
    /\ observed' = [i \in DOMAIN observed \cup items |->
                        IF i \in DOMAIN observed THEN observed[i] ELSE Value(layout, i)]

\* readManifest: read once, whatever it says later.
Manifest(d) == IF d \in DOMAIN manifests THEN manifests[d] ELSE ManifestAt(layout, d)

Keep(dirs) == manifests' = [d \in DOMAIN manifests \cup dirs |-> Manifest(d)]

Contents(dirs) == {<<"contents", Real(layout, d)>> : d \in dirs \ DOMAIN manifests}

Presences(dirs) == {<<"presence", d>> : d \in dirs \ {None}}

Fail(why) == pc' = "failed" /\ error' = why

-----------------------------------------------------------------------------
(* Searches.                                                               *)

\* The directories that a search visits before it gives up.
Within ==
    [d \in Dirs |-> {a \in Above[d] : Cardinality(Above[d] \ Above[a]) < MaxDepth}]

\* The nearest of a set that a search finds, and whether it gives up.
Nearest(d, S) == {a \in Within[d] \cap S : Within[d] \cap S \subseteq Above[a]}

GivesUp(d, S) == Nearest(d, S) = {} /\ Within[d] # Above[d]

The(S) == CHOOSE x \in S : TRUE

\* What a search finds, which directories it visits, and whether it reached the
\* topmost directory.
Search(d, goals) ==
    LET at == The(Nearest(d, goals))
    IN  IF Nearest(d, goals) # {}
        THEN [end |-> "found", at |-> at, visited |-> {a \in Within[d] : at \in Above[a]}]
        ELSE [end |-> IF GivesUp(d, goals) THEN "limit" ELSE "top", at |-> None, visited |-> Within[d]]

HasManifest(d) == ManifestAt(layout, d) # None

IsBroken(m) == m # None /\ m.broken

\* findAncestorManifest: one that cannot be read ends the search with an error.
AncestorManifest(d, suitable) ==
    Search(d, {a \in Dirs : HasManifest(a) /\ (IsBroken(Manifest(a)) \/ a \in suitable)})

Sound == {a \in Dirs : Manifest(a) # None /\ ~IsBroken(Manifest(a))}

ManifestsOn(search) == {a \in search.visited : HasManifest(a)}

SeesManifests(search, others) ==
    /\ Observe(Presences(search.visited) \cup Contents(ManifestsOn(search)) \cup others)
    /\ Keep(ManifestsOn(search))

Broken(search) == search.end = "found" /\ IsBroken(Manifest(search.at))

\* VisiblePackageLocation, with the canonical root once it is known.
Location(root, repository) == [root |-> root, repository |-> repository, canonical |-> None]

\* findContextManifest: for a dependency it must be the manifest of a package.
ContextManifest ==
    AncestorManifest(request.context,
                     {a \in Sound : request.kind = "dependency" => Manifest(a).identity # None})

\* isDeclaredFromResolutionContext.
IsDeclaredBy(search) ==
    search.end = "found" /\ request.declared \in Manifest(search.at).dependencies

\* The first half of findVisiblePackageForDependency: what the nearest manifest
\* declares.  A dependency may be the package itself, if that has exports.
FindContext ==
    LET dependency == request.kind = "dependency"
        search == ContextManifest
        found  == search.end = "found"
        named  == IsDeclaredBy(search)
        itself == /\ dependency /\ found
                  /\ Manifest(search.at).identity = request.declared
                  /\ request.package = request.declared
                  /\ Manifest(search.at).exports
    IN  /\ pc = "context"
        /\ SeesManifests(search, {})
        /\ IF search.end = "limit" THEN Fail("limit") /\ UNCHANGED <<package, declared>>
           ELSE IF Broken(search) THEN Fail("identity") /\ UNCHANGED <<package, declared>>
           ELSE /\ declared' = named
                /\ package' = IF itself THEN Location(search.at, search.at) ELSE None
                /\ IF ~itself /\ ~named /\ request.kind # "package"
                      THEN Fail("undeclared")
                      ELSE pc' = (IF itself THEN "repository" ELSE "search") /\ UNCHANGED error
        /\ UNCHANGED <<layout, changes, request, role, provider, declaration, authority, provenance,
                       followed>>

\* Mutant of Wanted: the provider is looked for in place of its package.
WantedTypes == TypesOf[request.package]

Wanted == IF role = "package" THEN request.package ELSE TypesOf[request.package]

\* hasPlugAndPlayMarker looks for the second marker when there is no first.
MarkerChecks(d) ==
    {<<"pnp.cjs", d>>} \cup (IF d \in layout.markers["pnp.cjs"] THEN {} ELSE {<<"pnp.js", d>>})

\* findResolvablePackage, findResolvableDeclarationProvider: nobody misses a
\* provider.
RejectsUnsupportedInstallation == role = "package" /\ declared

\* searchVisiblePackage: the nearest installed package, unless an installation
\* without node_modules is nearer; that one is an error for a package that the
\* context declares.
FindPackage ==
    LET search == Search(request.context, Holders(layout, Wanted) \cup Marked(layout))
        at     == search.at
        hit    == search.end = "found" /\ at \in Holders(layout, Wanted)
        where  == Location(Slot[at][Wanted], at)
    IN  /\ pc = "search"
        /\ Observe(Presences({Slot[a][Wanted] : a \in search.visited})
                   \cup UNION {MarkerChecks(a) : a \in search.visited \ (IF hit THEN {at} ELSE {})})
        /\ IF search.end = "limit" THEN Fail("limit") /\ UNCHANGED <<package, provider>>
           ELSE IF hit
           THEN /\ pc' = "repository"
                /\ IF role = "package" THEN package' = where /\ UNCHANGED provider
                   ELSE provider' = where /\ UNCHANGED package
                /\ UNCHANGED error
           ELSE IF role = "provider" THEN pc' = "resolve" /\ UNCHANGED <<error, package, provider>>
           ELSE /\ Fail(IF search.end = "found" /\ RejectsUnsupportedInstallation THEN "unsupported" ELSE "missing")
                /\ UNCHANGED <<package, provider>>
        /\ UNCHANGED <<layout, changes, request, role, declared, declaration, authority, manifests,
                       provenance, followed>>

\* visibleRepositoryRoot: the nearest workspace above the context.
FindRepository ==
    LET search == AncestorManifest(request.context,
                                   {a \in Sound : Manifest(a).workspaces \/ a \in layout.markers["workspace"]})
        plain  == {a \in ManifestsOn(search) : ~IsBroken(Manifest(a)) /\ ~Manifest(a).workspaces}
        at(where) == IF search.end = "found" THEN [where EXCEPT !.repository = search.at] ELSE where
    IN  /\ pc = "repository"
        /\ SeesManifests(search, {<<"workspace", a>> : a \in plain})
        /\ IF search.end = "limit" THEN Fail("limit") /\ UNCHANGED <<package, provider>>
           ELSE IF Broken(search) THEN Fail("identity") /\ UNCHANGED <<package, provider>>
           ELSE IF role = "package"
           THEN /\ package' = at(package)
                /\ pc' = (IF request.kind = "dependency" THEN "done" ELSE "manifest")
                /\ UNCHANGED <<error, provider>>
           ELSE provider' = at(provider) /\ pc' = "resolve" /\ UNCHANGED <<error, package>>
        /\ UNCHANGED <<layout, changes, request, role, declared, declaration, authority, provenance,
                       followed>>

\* canonicalPackageBoundary: where a location leads now.
Follow(where) ==
    followed' = followed \cup (IF where = None THEN {} ELSE {<<where.root, Real(layout, where.root)>>})

\* readInstalledManifest, of the package; its provider is looked for next.
ReadPackage ==
    LET m == Manifest(package.root)
    IN  /\ pc = "manifest"
        /\ Observe(Contents({package.root}))
        /\ Keep({package.root})
        /\ Follow(package)
        /\ IF m = None \/ IsBroken(m) \/ m.identity = None
              THEN Fail("identity") /\ UNCHANGED <<role, package>>
              ELSE /\ UNCHANGED error
                   /\ package' = [package EXCEPT !.canonical = Real(layout, package.root)]
                   /\ IF request.kind = "platform" THEN pc' = "resolve" /\ UNCHANGED role
                      ELSE pc' = "search" /\ role' = "provider"
        /\ UNCHANGED <<layout, changes, request, declared, provider, declaration, authority, provenance>>

-----------------------------------------------------------------------------
(* The authority of the declaration.                                       *)

\* availableDeclarationRoots.
Roots == {package.root, package.canonical} \cup
         (IF provider = None THEN {} ELSE {provider.root, Real(layout, provider.root)})

\* selectResolutionVariant, of a subpath that is declared (assertPublicSubpath):
\* what the compiler finds must lie in the package or in its provider.
Resolve ==
    LET item  == <<"resolution", request.package>>
        found == Value(layout, item)
    IN  /\ pc = "resolve"
        /\ Observe({item})
        /\ Follow(provider)
        /\ IF found = None THEN Fail("undeclared types") /\ UNCHANGED declaration
           ELSE IF ~\E r \in Roots : IsPathWithin(r, Dir[found])
           THEN Fail("escapes") /\ UNCHANGED declaration
           ELSE declaration' = found /\ pc' = "own" /\ UNCHANGED error
        /\ UNCHANGED <<layout, changes, request, role, declared, package, provider, authority, manifests,
                       provenance>>

\* findMaterializedPackageRoot: the nearest package of a node_modules directory.
Owner(l, d) == Search(d, Materialized \cap Has(l))

OwnerChecks(d) == Presences(Owner(layout, d).visited \cap Materialized)

\* assertNoNestedDeclarationOwner: what is wrong with a declaration in d as one of
\* the package at root.
Faults(l, root, d) ==
    LET owner == Owner(l, d)
    IN  IF owner.end = "limit" THEN {"limit"}
        ELSE IF owner.end = "found" /\ Real(l, owner.at) # root THEN {"nested"}
        ELSE {}

Take(where, root) ==
    /\ authority' = [root |-> root, logical |-> where.root, repository |-> where.repository,
                     identity |-> Manifest(where.root).identity]
    /\ pc' = "done"
    /\ UNCHANGED error

\* The declaration is one of the package; that of a platform module is in any case.
IsOwn == request.kind = "platform" \/ IsPathWithin(package.canonical, Dir[declaration])

\* Mutant of SelectPackage: a declaration in a nested package is accepted.
SelectPackageUnowned ==
    /\ pc = "own"
    /\ IsOwn
    /\ Observe(OwnerChecks(Dir[declaration]))
    /\ Take(package, package.canonical)
    /\ UNCHANGED <<layout, changes, request, role, declared, package, provider, declaration, manifests,
                   provenance, followed>>

\* selectedDeclarationPackage, of a declaration inside the package.
SelectPackage ==
    LET faults == Faults(layout, package.canonical, Dir[declaration])
    IN  /\ pc = "own"
        /\ IsOwn
        /\ Observe(OwnerChecks(Dir[declaration]))
        /\ IF faults # {} THEN Fail(The(faults)) /\ UNCHANGED authority
           ELSE Take(package, package.canonical)
        /\ UNCHANGED <<layout, changes, request, role, declared, package, provider, declaration, manifests,
                       provenance, followed>>

\* assertNoNestedDeclaredEntrypoint: the directory that the "types" of a manifest
\* without exports names.
DeclaredEntrypoint(m) == IF m.types = None \/ m.exports THEN {} ELSE {Dir[m.types]}

\* selectedDeclarationPackage, of a declaration that is not: the provider must
\* hold it, and its declared entrypoint must not be nested either.
SelectProvider ==
    LET root    == Real(layout, provider.root)
        m       == Manifest(provider.root)
        invalid == m = None \/ IsBroken(m) \/ m.identity = None
        entry   == IF invalid THEN {} ELSE DeclaredEntrypoint(m)
        nested  == UNION {Faults(layout, root, d) : d \in entry}
        owned   == entry \cup (IF invalid \/ nested # {} THEN {} ELSE {Dir[declaration]})
        faults  == UNION {Faults(layout, root, d) : d \in owned}
    IN  /\ pc = "own"
        /\ ~IsOwn
        /\ Follow(provider)
        /\ IF provider = None \/ ~IsPathWithin(root, Dir[declaration])
           THEN Fail("escapes") /\ UNCHANGED <<authority, proofVars>>
           ELSE /\ Observe(Contents({provider.root}) \cup UNION {OwnerChecks(d) : d \in owned})
                /\ Keep({provider.root})
                /\ IF invalid THEN Fail("identity") /\ UNCHANGED authority
                   ELSE IF faults # {} THEN Fail(The(faults)) /\ UNCHANGED authority
                   ELSE Take(provider, root)
        /\ UNCHANGED <<layout, changes, request, role, declared, package, provider, declaration,
                       provenance>>

\* readDeclarationProvenance: the package a declaration belongs to, None when
\* there is none or it lies outside the repository.  Manifests inside a package
\* may only set its format, and do not count.
ReadProvenance(f) ==
    LET owner  == Owner(layout, Dir[f])
        nested == owner.end = "found" /\ Real(layout, owner.at) # authority.root
        alone  == owner.end = "top" /\ ~IsPathWithin(authority.root, Dir[f])
        any    == AncestorManifest(Dir[f], Sound)
        read   == IF nested THEN {Real(layout, owner.at)} ELSE IF alone THEN {any.at} \ {None} ELSE {}
        named  == {Manifest(d).identity : d \in {e \in read : HasManifest(e) /\ ~IsBroken(Manifest(e))}}
        found  == IF nested \/ alone THEN named
                  ELSE IF owner.end = "limit" THEN {} ELSE {authority.identity}
    IN  /\ pc = "done"
        /\ authority # None
        /\ provenance = None
        /\ Observe(OwnerChecks(Dir[f]) \cup Contents(read)
                   \cup IF alone THEN Presences(any.visited) ELSE {})
        /\ Keep(read)
        /\ provenance' = [file |-> f,
                          identity |-> IF IsPathWithin(authority.repository, Dir[f]) /\ found # {}
                                       THEN The(found) ELSE None]
        /\ UNCHANGED <<layout, changes, request, pc, error, selectionVars, followed>>

\* Another process changes the installation.
Change ==
    /\ changes < MaxChanges
    /\ pc \notin {"done", "failed"}
    /\ layout' \in Neighbours[layout]
    /\ changes' = changes + 1
    /\ UNCHANGED <<request, pc, error, selectionVars, proofVars, provenance, followed>>

-----------------------------------------------------------------------------
Next ==
    \/ FindContext
    \/ FindPackage
    \/ FindRepository
    \/ ReadPackage
    \/ Resolve
    \/ SelectPackage
    \/ SelectProvider
    \/ \E f \in Declarations : ReadProvenance(f)
    \/ Change

Spec == Init /\ [][Next]_vars

-----------------------------------------------------------------------------
(* What is selected in an installation that does not change.               *)

Success(selection) == <<"selected", selection>>
Failure(why) == <<"failed", why>>

BrokenIn(l) == {d \in Has(l) : ManifestAt(l, d).broken}
NamedIn(l)  == {d \in Has(l) : ManifestAt(l, d).identity # None}

\* What the search for the manifest of the context looks for, and what it says:
\* whether it declares the package, and whether it is that package.
ContextsIn(l, r) == IF r.kind = "dependency" THEN BrokenIn(l) \cup NamedIn(l) ELSE Has(l)

Context(l, r) == Nearest(r.context, ContextsIn(l, r))

Declares(l, r) == \E d \in Context(l, r) : r.declared \in ManifestAt(l, d).dependencies

Itself(l, r) ==
    {d \in Context(l, r) : /\ r.kind = "dependency" /\ ManifestAt(l, d).identity = r.declared
                           /\ r.package = r.declared /\ ManifestAt(l, d).exports}

\* The nearest installation of a package, unless there is a marker first.
First(l, c, p) == Nearest(c, Holders(l, p) \cup Marked(l))
Found(l, c, p) == First(l, c, p) \cap Holders(l, p)

\* The nearest workspace, or a broken manifest before it.
SpacesIn(l) ==
    BrokenIn(l) \cup {d \in Has(l) : ManifestAt(l, d).workspaces \/ d \in l.markers["workspace"]}

Space(l, c) == Nearest(c, SpacesIn(l))

\* Where a package is that is found in a directory.
Installed(l, c, p) ==
    LET d == The(Found(l, c, p))
    IN  [root |-> Real(l, Slot[d][p]), logical |-> Slot[d][p],
         repository |-> The(IF Space(l, c) = {} THEN {d} ELSE Space(l, c))]

\* A package owns a declaration if neither its entrypoint nor the declaration
\* is in another one.
Attributed(l, where, entry, d) ==
    LET first  == UNION {Faults(l, where.root, e) : e \in entry}
        faults == IF first # {} THEN first ELSE Faults(l, where.root, d)
    IN  IF faults # {} THEN Failure(The(faults))
        ELSE Success([root |-> where.root, logical |-> where.logical, repository |-> where.repository,
                      identity |-> ManifestAt(l, where.logical).identity])

\* What is selected of a package that was found, and why it may not be.
Resolved(l, r) ==
    LET c     == r.context
        own   == Installed(l, c, r.package)
        found == l.resolves[r.package]
        types == TypesOf[r.package]
        other == Installed(l, c, types)
    IN  IF own.logical \notin NamedIn(l) THEN Failure("identity")
        ELSE IF r.kind = "package" /\ GivesUp(c, Holders(l, types) \cup Marked(l)) THEN Failure("limit")
        ELSE IF found = None THEN Failure("undeclared types")
        ELSE IF IsPathWithin(own.root, Dir[found]) THEN Attributed(l, own, {}, Dir[found])
        ELSE IF r.kind = "platform" \/ Found(l, c, types) = {} \/ ~IsPathWithin(other.root, Dir[found])
        THEN Failure("escapes")
        ELSE IF other.logical \notin NamedIn(l) THEN Failure("identity")
        ELSE Attributed(l, other, DeclaredEntrypoint(ManifestAt(l, other.logical)), Dir[found])

\* What is selected, or why nothing is.
Expected == [l \in Layouts |-> [r \in Requests |->
    LET c == r.context
        p == r.package
        itself == Itself(l, r) # {}
    IN  IF GivesUp(c, ContextsIn(l, r)) THEN Failure("limit")
        ELSE IF Context(l, r) \cap BrokenIn(l) # {} THEN Failure("identity")
        ELSE IF r.kind # "package" /\ ~itself /\ ~Declares(l, r) THEN Failure("undeclared")
        ELSE IF ~itself /\ GivesUp(c, Holders(l, p) \cup Marked(l)) THEN Failure("limit")
        ELSE IF ~itself /\ Found(l, c, p) = {}
        THEN Failure(IF First(l, c, p) # {} /\ Declares(l, r) THEN "unsupported" ELSE "missing")
        ELSE IF GivesUp(c, SpacesIn(l)) THEN Failure("limit")
        ELSE IF Space(l, c) \cap BrokenIn(l) # {} THEN Failure("identity")
        ELSE IF r.kind = "dependency" THEN Success(IF itself THEN The(Itself(l, r)) ELSE Installed(l, c, p).logical)
        ELSE Resolved(l, r)]]

Selected ==
    IF pc = "failed" THEN Failure(error)
    ELSE Success(IF request.kind = "dependency" THEN package.root ELSE authority)

Agrees(l) == \A item \in DOMAIN observed : Value(l, item) = observed[item]

-----------------------------------------------------------------------------
(* Properties.                                                             *)

\* Neither the package nor its provider was linked elsewhere between its search,
\* which observes where it leads, and the reading of its manifest and its root,
\* which follow it.
SameRoots == \A f \in followed : f[2] = observed[<<"presence", f[1]>>]

\* What was selected, or why nothing was, is so in every installation that
\* agrees with what was observed, whatever changed in between: nothing that
\* decides a selection escapes the proof (selectInspectableModule,
\* findVisiblePackageForDependency).  A package or provider that was linked
\* elsewhere while it was selected is the exception: only the key of the cache,
\* which has the canonical root of the selection, then keeps its outcome from
\* another use.
SelectionIsEvidenced ==
    pc \in {"done", "failed"} /\ cacheable /\ SameRoots =>
        \A l \in Layouts : Agrees(l) => Selected = Expected[l][request]

\* The package that is the authority of an inspection is also the one its entry
\* declaration is attributed to, and a declaration of another installed package
\* is never attributed to it (selectedDeclarationPackage,
\* readDeclarationProvenance).
AuthorityOwnsDeclarations ==
    provenance # None /\ changes = 0 /\ IsPathWithin(authority.repository, Dir[provenance.file]) =>
        /\ provenance.file = declaration => provenance.identity = authority.identity
        /\ \A a \in Nearest(Dir[provenance.file], {d \in Materialized : HasManifest(d)}) :
              provenance.identity = ManifestAt(layout, a).identity
=============================================================================
