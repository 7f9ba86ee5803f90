---------------------------- MODULE PublicSubpaths ----------------------------
(***************************************************************************)
(* The public subpaths of an installed package.                            *)
(*                                                                         *)
(* The exports of a package name subpaths exactly or by a pattern with one *)
(* wildcard, and lead each to a tree of targets.  A request for a subpath  *)
(* must match an export; a request for the package root may ask which      *)
(* subpaths there are.  For a pattern every target pattern that resolution *)
(* could reach is expanded over the files of the package, and a specifier  *)
(* that resolves to a declaration of the package is a public subpath.      *)
(*                                                                         *)
(* The files of a target pattern are found by a bounded traversal from the *)
(* parent of the directory that its prefix names; patterns with the same   *)
(* search root share one traversal.  It follows links inside the package.  *)
(* Each directory it reads is observed, so that a cached outcome is reused *)
(* only while the listings are the same.  The package may be changed while *)
(* the traversal runs: between the listing of a directory, the fingerprint *)
(* of the listing and the following of its entries, too.                   *)
(*                                                                         *)
(* A path is a sequence of names below the package root, and a wildcard    *)
(* stands for one or more whole names.  Each canonical path is always that *)
(* of a directory or always that of a file; what a directory lists, where  *)
(* a link leads and whether a directory is there at all may change.        *)
(***************************************************************************)
EXTENDS Naturals, Sequences, FiniteSets, TLC, SequencesExt, FiniteSetsExt

CONSTANTS Directories,  \* canonical directories
          Regular,      \* canonical files
          Inside,       \* those in the package
          Root,         \* the package root
          Place,        \* the paths below the root that those in the package have
          Names,
          UnsafeNames,  \* names no subpath may have
          Trees,        \* what the directories list: by name a kind and where it leads
          Targets,      \* the nodes of the export targets
          Target,       \* their kinds, children, and prefixes and suffixes of patterns
          Manifests,    \* the exports to consider: keys with their targets
          Resolvable,   \* the subpaths the compiler resolves to a declaration
          Bounds,       \* limits to consider
          MaxChanges,   \* bound on the changes to the tree
          None

\* An entry is a directory, a file or a link; a link may lead nowhere.
EntryKinds == {"directory", "file", "link"}

ASSUME SubpathsAssumption ==
    /\ IsFiniteSet(Directories) /\ IsFiniteSet(Regular)
    /\ Directories \cap Regular = {}
    /\ Inside \subseteq Directories \cup Regular
    /\ Root \in Directories \cap Inside
    /\ UnsafeNames \subseteq Names
    /\ None \notin Directories \cup Regular
    /\ Place \in [Inside -> SeqOf(Names, Cardinality(Inside))]
    /\ Place[Root] = <<>>
    /\ \A t \in Trees :
        /\ Root \in DOMAIN t /\ DOMAIN t \subseteq Directories
        /\ \A d \in DOMAIN t : \A n \in DOMAIN t[d] :
            LET e == t[d][n] IN
            /\ n \in Names /\ e.kind \in EntryKinds
            /\ e.to \in DOMAIN t \cup Regular \cup {None}
            /\ e.kind = "directory" => e.to \in DOMAIN t
            /\ e.kind = "file" => e.to \in Regular
            /\ e.kind # "link" /\ d \in Inside => e.to \in Inside /\ Place[e.to] = Append(Place[d], n)

VARIABLES
    tree,          \* the package as it is installed now
    changes,       \* how often it changed
    exports,       \* the exports of the manifest
    bounds,        \* MAX_PUBLIC_SUBPATHS and the limits of the traversals
    pc,
    error,         \* why the inspection failed
    todo,          \* export keys that are not expanded yet
    pending,       \* targets to visit with their depths, the next one first
    nodes,         \* targets visited
    controlled,    \* targets whose blocking is known (blockingTargets)
    patterns,      \* target patterns of the current key
    captured,      \* what their wildcards matched
    filesBySearchRoot,
    stack,         \* directories to read, the next one first
    listing,       \* the entries read of the first of them, by name their kinds
    files,         \* files found below the current search root
    entries,       \* directory entries read
    specifiers,    \* candidateSpecifiers
    found,         \* the public subpaths
    recorded,      \* whether there is an observer (observeEvidenceDirectory)
    observed,      \* the listings that were observed
    cacheable,     \* there is one, and no observation contradicted another
    opened,        \* by search root the tree it was opened in (history)
    fingerprint,   \* what the fingerprint of the listing says (history)
    steady         \* what was followed is what had just been fingerprinted (history)

requestVars == <<exports, bounds, recorded>>
targetVars  == <<pending, nodes, controlled, patterns, captured>>
fileVars    == <<filesBySearchRoot, stack, listing, files, entries, opened, fingerprint, steady>>
proofVars   == <<observed, cacheable>>
vars == <<tree, changes, requestVars, pc, error, todo, targetVars, fileVars, specifiers,
          found, proofVars>>

Init ==
    /\ tree \in Trees
    /\ changes = 0
    /\ exports \in Manifests
    /\ bounds \in Bounds
    /\ pc = "idle"
    /\ error = None
    /\ todo = <<>>
    /\ pending = <<>> /\ nodes = 0 /\ controlled = {}
    /\ patterns = <<>> /\ captured = {}
    /\ filesBySearchRoot = <<>> /\ stack = <<>> /\ listing = <<>> /\ files = {}
    /\ entries = 0
    /\ opened = <<>> /\ fingerprint = None /\ steady = TRUE
    /\ specifiers = {} /\ found = {}
    /\ recorded \in BOOLEAN
    /\ observed = <<>> /\ cacheable = recorded

Fail(limit) == pc' = "failed" /\ error' = limit

-----------------------------------------------------------------------------
(* Names and patterns.                                                     *)

\* isSafePublicSubpathKey, of a key without a wildcard.
SafeSubpath(path) == \A i \in DOMAIN path : path[i] \notin UnsafeNames

\* publicSubpathEntries: a key whose target is null exports nothing.
Usable ==
    {e \in UNION {ToSet(m) : m \in Manifests} :
        Target[e.target].kind # "null" /\ SafeSubpath(e.prefix \o e.suffix)}

PublicSubpathEntries == SelectSeq(exports, LAMBDA e : e \in Usable)

\* What the wildcard between a prefix and a suffix stands for in a path.
Capture(prefix, suffix, path) ==
    IF /\ IsPrefix(prefix, path) /\ IsSuffix(suffix, path)
       /\ Len(path) > Len(prefix) + Len(suffix)
    THEN {SubSeq(path, Len(prefix) + 1, Len(path) - Len(suffix))}
    ELSE {}

\* Mutant of KeyMatches: the length of the path is off by one.
KeyMatchesLonger(key, path) ==
    IF key.exact THEN key.prefix = path
    ELSE /\ Capture(key.prefix, key.suffix, path) # {}
         /\ Len(path) > Len(key.prefix) + Len(key.suffix) + 1

\* publicSubpathKeyMatches.
KeyMatches(key, path) ==
    IF key.exact THEN key.prefix = path
    ELSE Capture(key.prefix, key.suffix, path) # {}

\* assertPublicSubpath.
IsDeclared(path) == \E i \in DOMAIN PublicSubpathEntries : KeyMatches(PublicSubpathEntries[i], path)

\* concretePublicSubpathSpecifier.
ConcreteSubpaths(key, captures) ==
    {path \in {key.prefix \o c \o key.suffix : c \in captures} : SafeSubpath(path)}

-----------------------------------------------------------------------------
(* The export targets.                                                     *)

\* Arrays take every child, objects those whose condition applies.
ApplicableChildren(t) ==
    LET children == SelectSeq(Target[t].children, LAMBDA c : c.applies)
    IN  [i \in DOMAIN children |-> children[i].target]

IsContainer(t) == Target[t].kind \in {"array", "object"}

\* definitelyBlocksFallback: null does, and what has such a child.
Blocks[t \in Targets] ==
    \/ Target[t].kind = "null"
    \/ IsContainer(t) /\ \E i \in DOMAIN ApplicableChildren(t) : Blocks[ApplicableChildren(t)[i]]

\* reachableFallbackTargets: what follows a blocking target is never tried.
ReachableTargets(children) ==
    LET blocking == {i \in DOMAIN children : Blocks[children[i]]}
    IN  IF blocking = {} THEN children ELSE SubSeq(children, 1, Min(blocking))

\* calculateBlockingTarget: the containers looked at, with their depth, to find
\* whether each of these targets blocks, up to the first that does.
RECURSIVE Controls(_, _)
Controls(children, depth) ==
    UNION {LET t == ReachableTargets(children)[i]
           IN  IF IsContainer(t)
               THEN {<<t, depth>>} \cup Controls(ApplicableChildren(t), depth + 1)
               ELSE {} :
           i \in DOMAIN ReachableTargets(children)}

-----------------------------------------------------------------------------
(* The files of the package.                                               *)

\* Where a path leads, link by link; None when it leads nowhere.
RECURSIVE Walk(_, _, _)
Walk(t, d, path) ==
    IF path = <<>> THEN d
    ELSE IF d \notin DOMAIN t THEN None
    ELSE IF Head(path) \notin DOMAIN t[d] THEN None
    ELSE Walk(t, t[d][Head(path)].to, Tail(path))

IsReadable(t, d) == d \in DOMAIN t /\ d \in Inside

\* Where an entry of a directory leads.
Leads(t, d, name) == Walk(t, d, <<name>>)

\* fingerprintInstalledEvidenceDirectory: a listing under the canonical path that
\* the directory has by now, with the kinds that were read and where each entry
\* leads by now; None when the path leads nowhere any more.
Fingerprint(d, list) ==
    LET path == Walk(tree, Root, Place[d])
    IN  IF path = None THEN None
        ELSE [path    |-> path,
              entries |-> [n \in DOMAIN list |-> [kind |-> list[n], to |-> Leads(tree, path, n)]]]

\* observeDirectory: a directory that is gone, or was seen otherwise before,
\* makes the outcome unfit for the cache.
Observe(print) ==
    LET seen == print # None /\ print.path \in DOMAIN observed
    IN  /\ observed' = IF cacheable /\ print # None /\ ~seen
                       THEN observed @@ (print.path :> print.entries) ELSE observed
        /\ cacheable' = (cacheable /\ print # None /\ (seen => observed[print.path] = print.entries))

-----------------------------------------------------------------------------
(* Selection.                                                              *)

\* selectResolutionVariant: a subpath must be declared, and lead to a
\* declaration inside the package.
Select(path) ==
    /\ pc = "idle"
    /\ IF path # <<>> /\ ~IsDeclared(path) THEN Fail("undeclared")
       ELSE IF path \notin Resolvable THEN Fail("unresolved")
       ELSE pc' = (IF path = <<>> THEN "selected" ELSE "answered") /\ UNCHANGED error
    /\ UNCHANGED <<tree, changes, requestVars, todo, targetVars, fileVars, specifiers, found,
                   proofVars>>

\* assertPublicSubpathCount.
TooManySubpaths(count) == count > bounds.subpaths

\* readPublicSubpaths, which is called at most once.
Enumerate ==
    /\ pc = "selected"
    /\ IF TooManySubpaths(Len(PublicSubpathEntries))
          THEN Fail("subpaths") /\ UNCHANGED todo
          ELSE pc' = "keys" /\ todo' = PublicSubpathEntries /\ UNCHANGED error
    /\ UNCHANGED <<tree, changes, requestVars, targetVars, fileVars, specifiers, found, proofVars>>

\* The specifiers of a key are added one at a time, with a check of their count.
Add(paths) ==
    /\ specifiers' = specifiers \cup paths
    /\ todo' = Tail(todo)
    /\ IF TooManySubpaths(Cardinality(specifiers')) THEN Fail("subpaths")
       ELSE pc' = "keys" /\ UNCHANGED error

ExactKey ==
    /\ pc = "keys"
    /\ todo # <<>>
    /\ Head(todo).exact
    /\ Add({Head(todo).prefix})
    /\ UNCHANGED <<tree, changes, requestVars, targetVars, fileVars, found, proofVars>>

PatternKey ==
    /\ pc = "keys"
    /\ todo # <<>>
    /\ ~Head(todo).exact
    /\ pending' = <<[target |-> Head(todo).target, depth |-> 0]>>
    /\ patterns' = <<>>
    /\ captured' = {}
    /\ pc' = "targets"
    /\ UNCHANGED <<tree, changes, requestVars, error, todo, nodes, controlled, fileVars, specifiers,
                   found, proofVars>>

\* exportTargetPatterns: the traversal of one key's targets, whose counters and
\* known blocking targets all keys share.
TakeTarget ==
    LET t        == Head(pending).target
        depth    == Head(pending).depth
        children == IF IsContainer(t) THEN ApplicableChildren(t) ELSE <<>>
        looked   == {c \in Controls(children, 0) : c[1] \notin controlled}
        next     == ReachableTargets(children)
    IN  /\ pc = "targets"
        /\ pending # <<>>
        /\ nodes' = nodes + 1
        /\ controlled' = controlled \cup {c[1] : c \in looked}
        /\ IF \/ nodes' > bounds.targets \/ depth > bounds.targetDepth
              \/ Cardinality(controlled') > bounds.targets
              \/ \E c \in looked : c[2] > bounds.targetDepth
              THEN Fail("targets") /\ UNCHANGED <<pending, patterns>>
              ELSE /\ patterns' = IF Target[t].kind = "pattern" THEN Append(patterns, t) ELSE patterns
                   /\ pending' = [i \in DOMAIN next |->
                                     [target |-> next[i], depth |-> depth + 1]] \o Tail(pending)
                   /\ UNCHANGED <<pc, error>>
        /\ UNCHANGED <<tree, changes, requestVars, todo, captured, fileVars, specifiers, found,
                       proofVars>>

TargetsDone ==
    /\ pc = "targets"
    /\ pending = <<>>
    /\ pc' = "captures"
    /\ UNCHANGED <<tree, changes, requestVars, error, todo, targetVars, fileVars, specifiers, found,
                   proofVars>>

-----------------------------------------------------------------------------
(* Captures.                                                               *)

\* The parent of the directory that the prefix names; the package root when the
\* prefix is empty.
SearchRootOf(p) == Front(Target[p].prefix)

SearchRoot == SearchRootOf(Head(patterns))

Opened == opened' = opened @@ (SearchRoot :> tree)

\* A search root without files.
NoFiles ==
    /\ filesBySearchRoot' = filesBySearchRoot @@ (SearchRoot :> {})
    /\ UNCHANGED <<stack, pc>>

ReadFrom(d) ==
    /\ stack' = <<[directory |-> d, path |-> SearchRoot, ancestors |-> {d}]>>
    /\ pc' = "read"
    /\ UNCHANGED filesBySearchRoot

\* Mutant of OpenSearchRoot: a missing root leaves no observation.
OpenSearchRootUnobserved ==
    LET d == Walk(tree, Root, SearchRoot)
    IN  /\ pc = "captures"
        /\ patterns # <<>>
        /\ SearchRoot \notin DOMAIN filesBySearchRoot
        /\ Opened
        /\ IF IsReadable(tree, d) THEN ReadFrom(d) ELSE NoFiles
        /\ files' = {}
        /\ UNCHANGED <<tree, changes, requestVars, error, todo, targetVars, listing, entries,
                       fingerprint, steady, specifiers, found, proofVars>>

\* captures, of a search root that was not read yet (readPackageSearchRoot): one
\* that cannot be read, or lies outside the package, has no files.  When there is
\* an observer, its nearest readable ancestor is looked for.
OpenSearchRoot ==
    LET d == Walk(tree, Root, SearchRoot)
    IN  /\ pc = "captures"
        /\ patterns # <<>>
        /\ SearchRoot \notin DOMAIN filesBySearchRoot
        /\ Opened
        /\ IF IsReadable(tree, d) THEN ReadFrom(d)
           ELSE IF ~recorded THEN NoFiles
           ELSE /\ stack' = <<[directory |-> None, path |-> Front(SearchRoot), ancestors |-> {}]>>
                /\ pc' = "ancestors"
                /\ UNCHANGED filesBySearchRoot
        /\ files' = {}
        /\ UNCHANGED <<tree, changes, requestVars, error, todo, targetVars, listing, entries,
                       fingerprint, steady, specifiers, found, proofVars>>

\* observeNearestReadableAncestor: one directory above the search root, the
\* nearest first; the package root itself can be read.
TryAncestor ==
    LET path == Head(stack).path
        d    == Walk(tree, Root, path)
    IN  /\ pc = "ancestors"
        /\ IF IsReadable(tree, d)
              THEN stack' = <<[Head(stack) EXCEPT !.directory = d]>> /\ pc' = "read"
              ELSE stack' = <<[Head(stack) EXCEPT !.path = Front(path)]>> /\ UNCHANGED pc
        /\ UNCHANGED <<tree, changes, requestVars, error, todo, targetVars, filesBySearchRoot, listing,
                       files, entries, opened, fingerprint, steady, specifiers, found, proofVars>>

\* What is read is an ancestor of the search root, to be observed and no more.
IsAncestor(at) == Len(at.path) < Len(SearchRoot)

\* readBoundedPackageFiles, readBoundedDirectoryEntries: the entries of one
\* directory, which count before they are used.  It is opened by its canonical
\* path, where there may be a link by now.
ListEntries ==
    LET at == Head(stack)
        d  == Walk(tree, Root, Place[at.directory])
    IN  /\ pc = "read"
        /\ stack # <<>>
        /\ IF Len(at.path) > Len(SearchRoot) + bounds.depth THEN Fail("files") /\ UNCHANGED <<listing, entries>>
           ELSE IF d \notin DOMAIN tree THEN Fail("unreadable") /\ UNCHANGED <<listing, entries>>
           ELSE /\ entries' = entries + Cardinality(DOMAIN tree[d])
                /\ IF entries' > bounds.entries THEN Fail("files") /\ UNCHANGED listing
                   ELSE /\ listing' = [n \in DOMAIN tree[d] |-> tree[d][n].kind]
                        /\ pc' = "listed"
                        /\ UNCHANGED error
        /\ UNCHANGED <<tree, changes, requestVars, todo, targetVars, filesBySearchRoot, stack, files,
                       opened, fingerprint, steady, specifiers, found, proofVars>>

\* Of a missing search root: the ancestor was the nearest that could be read when
\* the root was found missing, and its entry on the way to the root led where the
\* fingerprint says (history).
MissingAsFingerprinted(print) ==
    LET at   == Head(stack)
        name == SearchRoot[Len(at.path) + 1]
        then == opened[SearchRoot]
        to   == Leads(then, Walk(then, Root, at.path), name)
    IN  /\ print # None
        /\ print.path = Walk(then, Root, at.path)
        /\ IsReadable(then, print.path)
        /\ ~IsReadable(then, to)
        /\ to = (IF name \in DOMAIN print.entries THEN print.entries[name].to ELSE None)

\* observeEvidenceDirectory, of the entries that were listed; nothing without an
\* observer.  An ancestor has been dealt with then.
FingerprintListing ==
    LET at    == Head(stack)
        print == Fingerprint(at.directory, listing)
    IN  /\ pc = "listed"
        /\ Observe(print)
        /\ IF IsAncestor(at)
              THEN /\ stack' = <<>> /\ listing' = <<>> /\ pc' = "read"
                   /\ steady' = (steady /\ MissingAsFingerprinted(print))
                   /\ UNCHANGED fingerprint
              ELSE /\ fingerprint' = print
                   /\ pc' = "fingerprinted"
                   /\ UNCHANGED <<stack, listing, steady>>
        /\ UNCHANGED <<tree, changes, requestVars, error, todo, targetVars, filesBySearchRoot, files,
                       entries, opened, specifiers, found>>

\* Mutant of Descends: a directory is entered again and again.
DescendsAlways(ancestors, d) == d \in Inside

\* A directory is not entered again below itself, by whatever name.
Descends(ancestors, d) == d \in Inside /\ d \notin ancestors

\* readPackageEntry: each entry is followed by its name below the search root, and
\* one that leads out of the package is left out.  What the listing says is a
\* directory or a file is taken to be one; of a link it is seen now.
FollowEntries ==
    LET at      == Head(stack)
        to(n)   == Walk(tree, Root, Append(at.path, n))
        inside  == {n \in DOMAIN listing : to(n) \in Inside}
        kind(n) == IF listing[n] # "link" THEN listing[n]
                   ELSE IF to(n) \in Directories THEN "directory" ELSE "file"
        below   == {n \in inside : kind(n) = "directory" /\ Descends(at.ancestors, to(n))}
    IN  /\ pc = "fingerprinted"
        /\ files' = files \cup {Append(at.path, n) : n \in {m \in inside : kind(m) = "file"}}
        /\ stack' = SetToSeq({[directory |-> to(n), path |-> Append(at.path, n),
                               ancestors |-> at.ancestors \cup {to(n)}] : n \in below}) \o Tail(stack)
        /\ steady' = (steady /\ fingerprint = [path |-> at.directory,
              entries |-> [n \in DOMAIN listing |-> [kind |-> listing[n], to |-> to(n)]]])
        /\ listing' = <<>> /\ fingerprint' = None
        /\ pc' = "read"
        /\ UNCHANGED <<tree, changes, requestVars, error, todo, targetVars, filesBySearchRoot, entries,
                       opened, specifiers, found, proofVars>>

CloseSearchRoot ==
    /\ pc = "read"
    /\ stack = <<>>
    /\ filesBySearchRoot' = filesBySearchRoot @@ (SearchRoot :> files)
    /\ pc' = "captures"
    /\ UNCHANGED <<tree, changes, requestVars, error, todo, targetVars, stack, listing, files, entries,
                   opened, fingerprint, steady, specifiers, found, proofVars>>

\* captures: patterns with the same search root share its files.
CapturePattern ==
    /\ pc = "captures"
    /\ patterns # <<>>
    /\ SearchRoot \in DOMAIN filesBySearchRoot
    /\ captured' = captured \cup
          UNION {Capture(Target[Head(patterns)].prefix, Target[Head(patterns)].suffix, path) :
                 path \in filesBySearchRoot[SearchRoot]}
    /\ patterns' = Tail(patterns)
    /\ UNCHANGED <<tree, changes, requestVars, pc, error, todo, pending, nodes, controlled, fileVars,
                   specifiers, found, proofVars>>

AddCaptures ==
    /\ pc = "captures"
    /\ patterns = <<>>
    /\ Add(ConcreteSubpaths(Head(todo), captured))
    /\ UNCHANGED <<tree, changes, requestVars, targetVars, fileVars, found, proofVars>>

\* isResolvablePublicSubpath, of each candidate.
Resolve ==
    /\ pc = "keys"
    /\ todo = <<>>
    /\ found' = specifiers \cap Resolvable
    /\ pc' = "done"
    /\ UNCHANGED <<tree, changes, requestVars, error, todo, targetVars, fileVars, specifiers, proofVars>>

\* Another process changes the package.
Change ==
    /\ changes < MaxChanges
    /\ pc \in {"keys", "targets", "captures", "ancestors", "read", "listed", "fingerprinted"}
    /\ tree' \in Trees \ {tree}
    /\ changes' = changes + 1
    /\ UNCHANGED <<requestVars, pc, error, todo, targetVars, fileVars, specifiers, found, proofVars>>

-----------------------------------------------------------------------------
Next ==
    \/ \E path \in {<<>>} \cup Resolvable : Select(path)
    \/ Enumerate
    \/ ExactKey
    \/ PatternKey
    \/ TakeTarget
    \/ TargetsDone
    \/ OpenSearchRoot
    \/ TryAncestor
    \/ ListEntries
    \/ FingerprintListing
    \/ FollowEntries
    \/ CloseSearchRoot
    \/ CapturePattern
    \/ AddCaptures
    \/ Resolve
    \/ Change

Spec == Init /\ [][Next]_vars
-----------------------------------------------------------------------------
(* What there is to find, without stacks, memos and counters.              *)

\* The targets resolution may reach from a target, with their depths.
RECURSIVE Reach(_, _)
Reach(t, depth) ==
    LET children == IF IsContainer(t) THEN ApplicableChildren(t) ELSE <<>>
    IN  {<<t, depth>>} \cup
        UNION {Reach(children[i], depth + 1) :
               i \in {j \in DOMAIN children : \A k \in 1..(j - 1) : ~Blocks[children[k]]}}

PatternEntries(manifest) == {i \in DOMAIN manifest : ~manifest[i].exact /\ manifest[i] \in Usable}

Visits(manifest) == UNION {Reach(manifest[i].target, 0) : i \in PatternEntries(manifest)}

Patterns(t) == {p \in {r[1] : r \in Reach(t, 0)} : Target[p].kind = "pattern"}

SearchRoots(manifest) ==
    UNION {{SearchRootOf(p) : p \in Patterns(manifest[i].target)} : i \in PatternEntries(manifest)}

\* The paths below a search root that enter no directory twice and never leave
\* the package: to directories, and to files.
Trails(t, root) ==
    {p \in SeqOf(Names, Cardinality(Directories)) :
        LET at == [n \in 0..Len(p) |-> Walk(t, Root, root \o SubSeq(p, 1, n))]
        IN  /\ \A n \in 0..Len(p) : at[n] \in Inside /\ (n < Len(p) => at[n] \in DOMAIN t)
            /\ \A m, n \in 0..Len(p) : m # n => at[m] # at[n]}

DirectoryTrails(t, root) == {p \in Trails(t, root) : Walk(t, Root, root \o p) \in DOMAIN t}

FilesBelow(t, root) ==
    {root \o p : p \in {q \in Trails(t, root) : Walk(t, Root, root \o q) \in Regular}}

\* The candidates of a manifest in a tree.
Candidates == [manifest \in Manifests, t \in Trees |->
    {manifest[i].prefix : i \in {j \in DOMAIN manifest : manifest[j].exact /\ manifest[j] \in Usable}}
    \cup UNION {LET key == manifest[i] IN
                UNION {LET captures == UNION {Capture(Target[p].prefix, Target[p].suffix, f) :
                                              f \in FilesBelow(t, SearchRootOf(p))}
                       IN  ConcreteSubpaths(key, captures) :
                       p \in Patterns(key.target)} :
                i \in PatternEntries(manifest)}]

\* The nearest ancestor of a search root that can be read.
NearestReadableAncestor(t, root) ==
    LET at(n) == Walk(t, Root, SubSeq(root, 1, n))
    IN  at(Max({n \in 0..(Len(root) - 1) : IsReadable(t, at(n))}))

\* The entries that are read: those of each directory a search root leads to, by
\* each way to it, or for an observer those of its nearest readable ancestor.
Entries(t, root, observer) ==
    LET trails == DirectoryTrails(t, root)
        listed(d) == Cardinality(DOMAIN t[d])
    IN  IF trails # {} THEN MapThenSumSet(LAMBDA p : listed(Walk(t, Root, root \o p)), trails)
        ELSE IF observer THEN listed(NearestReadableAncestor(t, root)) ELSE 0

\* What of a manifest in a tree is beyond its limits.
Exceeded == [manifest \in Manifests, t \in Trees, b \in Bounds, observer \in BOOLEAN |->
    {limit \in {"subpaths", "targets", "files"} :
        CASE limit = "subpaths" ->
                \/ Cardinality({i \in DOMAIN manifest : manifest[i] \in Usable}) > b.subpaths
                \/ Cardinality(Candidates[manifest, t]) > b.subpaths
          [] limit = "targets" ->
                \/ Cardinality(Visits(manifest)) > b.targets
                \/ \E v \in Visits(manifest) : v[2] > b.targetDepth
          [] OTHER ->
                \/ MapThenSumSet(LAMBDA r : Entries(t, r, observer), SearchRoots(manifest)) > b.entries
                \/ \E r \in SearchRoots(manifest) : \E p \in DirectoryTrails(t, r) : Len(p) > b.depth}]

\* The links inside the package that a search root goes through.
RootLinks(t, root) ==
    {<<Walk(t, Root, SubSeq(root, 1, n - 1)), root[n]>> :
        n \in {m \in DOMAIN root :
                 LET d == Walk(t, Root, SubSeq(root, 1, m - 1)) IN
                 /\ IsReadable(t, d) /\ root[m] \in DOMAIN t[d]
                 /\ t[d][root[m]].kind = "link" /\ IsReadable(t, t[d][root[m]].to)}}

SameRootLinks(t1, t2, root) ==
    \A link \in RootLinks(t1, root) :
        /\ link[1] \in DOMAIN t2 /\ link[2] \in DOMAIN t2[link[1]]
        /\ t1[link[1]][link[2]] = t2[link[1]][link[2]]

-----------------------------------------------------------------------------
(* Properties.                                                             *)

\* The subpaths that were found are those of every package that has the listings
\* that were observed, whatever changed meanwhile or changes later: an outcome
\* that is reused because its proof still holds is still right.  Links on the way
\* to a search root are not observed, and are taken to be the same.  No change may
\* fall in between the steps with one directory and be seen by only some of them:
\* its entries are followed to where its fingerprint says, and the ancestor of a
\* missing search root is fingerprinted as it was when the root was found missing.
DiscoveryIsEvidenced ==
    pc = "done" /\ cacheable /\ steady =>
        \A t \in Trees :
            /\ \A d \in DOMAIN observed : d \in DOMAIN t /\ t[d] = observed[d]
            /\ \A root \in DOMAIN opened : SameRootLinks(opened[root], t, root)
            => specifiers = Candidates[exports, t]

\* A package that does not change is listed exactly when it is within the limits,
\* and refused for a limit that it exceeds; links that lead in circles are not a
\* reason to refuse it (the counters of readPublicSubpaths and its traversals).
LimitsAreExact ==
    LET exceeded == Exceeded[exports, tree, bounds, recorded]
    IN  changes = 0 =>
            /\ pc = "done" => exceeded = {}
            /\ pc = "failed" /\ error \notin {"undeclared", "unresolved"} => error \in exceeded

\* What is listed can be asked for: the export that led to a subpath is one that
\* its name matches (readPublicSubpaths, assertPublicSubpath).
SubpathsAreDeclared ==
    pc = "done" => \A path \in found : IsDeclared(path) /\ path \in Resolvable
=============================================================================
