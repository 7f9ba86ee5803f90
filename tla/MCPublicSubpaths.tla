--------------------------- MODULE MCPublicSubpaths ---------------------------
(***************************************************************************)
(* A package with the directories dist and gen.  dist may be a link to     *)
(* gen, a link out of the package, or absent; dist and gen may link to     *)
(* each other or to the root, so that a file has several names and the     *)
(* links lead in circles.  Patterns below dist and gen share the package   *)
(* root as their search root; that of tDeep is dist/b, which may be a link *)
(* to the root or to gen, a file, or missing with or without dist.         *)
(***************************************************************************)
EXTENDS PublicSubpaths

CONSTANTS root, dist, gen, ext, first, second, outer,
          nameA, nameB, nameD, nameG, bad,
          tDist, tGen, tRoot, tDeep, tNull, tOther, tFork, tList, tShut, tDefault

Entry(kind, to) == [kind |-> kind, to |-> to]

Listed(rootDist, distB, genA) ==
    (root :> (IF rootDist = None THEN nameG :> Entry("directory", gen)
              ELSE (nameD :> rootDist) @@ (nameG :> Entry("directory", gen))))
    @@ (gen :> IF genA = None THEN nameB :> Entry("file", second)
               ELSE (nameB :> Entry("file", second)) @@ (nameA :> genA))
    @@ (ext :> (nameA :> Entry("file", outer)))
    @@ (IF rootDist # None /\ rootDist.kind = "directory"
        THEN dist :> ((nameA :> Entry("file", first)) @@ (nameB :> distB)) ELSE <<>>)

InstalledTrees ==
    {Listed(Entry("directory", dist), distB, genA) :
        distB \in {Entry("link", root), Entry("link", gen)},
        genA \in {None, Entry("link", dist), Entry("link", first)}}
    \cup
    {Listed(rootDist, None, genA) :
        rootDist \in {None, Entry("link", gen), Entry("link", ext)},
        genA \in {None, Entry("link", root)}}

Placed ==
    (root :> <<>>) @@ (dist :> <<nameD>>) @@ (gen :> <<nameG>>)
    @@ (first :> <<nameD, nameA>>) @@ (second :> <<nameG, nameB>>)

Leaf(kind) == [kind |-> kind, children |-> <<>>]
Pattern(prefix, suffix) ==
    [kind |-> "pattern", children |-> <<>>, prefix |-> prefix, suffix |-> suffix]
Object(children) == [kind |-> "object", children |-> children]
If(applies, target) == [applies |-> applies, target |-> target]

\* tFork is {"types": [null, tGen], "require": ..., "default": tDist}: its first
\* child blocks what follows, tShut blocks after what it leads to.
ExportTargets ==
    (tDist :> Pattern(<<nameD>>, <<>>)) @@ (tGen :> Pattern(<<nameG>>, <<>>))
    @@ (tRoot :> Pattern(<<>>, <<nameB>>)) @@ (tDeep :> Pattern(<<nameD, nameB, nameG>>, <<>>))
    @@ (tNull :> Leaf("null")) @@ (tOther :> Leaf("other"))
    @@ (tList :> [kind |-> "array", children |-> <<If(TRUE, tShut), If(TRUE, tGen)>>])
    @@ (tShut :> Object(<<If(FALSE, tOther), If(TRUE, tDeep), If(TRUE, tNull)>>))
    @@ (tFork :> Object(<<If(FALSE, tNull), If(TRUE, tDist), If(TRUE, tDefault)>>))
    @@ (tDefault :> [kind |-> "array", children |-> <<If(TRUE, tOther), If(TRUE, tRoot)>>])

Exact(path, target) == [exact |-> TRUE, prefix |-> path, suffix |-> <<>>, target |-> target]
Wild(prefix, suffix, target) == [exact |-> FALSE, prefix |-> prefix, suffix |-> suffix, target |-> target]

PackageManifests ==
    {<<Wild(<<>>, <<>>, tDist), Exact(<<nameA>>, tOther)>>,
     <<Wild(<<nameG>>, <<nameB>>, tFork), Exact(<<bad>>, tOther)>>,
     <<Wild(<<nameD>>, <<>>, tList), Exact(<<nameB>>, tNull)>>,
     <<Wild(<<>>, <<>>, tGen), Wild(<<nameD>>, <<>>, tDeep)>>}

ResolvedSubpaths ==
    {<<>>, <<nameA>>, <<nameB>>, <<nameG, nameA, nameB>>, <<nameD, nameA>>, <<nameD, nameB, nameA>>}

Limits(s, t, td, e, dp) ==
    [subpaths |-> s, targets |-> t, targetDepth |-> td, entries |-> e, depth |-> dp]

InspectionBounds == {Limits(3, 9, 9, 12, 2), Limits(9, 5, 2, 30, 9), Limits(9, 9, 1, 5, 9),
                     Limits(9, 2, 9, 30, 1), Limits(1, 9, 9, 30, 9)}
=============================================================================
