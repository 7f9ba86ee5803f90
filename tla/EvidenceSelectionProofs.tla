------------------------ MODULE EvidenceSelectionProofs ------------------------
(***************************************************************************)
(* Proofs that what is selected is so in every installation that agrees    *)
(* with what was observed, and that the authority of an inspection is the  *)
(* package its entry declaration belongs to, for any directories, packages *)
(* and installations, any depth of a search and any number of changes.     *)
(*                                                                         *)
(* The invariant relates the state to one installation at a time, which    *)
(* need not be the present one: to every one that agrees with the          *)
(* observations.  The manifests that were kept are those of such an        *)
(* installation, and each stage of the selection has found there what it   *)
(* went on with.  When nothing has changed the present installation is one *)
(* of them.                                                                *)
(***************************************************************************)
EXTENDS EvidenceSelection, TLAPS

LocationType == [root : Dirs, repository : Dirs, canonical : Dirs \cup {None}]

\* Where a location leads was observed when it was found.
IsSeen(where) == <<"presence", where.root>> \in DOMAIN observed

Typed ==
    /\ layout \in Layouts /\ request \in Requests /\ changes \in Nat
    /\ pc \in {"context", "search", "repository", "manifest", "resolve", "own", "done", "failed"}
    /\ role = "provider" => request.kind = "package"
    /\ role \in {"package", "provider"}
    /\ package # None => package \in LocationType /\ IsSeen(package)
    /\ provider # None => provider \in LocationType /\ IsSeen(provider)
    /\ \A f \in followed : <<"presence", f[1]>> \in DOMAIN observed
    /\ package # None /\ package.canonical # None => package.root \in DOMAIN manifests

\* What is known at each point.
Located ==
    /\ pc = "context" => role = "package"
    /\ pc \in {"context", "search"} /\ role = "package" => package = None
    /\ pc \notin {"context", "search", "failed"} \/ role = "provider" => package # None
    /\ role = "package" \/ pc = "search" => provider = None
    /\ pc = "repository" /\ role = "provider" => provider # None
    /\ pc \in {"manifest", "resolve", "own"} => request.kind # "dependency"
    /\ pc = "manifest" => role = "package"
    /\ pc \in {"resolve", "own"} => (role = "package" <=> request.kind = "platform")
    /\ pc = "own" => declaration \in Declarations
    /\ authority # None => pc = "done"
    /\ provenance # None => pc = "done"

-----------------------------------------------------------------------------
(* What holds in an installation that agrees with what was observed.       *)

Trusted(l) == cacheable /\ SameRoots /\ Agrees(l)

Types == TypesOf[request.package]

Remembered(l) == \A d \in DOMAIN manifests : manifests[d] = ManifestAt(l, d)

\* The context may ask for the package.
MayAsk(l, r) ==
    /\ ~GivesUp(r.context, ContextsIn(l, r)) /\ Context(l, r) \cap BrokenIn(l) = {}
    /\ r.kind # "package" => Itself(l, r) # {} \/ Declares(l, r)

Admitted(l) == MayAsk(l, request) /\ declared = Declares(l, request)

\* The package is the context itself or installed.
IsThere(l, r) ==
    Itself(l, r) = {} =>
        /\ ~GivesUp(r.context, Holders(l, r.package) \cup Marked(l))
        /\ Found(l, r.context, r.package) # {}

\* A package was found in the slot of a directory.
IsFound(l, p, where) ==
    /\ ~GivesUp(request.context, Holders(l, p) \cup Marked(l))
    /\ Found(l, request.context, p) # {}
    /\ where = Location(Slot[The(Found(l, request.context, p))][p], The(Found(l, request.context, p)))

\* No broken manifest hides the repository.
IsHoused(l) ==
    /\ ~GivesUp(request.context, SpacesIn(l))
    /\ Space(l, request.context) \cap BrokenIn(l) = {}

\* A package was found, and so was the repository it is in.
IsInstalled(l, p, where) ==
    /\ ~GivesUp(request.context, Holders(l, p) \cup Marked(l))
    /\ Found(l, request.context, p) # {}
    /\ where = Location(Installed(l, request.context, p).logical, Installed(l, request.context, p).repository)

\* The package was read, and where it leads is known.
IsRead(l) ==
    LET own == Installed(l, request.context, request.package)
    IN  /\ Admitted(l) /\ IsHoused(l)
        /\ ~GivesUp(request.context, Holders(l, request.package) \cup Marked(l))
        /\ Found(l, request.context, request.package) # {}
        /\ own.logical \in NamedIn(l)
        /\ package = [root |-> own.logical, repository |-> own.repository, canonical |-> own.root]

\* The provider was looked for.
IsProvided(l) ==
    \/ request.kind = "platform" /\ provider = None
    \/ request.kind = "package" /\ provider # None /\ IsInstalled(l, Types, provider)
    \/ /\ request.kind = "package" /\ provider = None
       /\ ~GivesUp(request.context, Holders(l, Types) \cup Marked(l))
       /\ Found(l, request.context, Types) = {}

\* The declaration lies in the package or in its provider.
IsResolved(l) ==
    /\ declaration = l.resolves[request.package] /\ declaration # None
    /\ \/ IsPathWithin(package.canonical, Dir[declaration])
       \/ provider # None /\ IsPathWithin(Real(l, provider.root), Dir[declaration])

\* The authority is a package that holds the declaration, and no other does.
IsOwned(l) ==
    /\ authority.root = Real(l, authority.logical)
    /\ authority.logical \in NamedIn(l)
    /\ authority.identity = ManifestAt(l, authority.logical).identity
    /\ IsPathWithin(authority.root, Dir[declaration])
    /\ Faults(l, authority.root, Dir[declaration]) = {}

Stage(l) ==
    /\ pc = "search" /\ role = "package" => Admitted(l) /\ Itself(l, request) = {}
    /\ pc = "repository" /\ role = "package" =>
          /\ Admitted(l)
          /\ \/ /\ Itself(l, request) # {}
                /\ package = Location(The(Itself(l, request)), The(Itself(l, request)))
             \/ Itself(l, request) = {} /\ IsFound(l, request.package, package)
    /\ pc = "manifest" => Admitted(l) /\ IsHoused(l) /\ IsInstalled(l, request.package, package)
    /\ pc \in {"resolve", "own"} \/ (role = "provider" /\ pc # "failed") => IsRead(l)
    /\ pc = "repository" /\ role = "provider" => IsFound(l, Types, provider)
    /\ pc \in {"resolve", "own"} => IsProvided(l)
    /\ pc = "own" => IsResolved(l)
    /\ authority # None => IsOwned(l)
    /\ pc \in {"done", "failed"} => Selected = Expected[l][request]

Evidenced(l) == Trusted(l) => Remembered(l) /\ Stage(l)

AllEvidenced == \A l \in Layouts : Evidenced(l)

Unchanged == changes = 0 => Trusted(layout)

Inv == Typed /\ Located /\ AllEvidenced /\ Unchanged /\ AuthorityOwnsDeclarations
-----------------------------------------------------------------------------
(* Directories.                                                            *)

\* A directory is above itself, and what is above it is in Dirs.
LEMMA AboveSelf == \A d \in Dirs : d \in Above[d] /\ Above[d] \subseteq Dirs
  BY DEF Above

\* What is above a directory is closed under Parent.
LEMMA AboveClosed == \A d \in Dirs : \A a \in Above[d] : Parent[a] \in Above[d]
<1> SUFFICES ASSUME NEW d \in Dirs, NEW a \in Above[d] PROVE Parent[a] \in Above[d]
  OBVIOUS
<1>1. a \in Dirs /\ Parent[a] \in Dirs
  BY AboveSelf, SelectionAssumption
<1>2. ASSUME NEW S \in SUBSET Dirs, d \in S, \A x \in S : Parent[x] \in S PROVE Parent[a] \in S
  <2>1. a \in S
    BY <1>2 DEF Above
  <2> QED
    BY <2>1, <1>2
<1> QED
  BY <1>1, <1>2 DEF Above

LEMMA AboveTransitive == \A d \in Dirs : \A a \in Above[d] : Above[a] \subseteq Above[d]
<1> SUFFICES ASSUME NEW d \in Dirs, NEW a \in Above[d], NEW b \in Above[a] PROVE b \in Above[d]
  OBVIOUS
<1>1. Above[d] \in SUBSET Dirs /\ a \in Dirs
  BY AboveSelf
<1>2. \A x \in Above[d] : Parent[x] \in Above[d]
  BY AboveClosed
<1> QED
  BY <1>1, <1>2 DEF Above

\* The walk up: what is above a directory is it and what is above its parent.
LEMMA AboveStep == \A d \in Dirs : \A a \in Above[d] : a = d \/ a \in Above[Parent[d]]
<1> SUFFICES ASSUME NEW d \in Dirs, NEW a \in Above[d] PROVE a \in {d} \cup Above[Parent[d]]
  OBVIOUS
<1> DEFINE S == {d} \cup Above[Parent[d]]
<1>1. Parent[d] \in Dirs
  BY SelectionAssumption
<1>2. S \in SUBSET Dirs /\ d \in S
  BY <1>1, AboveSelf
<1>3. \A x \in S : Parent[x] \in S
  BY <1>1, AboveSelf, AboveClosed
<1> QED
  BY <1>2, <1>3 DEF Above

\* Of two directories above a third one is above the other.
LEMMA AboveChain == \A d \in Dirs : \A a, b \in Above[d] : a \in Above[b] \/ b \in Above[a]
<1> SUFFICES ASSUME NEW d \in Dirs, NEW a \in Above[d], NEW b \in Above[d]
             PROVE  a \in Above[b] \/ b \in Above[a]
  OBVIOUS
<1> DEFINE S == {x \in Dirs : x \in Above[b] \/ b \in Above[x]}
<1>1. b \in Dirs
  BY AboveSelf
<1>2. d \in S
  OBVIOUS
<1>3. ASSUME NEW x \in S PROVE Parent[x] \in S
  <2>1. x \in Dirs /\ Parent[x] \in Dirs
    BY SelectionAssumption
  <2>2. CASE x \in Above[b]
    BY <1>1, <2>1, <2>2, AboveClosed
  <2>3. CASE b \in Above[x]
    <3>1. b = x \/ b \in Above[Parent[x]]
      BY <2>1, <2>3, AboveStep
    <3>2. ASSUME b = x PROVE Parent[x] \in Above[b]
      BY <1>1, <3>2, AboveSelf, AboveClosed
    <3> QED
      BY <2>1, <3>1, <3>2
  <2> QED
    BY <2>2, <2>3
<1>4. S \in SUBSET Dirs
  OBVIOUS
<1>5. a \in S
  BY <1>2, <1>3, <1>4 DEF Above
<1> QED
  BY <1>5

-----------------------------------------------------------------------------
(* Searches.                                                               *)

LEMMA WithinAbove == \A d \in Dirs : Within[d] \subseteq Above[d] /\ Within[d] \subseteq Dirs
  BY AboveSelf DEF Within

\* There is one nearest directory of a set at most.
LEMMA NearestSingle ==
    ASSUME NEW d \in Dirs, NEW S, NEW n \in Nearest(d, S)
    PROVE  Nearest(d, S) = {n} /\ The(Nearest(d, S)) = n /\ n \in Within[d] /\ n \in S /\ n \in Dirs
<1>1. n \in Within[d] /\ n \in S /\ n \in Dirs
  BY WithinAbove DEF Nearest
<1>2. ASSUME NEW m \in Nearest(d, S) PROVE m = n
  <2>1. m \in Dirs /\ m \in Above[n] /\ n \in Above[m]
    BY WithinAbove DEF Nearest
  <2> QED
    BY <1>1, <2>1, SelectionAssumption
<1>3. Nearest(d, S) = {n}
  BY <1>2
<1> QED
  BY <1>1, <1>3 DEF The

LEMMA TheOne == \A x : The({x}) = x
  BY DEF The

\* A search that finds something.
LEMMA SearchFinds ==
    ASSUME NEW d \in Dirs, NEW S, Search(d, S).end = "found" \/ Nearest(d, S) # {}
    PROVE  LET search == Search(d, S)
           IN  /\ search.end = "found" /\ Nearest(d, S) = {search.at}
               /\ search.at \in Dirs /\ search.at \in S /\ search.at \in search.visited
               /\ search.visited = {a \in Within[d] : search.at \in Above[a]}
<1>1. Nearest(d, S) # {}
  BY DEF Search
<1>2. PICK n : n \in Nearest(d, S)
  BY <1>1
<1>3. Nearest(d, S) = {n} /\ The(Nearest(d, S)) = n /\ n \in Within[d] /\ n \in S /\ n \in Dirs
  BY <1>2, NearestSingle
<1>4. Search(d, S) = [end |-> "found", at |-> n, visited |-> {a \in Within[d] : n \in Above[a]}]
  BY <1>1, <1>3 DEF Search
<1>5. n \in Above[n]
  BY <1>3, AboveSelf
<1> QED
  BY <1>3, <1>4, <1>5

\* A search that finds nothing.
LEMMA SearchMisses ==
    ASSUME NEW d \in Dirs, NEW S, Search(d, S).end # "found" \/ Nearest(d, S) = {}
    PROVE  LET search == Search(d, S)
           IN  /\ Nearest(d, S) = {} /\ search.visited = Within[d]
               /\ search.end = IF GivesUp(d, S) THEN "limit" ELSE "top"
               /\ search.at = None
  BY DEF Search

LEMMA SearchVisits ==
    ASSUME NEW d \in Dirs, NEW S
    PROVE  Search(d, S).visited \subseteq Dirs /\ Search(d, S).visited \subseteq Within[d]
<1>1. CASE Nearest(d, S) # {}
  BY <1>1, SearchFinds, WithinAbove
<1>2. CASE Nearest(d, S) = {}
  BY <1>2, SearchMisses, WithinAbove
<1> QED
  BY <1>1, <1>2

LEMMA SearchEnds ==
    ASSUME NEW d \in Dirs, NEW S
    PROVE  /\ Search(d, S).end = "limit" <=> GivesUp(d, S)
           /\ Search(d, S).end = "found" <=> Nearest(d, S) # {}
           /\ GivesUp(d, S) => Nearest(d, S) = {}
           /\ Search(d, S).end \in {"found", "limit", "top"}
<1>1. CASE Nearest(d, S) # {}
  BY <1>1, SearchFinds DEF GivesUp
<1>2. CASE Nearest(d, S) = {}
  BY <1>2, SearchMisses
<1> QED
  BY <1>1, <1>2

\* What a search finds depends on the directories it visits only.
LEMMA SearchSame ==
    ASSUME NEW d \in Dirs, NEW G, NEW H, \A a \in Search(d, G).visited : a \in G <=> a \in H
    PROVE  /\ Nearest(d, H) = Nearest(d, G) /\ (GivesUp(d, H) <=> GivesUp(d, G))
           /\ Search(d, H) = Search(d, G)
<1>1. Nearest(d, H) = Nearest(d, G)
  <2>1. CASE Nearest(d, G) = {}
    <3>1. \A a \in Within[d] : a \in G <=> a \in H
      BY <2>1, SearchMisses
    <3> QED
      BY <3>1 DEF Nearest
  <2>2. CASE Nearest(d, G) # {}
    <3> DEFINE n == Search(d, G).at
    <3>1. /\ Nearest(d, G) = {n} /\ n \in Dirs /\ n \in G /\ n \in Search(d, G).visited
          /\ Search(d, G).visited = {a \in Within[d] : n \in Above[a]}
      BY <2>2, SearchFinds
    <3> HIDE DEF n
    <3>2. n \in H /\ n \in Within[d]
      BY <3>1
    <3>3. ASSUME NEW b \in Within[d] \cap H PROVE b \in Above[n]
      <4>1. b \in Above[d] /\ n \in Above[d]
        BY <3>2, WithinAbove
      <4>2. CASE b \in Above[n]
        BY <4>2
      <4>3. CASE n \in Above[b]
        <5>1. b \in Within[d] \cap G
          BY <3>1, <4>3
        <5>2. n \in Nearest(d, G)
          BY <3>1
        <5> QED
          BY <5>1, <5>2 DEF Nearest
      <4> QED
        BY <4>1, <4>2, <4>3, AboveChain
    <3>4. n \in Nearest(d, H)
      BY <3>2, <3>3 DEF Nearest
    <3> QED
      BY <3>1, <3>4, NearestSingle
  <2> QED
    BY <2>1, <2>2
<1>2. GivesUp(d, H) <=> GivesUp(d, G)
  BY <1>1 DEF GivesUp
<1> QED
  BY <1>1, <1>2 DEF Search
-----------------------------------------------------------------------------
(* Installations.                                                          *)

\* A canonical directory leads to itself, and has the manifest of the others
\* that lead there.
LEMMA RealReal ==
    ASSUME NEW l \in Layouts, NEW d \in Dirs
    PROVE  /\ Real(l, d) \in Dirs /\ Real(l, Real(l, d)) = Real(l, d)
           /\ ManifestAt(l, Real(l, d)) = ManifestAt(l, d)
<1>1. Real(l, d) \in Dirs /\ Real(l, Real(l, d)) = Real(l, d)
  BY SelectionAssumption DEF IsLayout, Real
<1>2. Real(l, d) # None /\ d # None
  BY <1>1, SelectionAssumption
<1> QED
  BY <1>1, <1>2 DEF ManifestAt

\* What a directory has is a manifest.
LEMMA HasOne ==
    ASSUME NEW l \in Layouts, NEW d, d \in Has(l)
    PROVE  d \in Dirs /\ d # None /\ ManifestAt(l, d) # None /\ IsManifest(ManifestAt(l, d))
<1>1. d \in Dirs /\ ManifestAt(l, d) # None
  BY DEF Has
<1>2. d # None
  BY <1>1, SelectionAssumption
<1>3. IsManifest(ManifestAt(l, d))
  BY <1>1, SelectionAssumption DEF IsLayout, ManifestAt
<1> QED
  BY <1>1, <1>2, <1>3

LEMMA Slots == \A d \in Dirs, p \in Packages : Slot[d][p] \in Dirs \cup {None}
  BY SelectionAssumption

LEMMA PresenceValue ==
    \A l, d : Value(l, <<"presence", d>>) = IF ManifestAt(l, d) = None THEN None ELSE Real(l, d)
  BY DEF Value

LEMMA ContentsValue == \A l, d : Value(l, <<"contents", d>>) = ManifestAt(l, d)
  BY DEF Value

LEMMA ResolutionValue == \A l, p : Value(l, <<"resolution", p>>) = l.resolves[p]
  BY DEF Value

\* Two installations that agree on a marker.
LEMMA MarkerSame ==
    ASSUME NEW k, NEW l, NEW m \in Markers, NEW d, Value(l, <<m, d>>) = Value(k, <<m, d>>)
    PROVE  d \in l.markers[m] <=> d \in k.markers[m]
<1>1. m \notin {"presence", "contents", "resolution"}
  BY DEF Markers
<1>2. Value(l, <<m, d>>) = (d \in l.markers[m]) /\ Value(k, <<m, d>>) = (d \in k.markers[m])
  BY <1>1 DEF Value
<1> QED
  BY <1>2, Zenon

\* Two installations that agree on where a directory leads agree on whether it
\* has a manifest.
LEMMA PresenceSame ==
    ASSUME NEW k \in Layouts, NEW l \in Layouts, NEW d \in Dirs,
           Value(l, <<"presence", d>>) = Value(k, <<"presence", d>>)
    PROVE  (d \in Has(l) <=> d \in Has(k)) /\ (d \in Has(k) => Real(l, d) = Real(k, d))
<1>1. None \notin Dirs
  BY SelectionAssumption
<1>2. Real(l, d) # None /\ Real(k, d) # None
  BY <1>1, RealReal
<1> QED
  BY <1>2, PresenceValue DEF Has

\* If they agree on the contents of where it leads as well, its manifest is the
\* same.
LEMMA ContentsSame ==
    ASSUME NEW k \in Layouts, NEW l \in Layouts, NEW d \in Dirs, d \in Has(l), Real(l, d) = Real(k, d),
           Value(l, <<"contents", Real(k, d)>>) = Value(k, <<"contents", Real(k, d)>>)
    PROVE  ManifestAt(l, d) = ManifestAt(k, d)
<1>1. ManifestAt(l, Real(l, d)) = ManifestAt(l, d) /\ ManifestAt(k, Real(k, d)) = ManifestAt(k, d)
  BY RealReal
<1> QED
  BY <1>1, ContentsValue

-----------------------------------------------------------------------------
(* Observations.                                                           *)

\* An installation that agrees with what has been observed, agreed before, and
\* agrees with the present one on what is observed now.
LEMMA ObserveAgrees ==
    ASSUME NEW l, NEW items, Observe(items), cacheable', Agrees(l)'
    PROVE  /\ cacheable /\ Agrees(l)
           /\ \A i \in items : Value(l, i) = Value(layout, i)
           /\ DOMAIN observed \cup items \subseteq DOMAIN observed'
           /\ \A i \in DOMAIN observed : observed'[i] = observed[i]
<1>1. /\ cacheable /\ \A i \in items \cap DOMAIN observed : observed[i] = Value(layout, i)
      /\ DOMAIN observed' = DOMAIN observed \cup items
      /\ \A i \in DOMAIN observed : observed'[i] = observed[i]
      /\ \A i \in items \ DOMAIN observed : observed'[i] = Value(layout, i)
  BY DEF Observe
<1>2. \A i \in DOMAIN observed' : Value(l, i) = observed'[i]
  BY DEF Agrees
<1>3. Agrees(l)
  BY <1>1, <1>2 DEF Agrees
<1>4. ASSUME NEW i \in items PROVE Value(l, i) = Value(layout, i)
  <2>1. CASE i \in DOMAIN observed
    BY <1>1, <1>2, <2>1
  <2>2. CASE i \notin DOMAIN observed
    BY <1>1, <1>2, <2>2
  <2> QED
    BY <2>1, <2>2
<1> QED
  BY <1>1, <1>3, <1>4

\* Whatever is observed, what was observed before stays.
LEMMA ObserveGrows ==
    ASSUME NEW items, Observe(items)
    PROVE  DOMAIN observed' = DOMAIN observed \cup items
  BY DEF Observe

\* Where the package led keeps agreeing with what was observed.
LEMMA SameRootsStep ==
    ASSUME Typed, NEW l, NEW items, Observe(items), cacheable', Agrees(l)', SameRoots',
           followed \subseteq followed'
    PROVE  Trusted(l)
<1>1. /\ cacheable /\ Agrees(l) /\ \A i \in DOMAIN observed : observed'[i] = observed[i]
  BY ObserveAgrees
<1>2. ASSUME NEW f \in followed PROVE f[2] = observed[<<"presence", f[1]>>]
  <2>1. <<"presence", f[1]>> \in DOMAIN observed
    BY DEF Typed
  <2>2. f[2] = observed'[<<"presence", f[1]>>]
    BY DEF SameRoots
  <2> QED
    BY <1>1, <2>1, <2>2
<1> QED
  BY <1>1, <1>2 DEF Trusted, SameRoots

\* Where the package or its provider led is where it leads in an installation
\* that agrees.
LEMMA FollowedReal ==
    ASSUME Typed, NEW l \in Layouts, Trusted(l), NEW f \in followed, f[1] \in Has(l)
    PROVE  f[2] = Real(l, f[1])
<1>1. f[2] = observed[<<"presence", f[1]>>] /\ <<"presence", f[1]>> \in DOMAIN observed
  BY DEF Typed, Trusted, SameRoots
<1>2. Value(l, <<"presence", f[1]>>) = observed[<<"presence", f[1]>>]
  BY <1>1 DEF Trusted, Agrees
<1>3. ManifestAt(l, f[1]) # None
  BY HasOne
<1> QED
  BY <1>1, <1>2, <1>3, PresenceValue

\* While nothing changes, the present installation agrees with what is observed.
LEMMA ObserveFresh ==
    ASSUME NEW items, Observe(items), cacheable, Agrees(layout), layout' = layout
    PROVE  cacheable' /\ Agrees(layout)'
<1>1. \A i \in DOMAIN observed : Value(layout, i) = observed[i]
  BY DEF Agrees
<1>2. cacheable'
  BY <1>1 DEF Observe
<1>3. \A i \in DOMAIN observed' : Value(layout, i) = observed'[i]
  BY <1>1 DEF Observe
<1> QED
  BY <1>2, <1>3 DEF Agrees
\* What a search for manifests sees is so in an installation that agrees, and
\* the manifests that are kept are those of that installation.
LEMMA ManifestsSeen ==
    ASSUME Typed, NEW l \in Layouts, Remembered(l), NEW search, search.visited \subseteq Dirs, NEW others,
           SeesManifests(search, others), cacheable', Agrees(l)'
    PROVE  /\ \A a \in search.visited : /\ HasManifest(a) <=> a \in Has(l)
                                        /\ HasManifest(a) => Manifest(a) = ManifestAt(l, a)
           /\ \A i \in others : Value(l, i) = Value(layout, i)
           /\ \A d \in DOMAIN manifests' : manifests'[d] = ManifestAt(l, d)
<1> DEFINE items == Presences(search.visited) \cup Contents(ManifestsOn(search)) \cup others
<1>1. layout \in Layouts
  BY DEF Typed
<1>2. \A i \in items : Value(l, i) = Value(layout, i)
  BY ObserveAgrees DEF SeesManifests
<1>3. ASSUME NEW a \in search.visited
      PROVE  /\ HasManifest(a) <=> a \in Has(l)
             /\ HasManifest(a) => Manifest(a) = ManifestAt(l, a)
  <2>1. a \in Dirs /\ <<"presence", a>> \in items
    BY SelectionAssumption DEF Presences
  <2>2. (a \in Has(l) <=> a \in Has(layout)) /\ (a \in Has(layout) => Real(l, a) = Real(layout, a))
    BY <1>1, <1>2, <2>1, PresenceSame
  <2>3. HasManifest(a) <=> a \in Has(layout)
    BY <2>1 DEF HasManifest, Has
  <2>4. ASSUME HasManifest(a), a \notin DOMAIN manifests PROVE ManifestAt(layout, a) = ManifestAt(l, a)
    <3>1. <<"contents", Real(layout, a)>> \in items
      BY <2>4 DEF Contents, ManifestsOn
    <3> QED
      BY <1>1, <1>2, <2>1, <2>2, <2>3, <2>4, <3>1, ContentsSame
  <2> QED
    BY <2>2, <2>3, <2>4 DEF Manifest, Remembered
<1>4. \A d \in DOMAIN manifests' : manifests'[d] = ManifestAt(l, d)
  <2>1. manifests' = [d \in DOMAIN manifests \cup ManifestsOn(search) |-> Manifest(d)]
    BY DEF SeesManifests, Keep
  <2>2. \A d \in ManifestsOn(search) : Manifest(d) = ManifestAt(l, d)
    BY <1>3 DEF ManifestsOn
  <2>3. \A d \in DOMAIN manifests : Manifest(d) = ManifestAt(l, d)
    BY DEF Manifest, Remembered
  <2> QED
    BY <2>1, <2>2, <2>3
<1> QED
  BY <1>2, <1>3, <1>4

-----------------------------------------------------------------------------
(* What is expected.                                                       *)

LEMMA Requested ==
    ASSUME NEW r \in Requests
    PROVE  r.context \in Dirs /\ r.package \in Packages /\ TypesOf[r.package] \in Packages
  BY SelectionAssumption

LEMMA ExpectedOfContext ==
    ASSUME NEW l \in Layouts, NEW r \in Requests
    PROVE  /\ GivesUp(r.context, ContextsIn(l, r)) => Expected[l][r] = Failure("limit")
           /\ ~GivesUp(r.context, ContextsIn(l, r)) /\ Context(l, r) \cap BrokenIn(l) # {}
              => Expected[l][r] = Failure("identity")
           /\ /\ ~GivesUp(r.context, ContextsIn(l, r)) /\ Context(l, r) \cap BrokenIn(l) = {}
              /\ r.kind # "package" /\ Itself(l, r) = {} /\ ~Declares(l, r)
              => Expected[l][r] = Failure("undeclared")
  BY DEF Expected

LEMMA ExpectedOfSearch ==
    ASSUME NEW l \in Layouts, NEW r \in Requests, MayAsk(l, r), Itself(l, r) = {}
    PROVE  /\ GivesUp(r.context, Holders(l, r.package) \cup Marked(l)) => Expected[l][r] = Failure("limit")
           /\ /\ ~GivesUp(r.context, Holders(l, r.package) \cup Marked(l))
              /\ Found(l, r.context, r.package) = {}
              => Expected[l][r] =
                    Failure(IF First(l, r.context, r.package) # {} /\ Declares(l, r)
                            THEN "unsupported" ELSE "missing")
  BY DEF Expected, MayAsk

LEMMA ExpectedOfRepository ==
    ASSUME NEW l \in Layouts, NEW r \in Requests, MayAsk(l, r), IsThere(l, r)
    PROVE  /\ GivesUp(r.context, SpacesIn(l)) => Expected[l][r] = Failure("limit")
           /\ ~GivesUp(r.context, SpacesIn(l)) /\ Space(l, r.context) \cap BrokenIn(l) # {}
              => Expected[l][r] = Failure("identity")
           /\ ~GivesUp(r.context, SpacesIn(l)) /\ Space(l, r.context) \cap BrokenIn(l) = {}
              => Expected[l][r] =
                    IF r.kind = "dependency"
                    THEN Success(IF Itself(l, r) # {} THEN The(Itself(l, r))
                                 ELSE Installed(l, r.context, r.package).logical)
                    ELSE Resolved(l, r)
  BY DEF Expected, MayAsk, IsThere

LEMMA ItselfDependency == \A l, r : r.kind # "dependency" => Itself(l, r) = {}
  BY DEF Itself

\* A selection that fails has nothing else to show.
LEMMA StageFailed ==
    ASSUME NEW l, pc' = "failed", authority' = None, Failure(error') = Expected[l][request']
    PROVE  Stage(l)'
  BY DEF Stage, Selected
-----------------------------------------------------------------------------
(* The context.                                                            *)

\* What the search for the manifest of the context finds in an installation
\* that agrees.
LEMMA ContextSeen ==
    ASSUME Typed, NEW l \in Layouts, Remembered(l), SeesManifests(ContextManifest, {}), cacheable', Agrees(l)'
    PROVE  LET search == ContextManifest
           IN  /\ search.end = "limit" <=> GivesUp(request.context, ContextsIn(l, request))
               /\ search.end = "found" <=> Context(l, request) # {}
               /\ search.end = "found" =>
                     /\ Context(l, request) = {search.at} /\ search.at \in Has(l) /\ search.at \in search.visited
                     /\ Manifest(search.at) = ManifestAt(l, search.at)
               /\ \A d \in DOMAIN manifests' : manifests'[d] = ManifestAt(l, d)
<1> DEFINE c == request.context
           suitable == {a \in Sound : request.kind = "dependency" => Manifest(a).identity # None}
           G == {a \in Dirs : HasManifest(a) /\ (IsBroken(Manifest(a)) \/ a \in suitable)}
           H == ContextsIn(l, request)
           search == Search(c, G)
<1>1. ContextManifest = search /\ c \in Dirs
  BY Requested DEF ContextManifest, AncestorManifest, Typed
<1> HIDE DEF search, c
<1>2. search.visited \subseteq Dirs
  BY <1>1, SearchVisits DEF search
<1>3. /\ \A a \in search.visited : /\ HasManifest(a) <=> a \in Has(l)
                                   /\ HasManifest(a) => Manifest(a) = ManifestAt(l, a)
      /\ \A d \in DOMAIN manifests' : manifests'[d] = ManifestAt(l, d)
  BY <1>1, <1>2, ManifestsSeen
<1>4. ASSUME NEW a \in search.visited PROVE a \in G <=> a \in H
  <2>1. CASE a \in Has(l)
    <3>1. a \in Dirs /\ HasManifest(a) /\ Manifest(a) = ManifestAt(l, a) /\ Manifest(a) # None
      BY <1>3, <2>1, HasOne
    <3>2. a \in G <=> Manifest(a).broken \/ (request.kind = "dependency" => Manifest(a).identity # None)
      BY <3>1 DEF IsBroken, Sound
    <3>3. a \in H <=> (request.kind = "dependency" => Manifest(a).broken \/ Manifest(a).identity # None)
      BY <2>1, <3>1 DEF ContextsIn, BrokenIn, NamedIn
    <3> QED
      BY <3>2, <3>3
  <2>2. CASE a \notin Has(l)
    BY <1>3, <2>2 DEF ContextsIn, BrokenIn, NamedIn
  <2> QED
    BY <2>1, <2>2
<1> HIDE DEF G, H
<1>5. Nearest(c, H) = Nearest(c, G) /\ (GivesUp(c, H) <=> GivesUp(c, G))
  BY <1>1, <1>4, SearchSame DEF search
<1>6. Context(l, request) = Nearest(c, G)
  BY <1>5 DEF Context, H, c
<1>7. (search.end = "limit" <=> GivesUp(c, H)) /\ (search.end = "found" <=> Context(l, request) # {})
  BY <1>1, <1>5, <1>6, SearchEnds DEF search
<1>8. ASSUME search.end = "found"
      PROVE  /\ Context(l, request) = {search.at} /\ search.at \in Has(l) /\ search.at \in search.visited
             /\ Manifest(search.at) = ManifestAt(l, search.at)
  <2>1. Context(l, request) = {search.at} /\ search.at \in search.visited /\ search.at \in G
    BY <1>1, <1>6, <1>8, SearchFinds DEF search
  <2>2. HasManifest(search.at)
    BY <2>1 DEF G
  <2> QED
    BY <1>3, <2>1, <2>2
<1> QED
  BY <1>1, <1>3, <1>7, <1>8 DEF c, H

LEMMA FindContextEvidence ==
    ASSUME Typed, Located, NEW l \in Layouts, Evidenced(l), FindContext, Trusted(l)'
    PROVE  Remembered(l)' /\ Stage(l)'
<1> DEFINE search == ContextManifest
           itself == /\ request.kind = "dependency" /\ search.end = "found"
                     /\ Manifest(search.at).identity = request.declared
                     /\ request.package = request.declared
                     /\ Manifest(search.at).exports
<1>1. /\ pc = "context" /\ SeesManifests(search, {}) /\ authority' = authority
      /\ request' = request /\ role' = role /\ followed' = followed /\ provider' = provider
  BY DEF FindContext
<1>2. cacheable' /\ Agrees(l)' /\ SameRoots'
  BY DEF Trusted
<1>3. Trusted(l)
  BY <1>1, <1>2, SameRootsStep DEF SeesManifests
<1>4. Remembered(l)
  BY <1>1, <1>3 DEF Evidenced
<1>5. /\ search.end = "limit" <=> GivesUp(request.context, ContextsIn(l, request))
      /\ search.end = "found" <=> Context(l, request) # {}
      /\ search.end = "found" =>
            /\ Context(l, request) = {search.at} /\ search.at \in Has(l)
            /\ Manifest(search.at) = ManifestAt(l, search.at)
      /\ \A d \in DOMAIN manifests' : manifests'[d] = ManifestAt(l, d)
  BY <1>1, <1>2, <1>4, ContextSeen
<1>6. Broken(search) <=> Context(l, request) \cap BrokenIn(l) # {}
  <2>1. CASE search.end = "found"
    BY <1>5, <2>1, HasOne DEF Broken, IsBroken, BrokenIn
  <2>2. CASE search.end # "found"
    BY <1>5, <2>2 DEF Broken
  <2> QED
    BY <2>1, <2>2
<1>7. IsDeclaredBy(search) <=> Declares(l, request)
  BY <1>5 DEF IsDeclaredBy, Declares
<1>8. (itself <=> Itself(l, request) # {}) /\ (itself => Itself(l, request) = {search.at})
  BY <1>5 DEF Itself
<1>9. authority' = None /\ request \in Requests /\ role = "package"
  BY <1>1 DEF Located, Typed
<1>10. Remembered(l)'
  BY <1>5 DEF Remembered
<1>11. CASE search.end = "limit"
  <2>1. pc' = "failed" /\ error' = "limit"
    BY <1>11 DEF FindContext, Fail
  <2>2. Expected[l][request] = Failure("limit")
    BY <1>5, <1>9, <1>11, ExpectedOfContext
  <2> QED
    BY <1>1, <1>9, <1>10, <2>1, <2>2, StageFailed
<1>12. CASE search.end # "limit" /\ Broken(search)
  <2>1. pc' = "failed" /\ error' = "identity"
    BY <1>12 DEF FindContext, Fail
  <2>2. Expected[l][request] = Failure("identity")
    BY <1>5, <1>6, <1>9, <1>12, ExpectedOfContext
  <2> QED
    BY <1>1, <1>9, <1>10, <2>1, <2>2, StageFailed
<1>13. CASE search.end # "limit" /\ ~Broken(search)
  <2>1. /\ declared' = IsDeclaredBy(search)
        /\ package' = IF itself THEN Location(search.at, search.at) ELSE None
        /\ IF ~itself /\ ~IsDeclaredBy(search) /\ request.kind # "package"
           THEN pc' = "failed" /\ error' = "undeclared"
           ELSE pc' = (IF itself THEN "repository" ELSE "search")
    BY <1>13 DEF FindContext, Fail
  <2>2. ~GivesUp(request.context, ContextsIn(l, request)) /\ Context(l, request) \cap BrokenIn(l) = {}
    BY <1>5, <1>6, <1>13
  <2>3. CASE ~itself /\ ~IsDeclaredBy(search) /\ request.kind # "package"
    <3>1. Expected[l][request] = Failure("undeclared")
      BY <1>7, <1>8, <1>9, <2>2, <2>3, ExpectedOfContext
    <3> QED
      BY <1>1, <1>9, <1>10, <2>1, <2>3, <3>1, StageFailed
  <2>4. CASE ~(~itself /\ ~IsDeclaredBy(search) /\ request.kind # "package")
    <3>1. MayAsk(l, request)
      BY <1>7, <1>8, <2>2, <2>4 DEF MayAsk
    <3>2. Admitted(l)'
      BY <1>1, <1>7, <2>1, <3>1 DEF Admitted, IsDeclaredBy, Declares
    <3>3. CASE itself
      <4>1. The(Itself(l, request)) = search.at
        BY <1>8, <3>3, TheOne
      <4>2. pc' = "repository" /\ package' = Location(search.at, search.at)
        BY <2>1, <2>4, <3>3
      <4> QED
        BY <1>1, <1>8, <1>9, <1>10, <3>2, <3>3, <4>1, <4>2 DEF Stage
    <3>4. CASE ~itself
      <4>1. pc' = "search"
        BY <2>1, <2>4, <3>4
      <4> QED
        BY <1>1, <1>8, <1>9, <1>10, <3>2, <3>4, <4>1 DEF Stage
    <3> QED
      BY <3>3, <3>4
  <2> QED
    BY <2>3, <2>4
<1> QED
  BY <1>11, <1>12, <1>13
\* Once the package was read, what is left to decide is its declaration.
LEMMA ReadExpected ==
    ASSUME Typed, NEW l \in Layouts, IsRead(l), request.kind # "dependency"
    PROVE  Expected[l][request] = Resolved(l, request)
<1>1. request \in Requests /\ MayAsk(l, request) /\ IsThere(l, request)
  BY DEF Typed, IsRead, Admitted, IsThere
<1> QED
  BY <1>1, ExpectedOfRepository DEF IsRead, IsHoused

-----------------------------------------------------------------------------
(* The search for a package.                                               *)

\* A package that is found is one of its installation.
LEMMA FoundHas ==
    ASSUME NEW l \in Layouts, NEW c \in Dirs, NEW p, Found(l, c, p) # {}
    PROVE  LET d == The(Found(l, c, p))
           IN  Found(l, c, p) = {d} /\ d \in Dirs /\ Slot[d][p] \in Has(l) /\ Slot[d][p] \in Dirs
<1>1. PICK d : d \in Found(l, c, p)
  OBVIOUS
<1>2. d \in Nearest(c, Holders(l, p) \cup Marked(l)) /\ d \in Holders(l, p)
  BY <1>1 DEF Found, First
<1>3. Nearest(c, Holders(l, p) \cup Marked(l)) = {d} /\ d \in Dirs
  BY <1>2, NearestSingle
<1>4. Found(l, c, p) = {d}
  BY <1>2, <1>3 DEF Found, First
<1>5. Slot[d][p] \in Has(l)
  BY <1>2 DEF Holders
<1> QED
  BY <1>3, <1>4, <1>5, TheOne, HasOne

\* What the search for a package finds in an installation that agrees.
LEMMA PackageSeen ==
    ASSUME Typed, NEW l \in Layouts, FindPackage, cacheable', Agrees(l)'
    PROVE  LET search == Search(request.context, Holders(layout, Wanted) \cup Marked(layout))
               hit    == search.end = "found" /\ search.at \in Holders(layout, Wanted)
           IN  /\ search.end = "limit" <=> GivesUp(request.context, Holders(l, Wanted) \cup Marked(l))
               /\ search.end = "found" <=> First(l, request.context, Wanted) # {}
               /\ hit <=> Found(l, request.context, Wanted) # {}
               /\ hit => Found(l, request.context, Wanted) = {search.at}
<1> DEFINE c == request.context
           G == Holders(layout, Wanted) \cup Marked(layout)
           H == Holders(l, Wanted) \cup Marked(l)
           search == Search(c, G)
           at == search.at
           hit == search.end = "found" /\ at \in Holders(layout, Wanted)
           items == Presences({Slot[a][Wanted] : a \in search.visited})
                    \cup UNION {MarkerChecks(a) : a \in search.visited \ (IF hit THEN {at} ELSE {})}
<1>1. c \in Dirs /\ Wanted \in Packages /\ layout \in Layouts
  BY Requested DEF Wanted, Typed
<1>2. Observe(items)
  BY DEF FindPackage
<1>3. \A i \in items : Value(l, i) = Value(layout, i)
  BY <1>2, ObserveAgrees
<1>4. search.visited \subseteq Dirs
  BY <1>1, SearchVisits
<1>5. ASSUME NEW a \in search.visited PROVE a \in Holders(l, Wanted) <=> a \in Holders(layout, Wanted)
  <2>1. a \in Dirs /\ Slot[a][Wanted] \in Dirs \cup {None}
    BY <1>1, <1>4, Slots
  <2>2. CASE Slot[a][Wanted] = None
    BY <2>2, <1>1, HasOne DEF Holders
  <2>3. CASE Slot[a][Wanted] # None
    <3>1. <<"presence", Slot[a][Wanted]>> \in items
      BY <2>3 DEF Presences
    <3>2. Slot[a][Wanted] \in Has(l) <=> Slot[a][Wanted] \in Has(layout)
      BY <1>1, <1>3, <2>1, <2>3, <3>1, PresenceSame
    <3> QED
      BY <2>1, <3>2 DEF Holders
  <2> QED
    BY <2>2, <2>3
<1>6. ASSUME NEW a \in search.visited, ~(hit /\ a = at) PROVE a \in Marked(l) <=> a \in Marked(layout)
  <2>1. MarkerChecks(a) \subseteq items
    BY <1>6
  <2>2. a \in l.markers["pnp.cjs"] <=> a \in layout.markers["pnp.cjs"]
    <3>1. <<"pnp.cjs", a>> \in items
      BY <2>1 DEF MarkerChecks
    <3> QED
      BY <1>3, <3>1, MarkerSame DEF Markers
  <2>3. CASE a \in layout.markers["pnp.cjs"]
    BY <2>2, <2>3 DEF Marked
  <2>4. CASE a \notin layout.markers["pnp.cjs"]
    <3>1. <<"pnp.js", a>> \in items
      BY <2>1, <2>4 DEF MarkerChecks
    <3>2. a \in l.markers["pnp.js"] <=> a \in layout.markers["pnp.js"]
      BY <1>3, <3>1, MarkerSame DEF Markers
    <3> QED
      BY <2>2, <3>2 DEF Marked
  <2> QED
    BY <2>3, <2>4
<1>7. \A a \in search.visited : a \in G <=> a \in H
  BY <1>5, <1>6
<1> HIDE DEF G, H, items
<1>8. Nearest(c, H) = Nearest(c, G) /\ (GivesUp(c, H) <=> GivesUp(c, G))
  BY <1>1, <1>7, SearchSame
<1>9. First(l, c, Wanted) = Nearest(c, G) /\ Found(l, c, Wanted) = Nearest(c, G) \cap Holders(l, Wanted)
  BY <1>8 DEF First, Found, H
<1>10. /\ search.end = "limit" <=> GivesUp(c, H)
       /\ search.end = "found" <=> First(l, c, Wanted) # {}
  BY <1>1, <1>8, <1>9, SearchEnds
<1>11. ASSUME search.end = "found"
       PROVE  /\ First(l, c, Wanted) = {at}
              /\ at \in Holders(l, Wanted) <=> at \in Holders(layout, Wanted)
  BY <1>1, <1>5, <1>9, <1>11, SearchFinds
<1>12. (hit <=> Found(l, c, Wanted) # {}) /\ (hit => Found(l, c, Wanted) = {at})
  BY <1>9, <1>10, <1>11
<1> QED
  BY <1>10, <1>12 DEF G, H

LEMMA FindPackageEvidence ==
    ASSUME Typed, Located, NEW l \in Layouts, Evidenced(l), FindPackage, Trusted(l)'
    PROVE  Remembered(l)' /\ Stage(l)'
<1> DEFINE c == request.context
           search == Search(c, Holders(layout, Wanted) \cup Marked(layout))
           hit == search.end = "found" /\ search.at \in Holders(layout, Wanted)
           where == Location(Slot[search.at][Wanted], search.at)
<1>1. /\ pc = "search" /\ authority' = authority /\ request' = request /\ role' = role
      /\ followed' = followed /\ declared' = declared /\ manifests' = manifests
  BY DEF FindPackage
<1>2. cacheable' /\ Agrees(l)' /\ SameRoots'
  BY DEF Trusted
<1>3. Trusted(l)
  BY <1>1, <1>2, SameRootsStep DEF FindPackage
<1>4. Remembered(l) /\ Stage(l)
  BY <1>1, <1>3 DEF Evidenced
<1>5. /\ search.end = "limit" <=> GivesUp(c, Holders(l, Wanted) \cup Marked(l))
      /\ search.end = "found" <=> First(l, c, Wanted) # {}
      /\ hit <=> Found(l, c, Wanted) # {}
      /\ hit => Found(l, c, Wanted) = {search.at}
  BY <1>2, PackageSeen
<1>6. authority' = None /\ request \in Requests /\ role \in {"package", "provider"}
  BY <1>1 DEF Located, Typed
<1>7. Remembered(l)'
  BY <1>1, <1>4 DEF Remembered
<1>8. hit => where = Location(Slot[The(Found(l, c, Wanted))][Wanted], The(Found(l, c, Wanted)))
  BY <1>5, TheOne
<1> HIDE DEF search
<1>9. CASE role = "package"
  <2>1. Admitted(l) /\ Itself(l, request) = {} /\ Wanted = request.package /\ MayAsk(l, request)
    BY <1>1, <1>4, <1>9 DEF Stage, Wanted, Admitted
  <2>2. Admitted(l)'
    BY <1>1, <2>1 DEF Admitted
  <2>3. CASE search.end = "limit"
    <3>1. pc' = "failed" /\ error' = "limit"
      BY <2>3 DEF FindPackage, Fail, search
    <3>2. Expected[l][request] = Failure("limit")
      BY <1>5, <1>6, <2>1, <2>3, ExpectedOfSearch
    <3> QED
      BY <1>1, <1>6, <1>7, <3>1, <3>2, StageFailed
  <2>4. CASE hit
    <3>1. pc' = "repository" /\ package' = where
      BY <1>9, <2>4 DEF FindPackage, search
    <3>2. IsFound(l, request.package, package)'
      BY <1>1, <1>5, <1>8, <2>1, <2>4, <3>1 DEF IsFound
    <3> QED
      BY <1>1, <1>6, <1>7, <1>9, <2>1, <2>2, <3>1, <3>2 DEF Stage
  <2>5. CASE search.end # "limit" /\ ~hit
    <3>1. /\ pc' = "failed"
          /\ error' = IF search.end = "found" /\ RejectsUnsupportedInstallation THEN "unsupported" ELSE "missing"
      BY <1>9, <2>5 DEF FindPackage, Fail, search
    <3>2. RejectsUnsupportedInstallation <=> Declares(l, request)
      BY <1>9, <2>1 DEF RejectsUnsupportedInstallation, Admitted
    <3>3. Expected[l][request] = Failure(error')
      BY <1>5, <1>6, <2>1, <2>5, <3>1, <3>2, ExpectedOfSearch
    <3> QED
      BY <1>1, <1>6, <1>7, <3>1, <3>3, StageFailed
  <2> QED
    BY <2>3, <2>4, <2>5
<1>10. CASE role = "provider"
  <2>1. IsRead(l) /\ Wanted = Types /\ request.kind = "package"
    BY <1>1, <1>4, <1>10 DEF Stage, Wanted, Types, Typed
  <2>2. CASE search.end = "limit"
    <3>1. pc' = "failed" /\ error' = "limit"
      BY <2>2 DEF FindPackage, Fail, search
    <3>2. Resolved(l, request) = Failure("limit")
      BY <1>5, <2>1, <2>2 DEF Resolved, IsRead, Types
    <3> QED
      BY <1>1, <1>6, <1>7, <2>1, <3>1, <3>2, ReadExpected, StageFailed
  <2>3. CASE search.end # "limit"
    <3>1. package' = package
      BY <1>10, <2>3 DEF FindPackage, search
    <3>2. IsRead(l)'
      BY <1>1, <2>1, <3>1 DEF IsRead, Admitted, IsHoused
    <3>3. CASE hit
      <4>1. pc' = "repository" /\ provider' = where
        BY <1>10, <3>3 DEF FindPackage, search
      <4>2. IsFound(l, Types, provider)'
        BY <1>1, <1>5, <1>8, <2>1, <3>3, <4>1 DEF IsFound, Types
      <4> QED
        BY <1>1, <1>6, <1>7, <1>10, <3>2, <4>1, <4>2 DEF Stage
    <3>4. CASE ~hit
      <4>1. pc' = "resolve" /\ provider' = provider
        BY <1>10, <2>3, <3>4 DEF FindPackage, search
      <4>2. provider = None
        BY <1>1 DEF Located
      <4>3. IsProvided(l)'
        BY <1>1, <1>5, <2>1, <2>3, <3>4, <4>1, <4>2 DEF IsProvided, Types
      <4> QED
        BY <1>1, <1>6, <1>7, <1>10, <3>2, <4>1, <4>3 DEF Stage
    <3> QED
      BY <3>3, <3>4
  <2> QED
    BY <2>2, <2>3
<1> QED
  BY <1>6, <1>9, <1>10
-----------------------------------------------------------------------------
(* The search for the repository.                                          *)

LEMMA LocationIsNone == None \notin LocationType
  BY SelectionAssumption DEF LocationType

\* What the search for a workspace finds in an installation that agrees.
LEMMA SpaceSeen ==
    ASSUME Typed, NEW l \in Layouts, Remembered(l), FindRepository, cacheable', Agrees(l)'
    PROVE  LET search == AncestorManifest(request.context,
                             {a \in Sound : Manifest(a).workspaces \/ a \in layout.markers["workspace"]})
           IN  /\ search.end = "limit" <=> GivesUp(request.context, SpacesIn(l))
               /\ search.end = "found" <=> Space(l, request.context) # {}
               /\ search.end = "found" => Space(l, request.context) = {search.at} /\ search.at \in Dirs
               /\ Broken(search) <=> Space(l, request.context) \cap BrokenIn(l) # {}
               /\ \A d \in DOMAIN manifests' : manifests'[d] = ManifestAt(l, d)
<1> DEFINE c == request.context
           suitable == {a \in Sound : Manifest(a).workspaces \/ a \in layout.markers["workspace"]}
           G == {a \in Dirs : HasManifest(a) /\ (IsBroken(Manifest(a)) \/ a \in suitable)}
           H == SpacesIn(l)
           search == Search(c, G)
           plain == {a \in ManifestsOn(search) : ~IsBroken(Manifest(a)) /\ ~Manifest(a).workspaces}
           others == {<<"workspace", a>> : a \in plain}
<1>1. AncestorManifest(c, suitable) = search /\ c \in Dirs
  BY Requested DEF AncestorManifest, Typed
<1>2. SeesManifests(search, others)
  BY <1>1 DEF FindRepository
<1> HIDE DEF search, c
<1>3. search.visited \subseteq Dirs
  BY <1>1, SearchVisits DEF search
<1>4. /\ \A a \in search.visited : /\ HasManifest(a) <=> a \in Has(l)
                                   /\ HasManifest(a) => Manifest(a) = ManifestAt(l, a)
      /\ \A i \in others : Value(l, i) = Value(layout, i)
      /\ \A d \in DOMAIN manifests' : manifests'[d] = ManifestAt(l, d)
  BY <1>2, <1>3, ManifestsSeen
<1>5. ASSUME NEW a \in search.visited PROVE a \in G <=> a \in H
  <2>1. CASE a \in Has(l)
    <3>1. a \in Dirs /\ HasManifest(a) /\ Manifest(a) = ManifestAt(l, a) /\ Manifest(a) # None
      BY <1>4, <2>1, HasOne
    <3>2. a \in G <=> \/ Manifest(a).broken
                      \/ ~Manifest(a).broken /\ (Manifest(a).workspaces \/ a \in layout.markers["workspace"])
      BY <3>1 DEF IsBroken, Sound
    <3>3. a \in H <=> Manifest(a).broken \/ Manifest(a).workspaces \/ a \in l.markers["workspace"]
      BY <2>1, <3>1 DEF SpacesIn, BrokenIn
    <3>4. CASE Manifest(a).broken \/ Manifest(a).workspaces
      BY <3>2, <3>3, <3>4
    <3>5. CASE ~Manifest(a).broken /\ ~Manifest(a).workspaces
      <4>1. a \in plain
        BY <3>1, <3>5 DEF ManifestsOn, IsBroken
      <4>2. Value(l, <<"workspace", a>>) = Value(layout, <<"workspace", a>>)
        BY <1>4, <4>1
      <4>3. a \in l.markers["workspace"] <=> a \in layout.markers["workspace"]
        BY <4>2, MarkerSame DEF Markers
      <4> QED
        BY <3>2, <3>3, <3>5, <4>3
    <3> QED
      BY <3>4, <3>5
  <2>2. CASE a \notin Has(l)
    BY <1>4, <2>2 DEF SpacesIn, BrokenIn
  <2> QED
    BY <2>1, <2>2
<1> HIDE DEF G, H
<1>6. Nearest(c, H) = Nearest(c, G) /\ (GivesUp(c, H) <=> GivesUp(c, G))
  BY <1>1, <1>5, SearchSame DEF search
<1>7. Space(l, c) = Nearest(c, G)
  BY <1>6 DEF Space, H
<1>8. (search.end = "limit" <=> GivesUp(c, H)) /\ (search.end = "found" <=> Space(l, c) # {})
  BY <1>1, <1>6, <1>7, SearchEnds DEF search
<1>9. ASSUME search.end = "found"
      PROVE  /\ Space(l, c) = {search.at} /\ search.at \in Has(l)
             /\ Manifest(search.at) = ManifestAt(l, search.at)
  <2>1. Space(l, c) = {search.at} /\ search.at \in search.visited /\ search.at \in G
    BY <1>1, <1>7, <1>9, SearchFinds DEF search
  <2>2. HasManifest(search.at)
    BY <2>1 DEF G
  <2> QED
    BY <1>4, <2>1, <2>2
<1>10. Broken(search) <=> Space(l, c) \cap BrokenIn(l) # {}
  <2>1. CASE search.end = "found"
    BY <1>9, <2>1, HasOne DEF Broken, IsBroken, BrokenIn
  <2>2. CASE search.end # "found"
    BY <1>8, <2>2 DEF Broken
  <2> QED
    BY <2>1, <2>2
<1> QED
  BY <1>1, <1>4, <1>8, <1>9, <1>10, HasOne DEF H, c

\* A package that was found is installed in the repository that was found.
LEMMA FoundInstalled ==
    ASSUME Typed, NEW l \in Layouts, NEW p, NEW where, IsFound(l, p, where), NEW found \in BOOLEAN, NEW at,
           found <=> Space(l, request.context) # {}, found => Space(l, request.context) = {at}
    PROVE  IsInstalled(l, p, IF found THEN [where EXCEPT !.repository = at] ELSE where)
<1> DEFINE c == request.context
           d == The(Found(l, c, p))
<1>1. where = [root |-> Slot[d][p], repository |-> d, canonical |-> None]
  BY DEF IsFound, Location
<1>2. Installed(l, c, p).logical = Slot[d][p]
  BY DEF Installed
<1>3. Installed(l, c, p).repository = IF found THEN at ELSE d
  BY TheOne DEF Installed
<1>4. Location(Slot[d][p], IF found THEN at ELSE d)
      = IF found THEN [where EXCEPT !.repository = at] ELSE where
  BY <1>1 DEF Location
<1> QED
  BY <1>2, <1>3, <1>4 DEF IsFound, IsInstalled

LEMMA FindRepositoryEvidence ==
    ASSUME Typed, Located, NEW l \in Layouts, Evidenced(l), FindRepository, Trusted(l)'
    PROVE  Remembered(l)' /\ Stage(l)'
<1> DEFINE c == request.context
           search == AncestorManifest(c, {a \in Sound : Manifest(a).workspaces \/ a \in layout.markers["workspace"]})
           at(where) == IF search.end = "found" THEN [where EXCEPT !.repository = search.at] ELSE where
<1>1. /\ pc = "repository" /\ authority' = authority /\ request' = request /\ role' = role
      /\ followed' = followed /\ declared' = declared
  BY DEF FindRepository
<1>2. cacheable' /\ Agrees(l)' /\ SameRoots'
  BY DEF Trusted
<1>3. Trusted(l)
  BY <1>1, <1>2, SameRootsStep DEF FindRepository, SeesManifests
<1>4. Remembered(l) /\ Stage(l)
  BY <1>1, <1>3 DEF Evidenced
<1>5. /\ search.end = "limit" <=> GivesUp(c, SpacesIn(l))
      /\ search.end = "found" <=> Space(l, c) # {}
      /\ search.end = "found" => Space(l, c) = {search.at} /\ search.at \in Dirs
      /\ Broken(search) <=> Space(l, c) \cap BrokenIn(l) # {}
      /\ \A d \in DOMAIN manifests' : manifests'[d] = ManifestAt(l, d)
  BY <1>2, <1>4, SpaceSeen
<1>6. authority' = None /\ request \in Requests /\ role \in {"package", "provider"}
  BY <1>1 DEF Located, Typed
<1>7. Remembered(l)'
  BY <1>5 DEF Remembered
<1>8. /\ IF search.end = "limit" THEN pc' = "failed" /\ error' = "limit"
         ELSE IF Broken(search) THEN pc' = "failed" /\ error' = "identity"
         ELSE IF role = "package"
         THEN /\ package' = at(package) /\ provider' = provider
              /\ pc' = (IF request.kind = "dependency" THEN "done" ELSE "manifest")
         ELSE provider' = at(provider) /\ pc' = "resolve" /\ package' = package
  BY DEF FindRepository, Fail
<1> HIDE DEF search
<1>9. CASE role = "package"
  <2>1. /\ Admitted(l) /\ MayAsk(l, request)
        /\ \/ Itself(l, request) # {} /\ package = Location(The(Itself(l, request)), The(Itself(l, request)))
           \/ Itself(l, request) = {} /\ IsFound(l, request.package, package)
    BY <1>1, <1>4, <1>9 DEF Stage, Admitted
  <2>2. IsThere(l, request)
    BY <2>1 DEF IsThere, IsFound
  <2>3. CASE search.end = "limit"
    BY <1>1, <1>5, <1>6, <1>7, <1>8, <2>1, <2>2, <2>3, ExpectedOfRepository, StageFailed
  <2>4. CASE search.end # "limit" /\ Broken(search)
    BY <1>1, <1>5, <1>6, <1>7, <1>8, <2>1, <2>2, <2>4, ExpectedOfRepository, StageFailed
  <2>5. CASE search.end # "limit" /\ ~Broken(search)
    <3>1. IsHoused(l)'
      BY <1>1, <1>5, <2>5 DEF IsHoused
    <3>2. Admitted(l)'
      BY <1>1, <2>1 DEF Admitted
    <3>3. package' = at(package)
      BY <1>8, <1>9, <2>5
    <3>4. Itself(l, request) = {} => IsInstalled(l, request.package, at(package))
      BY <1>5, <2>1, FoundInstalled
    <3>5. CASE request.kind = "dependency"
      <4>1. pc' = "done"
        BY <1>8, <1>9, <2>5, <3>5
      <4>2. Expected[l][request] =
               Success(IF Itself(l, request) # {} THEN The(Itself(l, request))
                       ELSE Installed(l, c, request.package).logical)
        BY <1>1, <1>6, <2>1, <2>2, <3>1, <3>5, ExpectedOfRepository DEF IsHoused
      <4>3. at(package).root = IF Itself(l, request) # {} THEN The(Itself(l, request))
                               ELSE Installed(l, c, request.package).logical
        BY <2>1, <3>4 DEF Location, IsInstalled
      <4>4. Selected' = Expected[l][request']
        BY <1>1, <3>3, <3>5, <4>1, <4>2, <4>3 DEF Selected
      <4> QED
        BY <1>1, <1>6, <1>7, <1>9, <4>1, <4>4 DEF Stage
    <3>6. CASE request.kind # "dependency"
      <4>1. pc' = "manifest"
        BY <1>8, <1>9, <2>5, <3>6
      <4>2. IsInstalled(l, request.package, package)'
        BY <1>1, <3>3, <3>4, <3>6, ItselfDependency DEF IsInstalled
      <4> QED
        BY <1>1, <1>6, <1>7, <1>9, <3>1, <3>2, <4>1, <4>2 DEF Stage
    <3> QED
      BY <3>5, <3>6
  <2> QED
    BY <2>3, <2>4, <2>5
<1>10. CASE role = "provider"
  <2>1. IsRead(l) /\ request.kind = "package" /\ IsFound(l, Types, provider)
    BY <1>1, <1>4, <1>10 DEF Stage, Typed
  <2>2. search.end # "limit" /\ ~Broken(search)
    BY <1>5, <2>1 DEF IsRead, IsHoused
  <2>3. provider' = at(provider) /\ pc' = "resolve" /\ package' = package
    BY <1>8, <1>10, <2>2
  <2>4. IsInstalled(l, Types, at(provider))
    BY <1>5, <2>1, FoundInstalled
  <2>5. IsInstalled(l, Types, provider)' /\ provider' # None
    <3>1. provider \in LocationType
      BY <1>1, <1>10 DEF Located, Typed
    <3>2. provider' \in LocationType
      BY <1>5, <2>3, <3>1 DEF LocationType
    <3> QED
      BY <1>1, <2>3, <2>4, <3>2, LocationIsNone DEF IsInstalled, Types
  <2>6. IsRead(l)' /\ IsProvided(l)'
    BY <1>1, <2>1, <2>3, <2>5 DEF IsRead, Admitted, IsHoused, IsProvided
  <2> QED
    BY <1>1, <1>6, <1>7, <1>10, <2>3, <2>6 DEF Stage
<1> QED
  BY <1>6, <1>9, <1>10
-----------------------------------------------------------------------------
(* The package and its declaration.                                        *)

\* Where the package leads when it is followed is where it leads in an
\* installation that agrees.
LEMMA FollowReal ==
    ASSUME NEW l \in Layouts, NEW where, where # None, IsSeen(where), where.root \in Has(l), Follow(where),
           DOMAIN observed \subseteq DOMAIN observed', Agrees(l)', SameRoots'
    PROVE  Real(layout, where.root) = Real(l, where.root)
<1> DEFINE root == where.root
           f == <<root, Real(layout, root)>>
<1>1. f \in followed'
  BY DEF Follow
<1>2. Real(layout, root) = observed'[<<"presence", root>>]
  BY <1>1 DEF SameRoots
<1>3. Value(l, <<"presence", root>>) = observed'[<<"presence", root>>]
  BY DEF IsSeen, Agrees
<1>4. ManifestAt(l, root) # None
  BY HasOne
<1> QED
  BY <1>2, <1>3, <1>4, PresenceValue

\* The manifest of a package that is read is its manifest in an installation
\* that agrees.
LEMMA ManifestRead ==
    ASSUME Typed, NEW l \in Layouts, Remembered(l), NEW root \in Has(l), Real(layout, root) = Real(l, root),
           Keep({root}), NEW items, \A i \in items : Value(l, i) = Value(layout, i),
           Contents({root}) \subseteq items
    PROVE  /\ Manifest(root) = ManifestAt(l, root)
           /\ \A d \in DOMAIN manifests' : manifests'[d] = ManifestAt(l, d)
<1>1. layout \in Layouts /\ root \in Dirs
  BY HasOne DEF Typed
<1>2. Manifest(root) = ManifestAt(l, root)
  <2>1. CASE root \in DOMAIN manifests
    BY <2>1 DEF Manifest, Remembered
  <2>2. CASE root \notin DOMAIN manifests
    <3>1. <<"contents", Real(layout, root)>> \in items
      BY <2>2 DEF Contents
    <3>2. ManifestAt(l, root) = ManifestAt(layout, root)
      BY <1>1, <3>1, ContentsSame
    <3> QED
      BY <2>2, <3>2 DEF Manifest
  <2> QED
    BY <2>1, <2>2
<1>3. manifests' = [d \in DOMAIN manifests \cup {root} |-> Manifest(d)]
  BY DEF Keep
<1>4. \A d \in DOMAIN manifests : Manifest(d) = ManifestAt(l, d)
  BY DEF Manifest, Remembered
<1> QED
  BY <1>2, <1>3, <1>4

\* What has a package identity.
LEMMA NamedIs ==
    ASSUME NEW l \in Layouts, NEW d \in Has(l)
    PROVE  LET m == ManifestAt(l, d)
           IN  d \in NamedIn(l) <=> ~(m = None \/ IsBroken(m) \/ m.identity = None)
  BY HasOne DEF NamedIn, IsManifest, IsBroken

\* Where an installed package is.
LEMMA InstalledHas ==
    ASSUME Typed, NEW l \in Layouts, NEW p, NEW where, IsInstalled(l, p, where)
    PROVE  LET other == Installed(l, request.context, p)
           IN  /\ where = [root |-> other.logical, repository |-> other.repository, canonical |-> None]
               /\ where.root = other.logical
               /\ other.logical \in Has(l) /\ other.root = Real(l, other.logical)
<1>1. request.context \in Dirs
  BY Requested DEF Typed
<1>2. Slot[The(Found(l, request.context, p))][p] \in Has(l)
  BY <1>1, FoundHas DEF IsInstalled
<1> QED
  BY <1>2 DEF IsInstalled, Installed, Location

LEMMA ReadPackageEvidence ==
    ASSUME Typed, Located, NEW l \in Layouts, Evidenced(l), ReadPackage, Trusted(l)'
    PROVE  Remembered(l)' /\ Stage(l)'
<1> DEFINE own == Installed(l, request.context, request.package)
           root == package.root
           m == Manifest(root)
<1>1. /\ pc = "manifest" /\ authority' = authority /\ request' = request
      /\ declared' = declared /\ provider' = provider
      /\ Observe(Contents({root})) /\ Keep({root}) /\ Follow(package)
  BY DEF ReadPackage
<1>2. cacheable' /\ Agrees(l)' /\ SameRoots'
  BY DEF Trusted
<1>3. followed \subseteq followed'
  BY <1>1 DEF Follow
<1>4. Trusted(l)
  BY <1>1, <1>2, <1>3, SameRootsStep
<1>5. /\ Remembered(l) /\ Admitted(l) /\ IsHoused(l) /\ IsInstalled(l, request.package, package)
      /\ package # None /\ IsSeen(package) /\ provider = None /\ authority' = None
      /\ request \in Requests /\ request.kind # "dependency" /\ role = "package"
  BY <1>1, <1>4 DEF Evidenced, Stage, Located, Typed
<1>6. /\ package = [root |-> own.logical, repository |-> own.repository, canonical |-> None]
      /\ root = own.logical /\ root \in Has(l) /\ own.root = Real(l, root)
  BY <1>5, InstalledHas
<1>7. /\ \A i \in Contents({root}) : Value(l, i) = Value(layout, i)
      /\ DOMAIN observed \subseteq DOMAIN observed'
  BY <1>1, <1>2, ObserveAgrees
<1>8. Real(layout, root) = own.root
  BY <1>1, <1>2, <1>5, <1>6, <1>7, FollowReal
<1>9. m = ManifestAt(l, root) /\ \A d \in DOMAIN manifests' : manifests'[d] = ManifestAt(l, d)
  BY <1>1, <1>5, <1>6, <1>7, <1>8, ManifestRead
<1>10. Remembered(l)'
  BY <1>9 DEF Remembered
<1>11. MayAsk(l, request) /\ IsThere(l, request)
  BY <1>5 DEF Admitted, IsThere, IsInstalled
<1>12. CASE m = None \/ IsBroken(m) \/ m.identity = None
  <2>1. pc' = "failed" /\ error' = "identity"
    BY <1>12 DEF ReadPackage, Fail
  <2>2. own.logical \notin NamedIn(l)
    BY <1>6, <1>9, <1>12, NamedIs
  <2>3. Expected[l][request] = Resolved(l, request)
    BY <1>5, <1>11, ExpectedOfRepository DEF IsHoused
  <2>4. Resolved(l, request) = Failure("identity")
    BY <2>2 DEF Resolved
  <2> QED
    BY <1>1, <1>5, <1>10, <2>1, <2>3, <2>4, StageFailed
<1>13. CASE ~(m = None \/ IsBroken(m) \/ m.identity = None)
  <2>1. /\ package' = [package EXCEPT !.canonical = Real(layout, root)]
        /\ IF request.kind = "platform" THEN pc' = "resolve" /\ role' = role
           ELSE pc' = "search" /\ role' = "provider"
    BY <1>13 DEF ReadPackage
  <2>2. own.logical \in NamedIn(l)
    BY <1>6, <1>9, <1>13, NamedIs
  <2>3. package' = [root |-> own.logical, repository |-> own.repository, canonical |-> own.root]
    BY <1>6, <1>8, <2>1
  <2>4. IsRead(l)'
    BY <1>1, <1>5, <2>2, <2>3 DEF IsRead, Admitted, IsHoused, IsInstalled
  <2>5. CASE request.kind = "platform"
    <3>1. pc' = "resolve" /\ role' = "package" /\ IsProvided(l)'
      BY <1>1, <1>5, <2>1, <2>5 DEF IsProvided
    <3> QED
      BY <1>1, <1>5, <1>10, <2>4, <3>1 DEF Stage
  <2>6. CASE request.kind # "platform"
    BY <1>1, <1>5, <1>10, <2>1, <2>4, <2>6 DEF Stage
  <2> QED
    BY <2>5, <2>6
<1> QED
  BY <1>12, <1>13

\* A provider leads where it does in an installation that agrees.
LEMMA ProviderReal ==
    ASSUME Typed, NEW l \in Layouts, IsProvided(l), provider # None, Follow(provider),
           DOMAIN observed \subseteq DOMAIN observed', Agrees(l)', SameRoots'
    PROVE  LET other == Installed(l, request.context, Types)
           IN  /\ request.kind = "package" /\ IsInstalled(l, Types, provider)
               /\ provider = [root |-> other.logical, repository |-> other.repository, canonical |-> None]
               /\ provider.root = other.logical /\ other.logical \in Has(l)
               /\ other.root = Real(l, other.logical)
               /\ Real(layout, provider.root) = other.root
<1>1. request.kind = "package" /\ IsInstalled(l, Types, provider)
  BY DEF IsProvided
<1>2. IsSeen(provider)
  BY DEF Typed
<1> QED
  BY <1>1, <1>2, InstalledHas, FollowReal

\* What the compiler resolves lies in no link.
LEMMA ResolvedReal ==
    ASSUME NEW l \in Layouts, NEW p \in Packages, l.resolves[p] # None,
           NEW root, IsPathWithin(root, Dir[l.resolves[p]])
    PROVE  Real(l, root) = root
  BY SelectionAssumption DEF IsLayout, IsPathWithin, Real

LEMMA ResolveEvidence ==
    ASSUME Typed, Located, NEW l \in Layouts, Evidenced(l), Resolve, Trusted(l)'
    PROVE  Remembered(l)' /\ Stage(l)'
<1> DEFINE c == request.context
           own == Installed(l, c, request.package)
           other == Installed(l, c, Types)
           found == l.resolves[request.package]
           item == <<"resolution", request.package>>
<1>1. /\ pc = "resolve" /\ authority' = authority /\ request' = request
      /\ declared' = declared /\ provider' = provider /\ package' = package /\ role' = role
      /\ manifests' = manifests /\ Observe({item}) /\ Follow(provider)
  BY DEF Resolve
<1>2. cacheable' /\ Agrees(l)' /\ SameRoots'
  BY DEF Trusted
<1>3. followed \subseteq followed'
  BY <1>1 DEF Follow
<1>4. Trusted(l)
  BY <1>1, <1>2, <1>3, SameRootsStep
<1>5. /\ Remembered(l) /\ IsRead(l) /\ IsProvided(l) /\ authority' = None
      /\ request \in Requests /\ request.kind # "dependency"
      /\ (role = "provider" => request.kind = "package")
  BY <1>1, <1>4 DEF Evidenced, Stage, Located, Typed
<1>6. Value(l, item) = Value(layout, item) /\ DOMAIN observed \subseteq DOMAIN observed'
  BY <1>1, <1>2, ObserveAgrees
<1>7. Value(layout, item) = found
  BY <1>6, ResolutionValue
<1>8. request.package \in Packages
  BY <1>5, Requested
<1>9. /\ package.root = own.logical /\ package.canonical = own.root /\ own.root = Real(l, own.logical)
      /\ own.logical \in NamedIn(l)
  BY <1>5 DEF IsRead, Installed
<1>10. provider # None =>
          /\ request.kind = "package" /\ IsInstalled(l, Types, provider)
          /\ provider.root = other.logical /\ other.root = Real(l, other.logical)
          /\ Real(layout, provider.root) = other.root
  BY <1>1, <1>2, <1>5, <1>6, ProviderReal
<1>11. Remembered(l)'
  BY <1>1, <1>5 DEF Remembered
<1>12. request.kind = "package" => ~GivesUp(c, Holders(l, Types) \cup Marked(l))
  BY <1>5 DEF IsProvided, IsInstalled
<1>13. Expected[l][request] = Resolved(l, request)
  BY <1>5, ReadExpected
<1>14. CASE found = None
  <2>1. pc' = "failed" /\ error' = "undeclared types"
    BY <1>7, <1>14 DEF Resolve, Fail
  <2>2. Resolved(l, request) = Failure("undeclared types")
    BY <1>9, <1>12, <1>14 DEF Resolved, Types
  <2> QED
    BY <1>1, <1>5, <1>11, <1>13, <2>1, <2>2, StageFailed
<1>15. CASE found # None /\ ~\E r \in Roots : IsPathWithin(r, Dir[found])
  <2>1. pc' = "failed" /\ error' = "escapes"
    BY <1>7, <1>15 DEF Resolve, Fail
  <2>2. ~IsPathWithin(own.root, Dir[found])
    BY <1>9, <1>15 DEF Roots
  <2>3. request.kind = "platform" \/ Found(l, c, Types) = {} \/ ~IsPathWithin(other.root, Dir[found])
    <3>1. CASE provider = None
      BY <1>5, <3>1 DEF IsProvided, IsInstalled, Location
    <3>2. CASE provider # None
      BY <1>10, <1>15, <3>2 DEF Roots
    <3> QED
      BY <3>1, <3>2
  <2>4. Resolved(l, request) = Failure("escapes")
    BY <1>9, <1>12, <1>15, <2>2, <2>3 DEF Resolved, Types
  <2> QED
    BY <1>1, <1>5, <1>11, <1>13, <2>1, <2>4, StageFailed
<1>16. CASE found # None /\ \E r \in Roots : IsPathWithin(r, Dir[found])
  <2>1. pc' = "own" /\ declaration' = found
    BY <1>7, <1>16 DEF Resolve
  <2>2. PICK r \in Roots : IsPathWithin(r, Dir[found])
    BY <1>16
  <2>3. Real(l, r) = r
    BY <1>8, <1>16, <2>2, ResolvedReal
  <2>4. \/ r = package.root \/ r = package.canonical
        \/ provider # None /\ (r = provider.root \/ r = Real(layout, provider.root))
    BY <2>2 DEF Roots
  <2>5. \/ IsPathWithin(package.canonical, Dir[found])
        \/ provider # None /\ IsPathWithin(Real(l, provider.root), Dir[found])
    BY <1>9, <1>10, <2>2, <2>3, <2>4
  <2>6. IsResolved(l)'
    BY <1>1, <1>16, <2>1, <2>5 DEF IsResolved
  <2>7. IsRead(l)' /\ IsProvided(l)'
    BY <1>1, <1>5 DEF IsRead, Admitted, IsHoused, IsProvided, IsInstalled, Types
  <2> QED
    BY <1>1, <1>5, <1>11, <2>1, <2>6, <2>7 DEF Stage
<1> QED
  BY <1>14, <1>15, <1>16
-----------------------------------------------------------------------------
(* The authority.                                                          *)

\* Whether another package owns a declaration is so in an installation that
\* agrees on the packages on the way up.
LEMMA FaultsSeen ==
    ASSUME Typed, NEW l \in Layouts, NEW d \in Dirs, NEW root,
           \A i \in OwnerChecks(d) : Value(l, i) = Value(layout, i)
    PROVE  Faults(l, root, d) = Faults(layout, root, d)
<1> DEFINE G == Materialized \cap Has(layout)
           H == Materialized \cap Has(l)
<1>1. layout \in Layouts /\ Owner(layout, d) = Search(d, G) /\ Owner(l, d) = Search(d, H)
  BY DEF Typed, Owner
<1>2. Search(d, G).visited \subseteq Dirs
  BY SearchVisits
<1>3. ASSUME NEW a \in Search(d, G).visited, a \in Materialized
      PROVE  (a \in Has(l) <=> a \in Has(layout)) /\ (a \in Has(layout) => Real(l, a) = Real(layout, a))
  <2>1. a \in Dirs /\ a # None
    BY <1>2, SelectionAssumption
  <2>2. <<"presence", a>> \in OwnerChecks(d)
    BY <1>1, <1>3, <2>1 DEF OwnerChecks, Presences
  <2> QED
    BY <1>1, <2>1, <2>2, PresenceSame
<1>4. Search(d, H) = Search(d, G)
  <2>1. \A a \in Search(d, G).visited : a \in G <=> a \in H
    BY <1>3
  <2> HIDE DEF G, H
  <2> QED
    BY <2>1, SearchSame
<1>5. Search(d, G).end = "found" => Real(l, Search(d, G).at) = Real(layout, Search(d, G).at)
  <2>1. ASSUME Search(d, G).end = "found"
        PROVE  Search(d, G).at \in G /\ Search(d, G).at \in Search(d, G).visited
    BY <2>1, SearchFinds
  <2> QED
    BY <1>3, <2>1
<1> QED
  BY <1>1, <1>4, <1>5 DEF Faults

\* A selection that succeeds.
LEMMA StageDone ==
    ASSUME NEW l, pc' = "done", request' = request, request.kind # "dependency", IsRead(l)',
           IsOwned(l)', Success(authority') = Expected[l][request]
    PROVE  Stage(l)'
  BY DEF Stage, Selected

LEMMA SelectPackageEvidence ==
    ASSUME Typed, Located, NEW l \in Layouts, Evidenced(l), SelectPackage, Trusted(l)'
    PROVE  Remembered(l)' /\ Stage(l)'
<1> DEFINE c == request.context
           own == Installed(l, c, request.package)
           d == Dir[declaration]
           faults == Faults(layout, package.canonical, d)
<1>1. /\ pc = "own" /\ request' = request /\ declaration' = declaration
      /\ declared' = declared /\ provider' = provider /\ package' = package /\ role' = role
      /\ manifests' = manifests /\ followed' = followed /\ Observe(OwnerChecks(d)) /\ IsOwn
  BY DEF SelectPackage
<1>2. cacheable' /\ Agrees(l)' /\ SameRoots'
  BY DEF Trusted
<1>3. Trusted(l)
  BY <1>1, <1>2, SameRootsStep
<1>4. /\ Remembered(l) /\ IsRead(l) /\ IsProvided(l) /\ IsResolved(l) /\ authority = None
      /\ request \in Requests /\ request.kind # "dependency" /\ declaration \in Declarations
      /\ package # None
  BY <1>1, <1>3 DEF Evidenced, Stage, Located, Typed
<1>5. Remembered(l)' /\ IsRead(l)'
  BY <1>1, <1>4 DEF Remembered, IsRead, Admitted, IsHoused
<1>6. /\ package = [root |-> own.logical, repository |-> own.repository, canonical |-> own.root]
      /\ own.root = Real(l, own.logical) /\ own.logical \in NamedIn(l)
  BY <1>4 DEF IsRead, Installed
<1>7. d \in Dirs
  BY <1>4, SelectionAssumption
<1>8. \A i \in OwnerChecks(d) : Value(l, i) = Value(layout, i)
  BY <1>1, <1>2, ObserveAgrees
<1>9. faults = Faults(l, own.root, d)
  BY <1>6, <1>7, <1>8, FaultsSeen
<1>10. IsPathWithin(own.root, d)
  <2>1. CASE request.kind = "platform"
    BY <1>4, <1>6, <2>1 DEF IsProvided, IsResolved
  <2>2. CASE request.kind # "platform"
    BY <1>1, <1>6, <2>2 DEF IsOwn
  <2> QED
    BY <2>1, <2>2
<1>11. request.kind = "package" => ~GivesUp(c, Holders(l, Types) \cup Marked(l))
  BY <1>4 DEF IsProvided, IsInstalled
<1>12. Expected[l][request] = Attributed(l, own, {}, d)
  <2>1. Expected[l][request] = Resolved(l, request)
    BY <1>4, ReadExpected
  <2> QED
    BY <1>4, <1>6, <1>10, <1>11, <2>1 DEF Resolved, IsResolved, Types
<1>13. UNION {Faults(l, own.root, e) : e \in {}} = {}
  OBVIOUS
<1>14. CASE faults # {}
  <2>1. pc' = "failed" /\ error' = The(faults) /\ authority' = None
    BY <1>4, <1>14 DEF SelectPackage, Fail
  <2>2. Attributed(l, own, {}, d) = Failure(The(faults))
    BY <1>9, <1>13, <1>14 DEF Attributed
  <2> QED
    BY <1>1, <1>5, <1>12, <2>1, <2>2, StageFailed
<1>15. CASE faults = {}
  <2>1. /\ pc' = "done"
        /\ authority' = [root |-> package.canonical, logical |-> package.root, repository |-> package.repository,
                         identity |-> Manifest(package.root).identity]
    BY <1>15 DEF SelectPackage, Take
  <2>2. Manifest(package.root) = ManifestAt(l, own.logical)
    <3>1. package.canonical # None
      BY <1>4, <1>6, RealReal, SelectionAssumption, HasOne DEF NamedIn
    <3>2. package.root \in DOMAIN manifests
      BY <1>4, <3>1 DEF Typed
    <3> QED
      BY <1>4, <1>6, <3>2 DEF Remembered, Manifest
  <2>3. authority' = [root |-> own.root, logical |-> own.logical, repository |-> own.repository,
                      identity |-> ManifestAt(l, own.logical).identity]
    BY <1>6, <2>1, <2>2
  <2>4. Attributed(l, own, {}, d) = Success(authority')
    BY <1>9, <1>13, <1>15, <2>3 DEF Attributed
  <2>5. IsOwned(l)'
    BY <1>1, <1>6, <1>9, <1>10, <1>15, <2>3 DEF IsOwned
  <2> QED
    BY <1>1, <1>4, <1>5, <1>12, <2>1, <2>4, <2>5, StageDone
<1> QED
  BY <1>14, <1>15
\* What agrees with the observations agreed with fewer packages followed.
LEMMA SameRootsStays ==
    ASSUME NEW l, UNCHANGED proofVars, followed \subseteq followed', Trusted(l)'
    PROVE  Trusted(l)
  BY DEF proofVars, Trusted, SameRoots, Agrees

LEMMA EntrypointIn ==
    ASSUME NEW l \in Layouts, NEW d \in Has(l)
    PROVE  DeclaredEntrypoint(ManifestAt(l, d)) \subseteq Dirs
<1>1. ManifestAt(l, d).types \in Declarations \cup {None}
  BY HasOne DEF IsManifest
<1> QED
  BY <1>1, SelectionAssumption DEF DeclaredEntrypoint

LEMMA SelectProviderEvidence ==
    ASSUME Typed, Located, NEW l \in Layouts, Evidenced(l), SelectProvider, Trusted(l)'
    PROVE  Remembered(l)' /\ Stage(l)'
<1> DEFINE c == request.context
           own == Installed(l, c, request.package)
           other == Installed(l, c, Types)
           d == Dir[declaration]
           root == Real(layout, provider.root)
           escapes == provider = None \/ ~IsPathWithin(root, d)
<1>1. /\ pc = "own" /\ request' = request /\ declaration' = declaration
      /\ declared' = declared /\ provider' = provider /\ package' = package /\ role' = role
      /\ Follow(provider) /\ ~IsOwn
  BY DEF SelectProvider
<1>2. cacheable' /\ Agrees(l)' /\ SameRoots'
  BY DEF Trusted
<1>3. followed \subseteq followed'
  BY <1>1 DEF Follow
<1>4. Trusted(l) /\ DOMAIN observed \subseteq DOMAIN observed'
  <2>1. CASE escapes
    <3>1. UNCHANGED proofVars
      BY <2>1 DEF SelectProvider
    <3> QED
      BY <1>3, <3>1, SameRootsStays DEF proofVars
  <2>2. CASE ~escapes
    <3>1. PICK items : Observe(items)
      BY <2>2 DEF SelectProvider
    <3> QED
      BY <1>2, <1>3, <3>1, SameRootsStep, ObserveGrows
  <2> QED
    BY <2>1, <2>2
<1>5. /\ Remembered(l) /\ IsRead(l) /\ IsProvided(l) /\ IsResolved(l) /\ authority = None
      /\ request \in Requests /\ request.kind = "package" /\ declaration \in Declarations
  BY <1>1, <1>4, SelectionAssumption DEF Evidenced, Stage, Located, Typed, IsOwn
<1>6. IsRead(l)'
  BY <1>1, <1>5 DEF IsRead, Admitted, IsHoused
<1>7. package.canonical = own.root /\ own.logical \in NamedIn(l)
  BY <1>5 DEF IsRead, Installed
<1>8. ~IsPathWithin(own.root, d)
  BY <1>1, <1>7 DEF IsOwn
<1>9. ~GivesUp(c, Holders(l, Types) \cup Marked(l)) /\ (provider = None => Found(l, c, Types) = {})
  BY <1>5 DEF IsProvided, IsInstalled
<1>10. provider # None =>
          /\ IsInstalled(l, Types, provider)
          /\ provider = [root |-> other.logical, repository |-> other.repository, canonical |-> None]
          /\ provider.root = other.logical /\ other.logical \in Has(l) /\ other.root = Real(l, other.logical)
          /\ root = other.root
  BY <1>1, <1>2, <1>4, <1>5, ProviderReal
<1>11. Expected[l][request] = Resolved(l, request)
  BY <1>5, ReadExpected
<1>12. declaration = l.resolves[request.package] /\ declaration # None
  BY <1>5 DEF IsResolved
<1>13. CASE escapes
  <2>1. pc' = "failed" /\ error' = "escapes" /\ authority' = None /\ manifests' = manifests
    BY <1>5, <1>13 DEF SelectProvider, Fail, proofVars
  <2>2. Found(l, c, Types) = {} \/ ~IsPathWithin(other.root, d)
    BY <1>9, <1>10, <1>13
  <2>3. Resolved(l, request) = Failure("escapes")
    BY <1>7, <1>8, <1>9, <1>12, <2>2 DEF Resolved, Types
  <2>4. Remembered(l)'
    BY <1>5, <2>1 DEF Remembered
  <2> QED
    BY <1>1, <1>5, <1>11, <2>1, <2>3, <2>4, StageFailed
<1>14. CASE ~escapes
  <2> DEFINE m == Manifest(provider.root)
             invalid == m = None \/ IsBroken(m) \/ m.identity = None
             entry == IF invalid THEN {} ELSE DeclaredEntrypoint(m)
             nested == UNION {Faults(layout, root, e) : e \in entry}
             owned == entry \cup (IF invalid \/ nested # {} THEN {} ELSE {d})
             faults == UNION {Faults(layout, root, e) : e \in owned}
             items == Contents({provider.root}) \cup UNION {OwnerChecks(e) : e \in owned}
  <2>1. Observe(items) /\ Keep({provider.root})
    BY <1>14 DEF SelectProvider
  <2>2. \A i \in items : Value(l, i) = Value(layout, i)
    BY <1>2, <2>1, ObserveAgrees
  <2>3. m = ManifestAt(l, other.logical) /\ \A e \in DOMAIN manifests' : manifests'[e] = ManifestAt(l, e)
    <3>1. Contents({provider.root}) \subseteq items
      OBVIOUS
    <3>2. /\ Remembered(l) /\ provider.root \in Has(l) /\ provider.root = other.logical
          /\ Real(layout, provider.root) = Real(l, provider.root)
      BY <1>5, <1>10, <1>14
    <3> HIDE DEF items
    <3> QED
      BY ONLY Typed, l \in Layouts, <2>1, <2>2, <3>1, <3>2, ManifestRead
  <2>4. Remembered(l)'
    BY <2>3 DEF Remembered
  <2>5. invalid <=> other.logical \notin NamedIn(l)
    BY <1>10, <1>14, <2>3, NamedIs
  <2>6. Found(l, c, Types) # {} /\ IsPathWithin(other.root, d)
    BY <1>10, <1>14 DEF IsInstalled
  <2>7. CASE invalid
    <3>1. pc' = "failed" /\ error' = "identity" /\ authority' = None
      BY <1>5, <1>14, <2>7 DEF SelectProvider, Fail
    <3>2. Resolved(l, request) = Failure("identity")
      BY <1>5, <1>7, <1>8, <1>9, <1>12, <2>5, <2>6, <2>7 DEF Resolved, Types
    <3> QED
      BY <1>1, <1>5, <1>11, <2>4, <3>1, <3>2, StageFailed
  <2>8. CASE ~invalid
    <3>1. entry = DeclaredEntrypoint(ManifestAt(l, other.logical)) /\ entry \subseteq Dirs /\ d \in Dirs
      BY <1>5, <1>10, <1>14, <2>3, <2>8, EntrypointIn, SelectionAssumption
    <3>2. owned = entry \cup (IF nested # {} THEN {} ELSE {d})
      BY <2>8
    <3>3. ASSUME NEW e \in owned PROVE Faults(layout, root, e) = Faults(l, other.root, e)
      <4>1. e \in Dirs
        BY <3>1
      <4>2. \A i \in OwnerChecks(e) : Value(l, i) = Value(layout, i)
        BY <2>2
      <4> QED
        BY <1>10, <1>14, <4>1, <4>2, FaultsSeen
    <3> DEFINE first == UNION {Faults(l, other.root, e) : e \in entry}
               rest == Faults(l, other.root, d)
    <3>4. nested = first
      BY <3>3
    <3>5. faults = IF first # {} THEN first ELSE rest
      <4>1. CASE first # {}
        <5>1. owned = entry
          BY <3>2, <3>4, <4>1
        <5> QED
          BY <3>4, <4>1, <5>1
      <4>2. CASE first = {}
        <5>1. owned = entry \cup {d}
          BY <3>2, <3>4, <4>2
        <5>2. faults = nested \cup Faults(layout, root, d)
          BY <5>1
        <5> QED
          BY <3>3, <3>4, <4>2, <5>1, <5>2
      <4> QED
        BY <4>1, <4>2
    <3>6. Expected[l][request] = Attributed(l, other, entry, d)
      BY <1>5, <1>7, <1>8, <1>9, <1>11, <1>12, <2>5, <2>6, <2>8, <3>1 DEF Resolved, Types
    <3>7. /\ IF faults # {} THEN pc' = "failed" /\ error' = The(faults) /\ authority' = authority
             ELSE /\ pc' = "done"
                  /\ authority' = [root |-> root, logical |-> provider.root,
                                   repository |-> provider.repository, identity |-> m.identity]
      BY <1>14, <2>8 DEF SelectProvider, Fail, Take
    <3> HIDE DEF faults, entry, nested, owned, invalid, m, items
    <3>8. CASE faults # {}
      <4>1. Attributed(l, other, entry, d) = Failure(The(faults))
        BY <3>5, <3>8 DEF Attributed
      <4> QED
        BY <1>1, <1>5, <2>4, <3>6, <3>7, <3>8, <4>1, StageFailed
    <3>9. CASE faults = {}
      <4>1. authority' = [root |-> other.root, logical |-> other.logical, repository |-> other.repository,
                          identity |-> ManifestAt(l, other.logical).identity]
        BY <1>10, <1>14, <2>3, <3>7, <3>9
      <4>2. Attributed(l, other, entry, d) = Success(authority')
        BY <3>5, <3>9, <4>1 DEF Attributed
      <4>3. rest = {}
        BY <3>5, <3>9
      <4>4. other.logical \in NamedIn(l)
        BY <2>5, <2>8
      <4>5. IsOwned(l)'
        BY <1>1, <1>10, <1>14, <2>6, <4>1, <4>3, <4>4 DEF IsOwned
      <4> QED
        BY <1>1, <1>5, <1>6, <2>4, <3>6, <3>7, <3>9, <4>2, <4>5, StageDone
    <3> QED
      BY <3>8, <3>9
  <2> QED
    BY <2>7, <2>8
<1> QED
  BY <1>13, <1>14
-----------------------------------------------------------------------------
(* Types and control.                                                      *)

\* Nothing that was observed or kept is forgotten.
Grows == DOMAIN observed \subseteq DOMAIN observed' /\ DOMAIN manifests \subseteq DOMAIN manifests'

LEMMA SeesGrows ==
    ASSUME NEW search, NEW others, SeesManifests(search, others)
    PROVE  Grows /\ \A a \in search.visited \ {None} : <<"presence", a>> \in DOMAIN observed'
  BY DEF SeesManifests, Observe, Keep, Grows, Presences

LEMMA FollowSeen ==
    ASSUME Typed, NEW where, Follow(where), where # None => IsSeen(where),
           DOMAIN observed \subseteq DOMAIN observed'
    PROVE  \A f \in followed' : <<"presence", f[1]>> \in DOMAIN observed'
<1> SUFFICES ASSUME NEW f \in followed' PROVE <<"presence", f[1]>> \in DOMAIN observed'
  OBVIOUS
<1>1. CASE f \in followed
  BY <1>1 DEF Typed
<1>2. CASE f \notin followed
  <2>1. where # None /\ f[1] = where.root
    BY <1>2 DEF Follow
  <2> QED
    BY <2>1 DEF IsSeen
<1> QED
  BY <1>1, <1>2

LEMMA FindContextTyped == Typed /\ Located /\ FindContext => Typed' /\ Located'
<1> SUFFICES ASSUME Typed, Located, FindContext PROVE Typed' /\ Located'
  OBVIOUS
<1> DEFINE search == ContextManifest
<1>1. /\ SeesManifests(search, {}) /\ pc = "context"
      /\ UNCHANGED <<layout, changes, request, role, provider, declaration, authority, provenance, followed>>
  BY DEF FindContext
<1>2. Grows /\ \A a \in search.visited \ {None} : <<"presence", a>> \in DOMAIN observed'
  BY <1>1, SeesGrows
<1>3. search.end = "found" => search.at \in Dirs /\ search.at # None /\ search.at \in search.visited
  <2>1. request.context \in Dirs
    BY Requested DEF Typed
  <2> QED
    BY <2>1, SearchFinds, SelectionAssumption DEF ContextManifest, AncestorManifest
<1>4. \/ pc' = "failed" /\ package' = package
      \/ pc' \in {"search", "failed"} /\ package' = None
      \/ pc' = "repository" /\ package' = Location(search.at, search.at) /\ search.end = "found"
  BY DEF FindContext, Fail
<1>5. package = None /\ role = "package"
  BY <1>1 DEF Located
<1> HIDE DEF search
<1>6. Typed'
  BY <1>1, <1>2, <1>3, <1>4, <1>5 DEF Typed, Grows, IsSeen, LocationType, Location
<1>7. package' # None \/ pc' # "repository"
  BY <1>3, <1>4, LocationIsNone DEF Location, LocationType
<1>8. Located'
  BY <1>1, <1>4, <1>5, <1>7 DEF Located
<1> QED
  BY <1>6, <1>8

LEMMA FindPackageTyped == Typed /\ Located /\ FindPackage => Typed' /\ Located'
<1> SUFFICES ASSUME Typed, Located, FindPackage PROVE Typed' /\ Located'
  OBVIOUS
<1> DEFINE search == Search(request.context, Holders(layout, Wanted) \cup Marked(layout))
           slot == Slot[search.at][Wanted]
           hit == search.end = "found" /\ search.at \in Holders(layout, Wanted)
           where == Location(slot, search.at)
<1>1. /\ pc = "search"
      /\ UNCHANGED <<layout, changes, request, role, declared, declaration, authority, manifests,
                     provenance, followed>>
  BY DEF FindPackage
<1>2. DOMAIN observed \subseteq DOMAIN observed'
  <2>1. PICK items : Observe(items)
    BY DEF FindPackage
  <2> QED
    BY <2>1, ObserveGrows
<1>3. ASSUME hit PROVE where \in LocationType /\ where # None /\ <<"presence", slot>> \in DOMAIN observed'
  <2>1. request.context \in Dirs /\ layout \in Layouts
    BY Requested DEF Typed
  <2>2. search.at \in Dirs /\ search.at \in search.visited
    BY <1>3, <2>1, SearchFinds
  <2>3. slot \in Dirs /\ slot # None
    BY <1>3, <2>1, HasOne DEF Holders
  <2>4. where \in LocationType
    BY <2>2, <2>3 DEF LocationType, Location
  <2>5. slot \in {Slot[a][Wanted] : a \in search.visited}
    BY <2>2
  <2>6. <<"presence", slot>> \in Presences({Slot[a][Wanted] : a \in search.visited})
    BY <2>3, <2>5 DEF Presences
  <2>7. PICK items : Observe(Presences({Slot[a][Wanted] : a \in search.visited}) \cup items)
    BY DEF FindPackage
  <2> DEFINE seen == Presences({Slot[a][Wanted] : a \in search.visited})
  <2> HIDE DEF seen
  <2>8. DOMAIN observed' = DOMAIN observed \cup (seen \cup items)
    BY <2>7, ObserveGrows DEF seen
  <2>9. <<"presence", slot>> \in seen
    BY <2>6 DEF seen
  <2> QED
    BY <2>4, <2>8, <2>9, LocationIsNone
<1>4. \/ pc' = "failed" /\ package' = package /\ provider' = provider
      \/ hit /\ pc' = "repository" /\ role = "package" /\ package' = where /\ provider' = provider
      \/ hit /\ pc' = "repository" /\ role # "package" /\ provider' = where /\ package' = package
      \/ pc' = "resolve" /\ role = "provider" /\ package' = package /\ provider' = provider
  BY DEF FindPackage, Fail
<1>5. where.root = slot /\ where.canonical = None
  BY DEF Location
<1>6. /\ role = "package" => package = None
      /\ role = "provider" => package # None
      /\ provider = None /\ role \in {"package", "provider"}
  BY <1>1 DEF Located, Typed
<1> HIDE DEF search, slot, hit, where
<1>7. Typed'
  <2>1. package' # None => package' \in LocationType /\ IsSeen(package)'
    BY <1>2, <1>3, <1>4, <1>5 DEF Typed, IsSeen
  <2>2. provider' # None => provider' \in LocationType /\ IsSeen(provider)'
    BY <1>2, <1>3, <1>4, <1>5 DEF Typed, IsSeen
  <2>3. package' # None /\ package'.canonical # None => package'.root \in DOMAIN manifests'
    BY <1>1, <1>4, <1>5 DEF Typed
  <2> QED
    BY <1>1, <1>2, <1>4, <2>1, <2>2, <2>3 DEF Typed
<1>8. Located'
  BY <1>1, <1>3, <1>4, <1>6 DEF Located, Typed
<1> QED
  BY <1>7, <1>8

LEMMA FindRepositoryTyped == Typed /\ Located /\ FindRepository => Typed' /\ Located'
<1> SUFFICES ASSUME Typed, Located, FindRepository PROVE Typed' /\ Located'
  OBVIOUS
<1> DEFINE search == AncestorManifest(request.context,
                         {a \in Sound : Manifest(a).workspaces \/ a \in layout.markers["workspace"]})
           at(where) == IF search.end = "found" THEN [where EXCEPT !.repository = search.at] ELSE where
<1>1. /\ pc = "repository"
      /\ UNCHANGED <<layout, changes, request, role, declared, declaration, authority, provenance, followed>>
      /\ \E others : SeesManifests(search, others)
  BY DEF FindRepository
<1>2. Grows
  BY <1>1, SeesGrows
<1>3. search.end = "found" => search.at \in Dirs
  <2>1. request.context \in Dirs
    BY Requested DEF Typed
  <2> QED
    BY <2>1, SearchFinds DEF AncestorManifest
<1>4. \/ pc' = "failed" /\ package' = package /\ provider' = provider
      \/ /\ role = "package" /\ package' = at(package) /\ provider' = provider
         /\ pc' = (IF request.kind = "dependency" THEN "done" ELSE "manifest")
      \/ role # "package" /\ provider' = at(provider) /\ pc' = "resolve" /\ package' = package
  BY DEF FindRepository, Fail
<1> HIDE DEF search
<1>5. ASSUME NEW where \in LocationType
      PROVE  at(where) \in LocationType /\ at(where) # None /\ at(where).root = where.root
             /\ at(where).canonical = where.canonical
  <2>1. at(where) \in LocationType /\ at(where).root = where.root /\ at(where).canonical = where.canonical
    BY <1>3 DEF LocationType
  <2> QED
    BY <2>1, LocationIsNone
<1>6. package # None /\ (role = "provider" => provider # None) /\ role \in {"package", "provider"}
  BY <1>1 DEF Located, Typed
<1>7. package \in LocationType /\ (role = "provider" => provider \in LocationType)
  BY <1>6 DEF Typed
<1>8. /\ package' \in LocationType /\ package' # None /\ package'.root = package.root
      /\ package'.canonical = package.canonical
  BY <1>4, <1>5, <1>6, <1>7
<1>9. /\ role = "provider" => provider' \in LocationType /\ provider' # None /\ provider'.root = provider.root
      /\ role = "package" => provider' = provider
  BY <1>4, <1>5, <1>6, <1>7
<1>10. Typed'
  <2>1. IsSeen(package)' /\ (package'.canonical # None => package'.root \in DOMAIN manifests')
    BY <1>2, <1>6, <1>8 DEF Typed, IsSeen, Grows
  <2>2. provider' # None => provider' \in LocationType /\ IsSeen(provider)'
    BY <1>2, <1>6, <1>9 DEF Typed, IsSeen, Grows
  <2> QED
    BY <1>1, <1>2, <1>4, <1>8, <2>1, <2>2 DEF Typed, Grows
<1>11. Located'
  BY <1>1, <1>4, <1>6, <1>8, <1>9 DEF Located, Typed
<1> QED
  BY <1>10, <1>11

LEMMA ReadPackageTyped == Typed /\ Located /\ ReadPackage => Typed' /\ Located'
<1> SUFFICES ASSUME Typed, Located, ReadPackage PROVE Typed' /\ Located'
  OBVIOUS
<1>1. /\ pc = "manifest" /\ Observe(Contents({package.root})) /\ Keep({package.root}) /\ Follow(package)
      /\ UNCHANGED <<layout, changes, request, declared, provider, declaration, authority, provenance>>
  BY DEF ReadPackage
<1>2. Grows /\ package.root \in DOMAIN manifests'
  BY <1>1 DEF Observe, Keep, Grows
<1>3. /\ package # None /\ package \in LocationType /\ IsSeen(package) /\ layout \in Layouts
      /\ provider = None /\ role = "package" /\ request \in Requests /\ request.kind # "dependency"
  BY <1>1 DEF Located, Typed
<1>4. Real(layout, package.root) \in Dirs
  BY <1>3, RealReal DEF LocationType
<1>5. \/ pc' = "failed" /\ package' = package /\ role' = role
      \/ /\ package' = [package EXCEPT !.canonical = Real(layout, package.root)]
         /\ \/ request.kind = "platform" /\ pc' = "resolve" /\ role' = role
            \/ request.kind # "platform" /\ pc' = "search" /\ role' = "provider"
  BY DEF ReadPackage, Fail
<1>6. package' \in LocationType /\ package'.root = package.root
  BY <1>3, <1>4, <1>5 DEF LocationType
<1>7. package' # None
  BY <1>6, LocationIsNone
<1>8. request.kind \in {"package", "platform"}
  BY <1>3, SelectionAssumption
<1>9. Typed'
  <2>1. IsSeen(package)'
    BY <1>2, <1>3, <1>6 DEF IsSeen, Grows
  <2>2. \A f \in followed' : <<"presence", f[1]>> \in DOMAIN observed'
    BY <1>1, <1>2, <1>3, FollowSeen DEF Grows
  <2> QED
    BY <1>1, <1>2, <1>3, <1>5, <1>6, <1>8, <2>1, <2>2 DEF Typed, Grows
<1>10. Located'
  BY <1>1, <1>3, <1>5, <1>7, <1>8 DEF Located
<1> QED
  BY <1>9, <1>10

LEMMA ResolveTyped == Typed /\ Located /\ Resolve => Typed' /\ Located'
<1> SUFFICES ASSUME Typed, Located, Resolve PROVE Typed' /\ Located'
  OBVIOUS
<1>1. /\ pc = "resolve" /\ Observe({<<"resolution", request.package>>}) /\ Follow(provider)
      /\ UNCHANGED <<layout, changes, request, role, declared, package, provider, authority, manifests,
                     provenance>>
  BY DEF Resolve
<1>2. DOMAIN observed \subseteq DOMAIN observed'
  BY <1>1, ObserveGrows
<1>3. \A f \in followed' : <<"presence", f[1]>> \in DOMAIN observed'
  <2>1. provider # None => IsSeen(provider)
    BY DEF Typed
  <2> QED
    BY <1>1, <1>2, <2>1, FollowSeen
<1>4. layout.resolves[request.package] \in Declarations \cup {None}
  <2>1. request.package \in Packages /\ layout \in Layouts
    BY Requested DEF Typed
  <2> QED
    BY <2>1, SelectionAssumption DEF IsLayout
<1>5. \/ pc' = "failed" /\ declaration' = declaration
      \/ pc' = "own" /\ declaration' \in Declarations
  BY <1>4, ResolutionValue DEF Resolve, Fail
<1>6. Typed'
  BY <1>1, <1>2, <1>3, <1>5 DEF Typed, IsSeen
<1>7. Located'
  BY <1>1, <1>5 DEF Located
<1> QED
  BY <1>6, <1>7
LEMMA SelectPackageTyped == Typed /\ Located /\ SelectPackage => Typed' /\ Located'
<1> SUFFICES ASSUME Typed, Located, SelectPackage PROVE Typed' /\ Located'
  OBVIOUS
<1>1. /\ pc = "own" /\ Observe(OwnerChecks(Dir[declaration]))
      /\ UNCHANGED <<layout, changes, request, role, declared, package, provider, declaration, manifests,
                     provenance, followed>>
  BY DEF SelectPackage
<1>2. DOMAIN observed \subseteq DOMAIN observed'
  BY <1>1, ObserveGrows
<1>3. pc' = "done" \/ (pc' = "failed" /\ authority' = authority)
  <2> DEFINE faults == Faults(layout, package.canonical, Dir[declaration])
  <2>1. CASE faults # {}
    BY <2>1 DEF SelectPackage, Fail
  <2>2. CASE faults = {}
    BY <2>2 DEF SelectPackage, Take
  <2> QED
    BY <2>1, <2>2
<1>4. Typed'
  BY <1>1, <1>2, <1>3 DEF Typed, IsSeen
<1>5. Located'
  BY <1>1, <1>3 DEF Located
<1> QED
  BY <1>4, <1>5

LEMMA SelectProviderTyped == Typed /\ Located /\ SelectProvider => Typed' /\ Located'
<1> SUFFICES ASSUME Typed, Located, SelectProvider PROVE Typed' /\ Located'
  OBVIOUS
<1>1. /\ pc = "own" /\ Follow(provider)
      /\ UNCHANGED <<layout, changes, request, role, declared, package, provider, declaration, provenance>>
  BY DEF SelectProvider
<1>2. (\E items : Observe(items) /\ Keep({provider.root})) \/ UNCHANGED proofVars
  BY DEF SelectProvider
<1>3. Grows
  BY <1>2, ObserveGrows DEF Keep, Grows, proofVars
<1>4. pc' = "done" \/ (pc' = "failed" /\ authority' = authority)
  <2> DEFINE root == Real(layout, provider.root)
             m == Manifest(provider.root)
             invalid == m = None \/ IsBroken(m) \/ m.identity = None
             entry == IF invalid THEN {} ELSE DeclaredEntrypoint(m)
             nested == UNION {Faults(layout, root, d) : d \in entry}
             owned == entry \cup (IF invalid \/ nested # {} THEN {} ELSE {Dir[declaration]})
             faults == UNION {Faults(layout, root, d) : d \in owned}
             escapes == provider = None \/ ~IsPathWithin(root, Dir[declaration])
  <2>1. CASE escapes \/ invalid
    BY <2>1 DEF SelectProvider, Fail
  <2>2. CASE ~escapes /\ ~invalid /\ faults # {}
    BY <2>2 DEF SelectProvider, Fail
  <2>3. CASE ~escapes /\ ~invalid /\ faults = {}
    BY <2>3 DEF SelectProvider, Take
  <2> QED
    BY <2>1, <2>2, <2>3
<1>5. \A f \in followed' : <<"presence", f[1]>> \in DOMAIN observed'
  <2>1. provider # None => IsSeen(provider)
    BY DEF Typed
  <2> QED
    BY <1>1, <1>3, <2>1, FollowSeen DEF Grows
<1>6. Typed'
  BY <1>1, <1>3, <1>4, <1>5 DEF Typed, IsSeen, Grows
<1>7. Located'
  BY <1>1, <1>4 DEF Located
<1> QED
  BY <1>6, <1>7

LEMMA ReadProvenanceTyped ==
    ASSUME NEW f \in Declarations, Typed, Located, ReadProvenance(f)
    PROVE  Typed' /\ Located'
<1>1. /\ pc = "done" /\ UNCHANGED <<layout, changes, request, pc, error, selectionVars, followed>>
      /\ \E items : Observe(items)
      /\ \E dirs : Keep(dirs)
  BY DEF ReadProvenance
<1>2. Grows
  BY <1>1, ObserveGrows DEF Keep, Grows
<1>3. Typed'
  BY <1>1, <1>2 DEF Typed, IsSeen, Grows, selectionVars
<1>4. Located'
  BY <1>1 DEF Located, selectionVars
<1> QED
  BY <1>3, <1>4

LEMMA ChangeTyped == Typed /\ Located /\ Change => Typed' /\ Located'
<1> SUFFICES ASSUME Typed, Located, Change PROVE Typed' /\ Located'
  OBVIOUS
<1>1. /\ layout' \in Neighbours[layout] /\ changes' = changes + 1
      /\ UNCHANGED <<request, pc, error, selectionVars, proofVars, provenance, followed>>
  BY DEF Change
<1>2. layout' \in Layouts /\ changes' \in Nat
  BY <1>1, SelectionAssumption DEF Typed
<1>3. Typed'
  BY <1>1, <1>2 DEF Typed, IsSeen, selectionVars, proofVars
<1>4. Located'
  BY <1>1 DEF Located, selectionVars
<1> QED
  BY <1>3, <1>4

\* A change is another installation's: what was found in one that agrees stays.
LEMMA EvidenceStays ==
    ASSUME NEW l \in Layouts, Evidenced(l), Trusted(l)',
           UNCHANGED <<request, pc, error, selectionVars, proofVars, followed>>
    PROVE  Remembered(l)' /\ Stage(l)'
<1>1. Trusted(l) /\ Remembered(l) /\ Stage(l)
  BY DEF Trusted, SameRoots, Agrees, proofVars, Evidenced
<1>2. Remembered(l)'
  BY <1>1 DEF Remembered, proofVars
<1>3. /\ Admitted(l)' = Admitted(l) /\ IsHoused(l)' = IsHoused(l) /\ IsRead(l)' = IsRead(l)
      /\ IsProvided(l)' = IsProvided(l) /\ IsResolved(l)' = IsResolved(l) /\ IsOwned(l)' = IsOwned(l)
      /\ Selected' = Selected /\ IsFound(l, Types, provider)' = IsFound(l, Types, provider)
      /\ IsFound(l, request.package, package)' = IsFound(l, request.package, package)
      /\ IsInstalled(l, request.package, package)' = IsInstalled(l, request.package, package)
  BY DEF Admitted, IsHoused, IsRead, IsProvided, IsResolved, IsOwned, Selected, IsFound, IsInstalled, Types,
         selectionVars
<1>4. Stage(l)'
  BY <1>1, <1>3 DEF Stage, selectionVars
<1> QED
  BY <1>2, <1>4

-----------------------------------------------------------------------------
(* Provenance.                                                             *)

LEMMA ReadProvenanceEvidence ==
    ASSUME NEW f \in Declarations, Typed, Located, NEW l \in Layouts, Evidenced(l), ReadProvenance(f), Trusted(l)'
    PROVE  Remembered(l)' /\ Stage(l)'
<1> DEFINE d == Dir[f]
           owner == Owner(layout, d)
           nested == owner.end = "found" /\ Real(layout, owner.at) # authority.root
           alone == owner.end = "top" /\ ~IsPathWithin(authority.root, d)
           any == AncestorManifest(d, Sound)
           read == IF nested THEN {Real(layout, owner.at)} ELSE IF alone THEN {any.at} \ {None} ELSE {}
           items == OwnerChecks(d) \cup Contents(read) \cup (IF alone THEN Presences(any.visited) ELSE {})
<1>1. /\ pc = "done" /\ UNCHANGED <<layout, request, pc, error, selectionVars, followed>>
      /\ Observe(items) /\ Keep(read)
  BY DEF ReadProvenance
<1>2. cacheable' /\ Agrees(l)' /\ SameRoots'
  BY DEF Trusted
<1>3. Trusted(l)
  BY <1>1, <1>2, SameRootsStep
<1>4. Remembered(l) /\ Stage(l)
  BY <1>3 DEF Evidenced
<1>5. \A i \in items : Value(l, i) = Value(layout, i)
  BY <1>1, <1>2, ObserveAgrees
<1>6. layout \in Layouts /\ d \in Dirs
  BY SelectionAssumption DEF Typed
<1>7. ASSUME NEW e \in read PROVE Manifest(e) = ManifestAt(l, e)
  <2>1. CASE e \in DOMAIN manifests
    BY <1>4, <2>1 DEF Manifest, Remembered
  <2>2. CASE e \notin DOMAIN manifests
    <3>1. <<"contents", Real(layout, e)>> \in items
      BY <2>2 DEF Contents
    <3>2. CASE nested
      <4>1. e = Real(layout, owner.at) /\ owner.at \in Dirs
        BY <1>6, <3>2, SearchFinds DEF Owner
      <4>2. Real(layout, e) = e
        BY <1>6, <4>1, RealReal
      <4> QED
        BY <1>5, <2>2, <3>1, <4>2, ContentsValue DEF Manifest
    <3>3. CASE ~nested
      <4>1. alone /\ e = any.at /\ e # None
        BY <3>3
      <4>2. any.end = "found"
        BY <1>6, <4>1, SearchMisses DEF AncestorManifest
      <4>3. e \in any.visited /\ HasManifest(e) /\ e \in Dirs
        BY <1>6, <4>1, <4>2, SearchFinds DEF AncestorManifest
      <4>4. <<"presence", e>> \in items
        BY <4>1, <4>3 DEF Presences
      <4>5. e \in Has(layout)
        BY <4>3 DEF HasManifest, Has
      <4>6. e \in Has(l) /\ Real(l, e) = Real(layout, e)
        BY <1>5, <1>6, <4>3, <4>4, <4>5, PresenceSame
      <4>7. ManifestAt(l, e) = ManifestAt(layout, e)
        BY <1>5, <1>6, <3>1, <4>3, <4>6, ContentsSame
      <4> QED
        BY <2>2, <4>7 DEF Manifest
    <3> QED
      BY <3>2, <3>3
  <2> QED
    BY <2>1, <2>2
<1>8. Remembered(l)'
  <2> HIDE DEF read
  <2>1. manifests' = [e \in DOMAIN manifests \cup read |-> Manifest(e)]
    BY <1>1 DEF Keep
  <2>2. \A e \in DOMAIN manifests : Manifest(e) = ManifestAt(l, e)
    BY <1>4 DEF Manifest, Remembered
  <2> QED
    BY <1>7, <2>1, <2>2 DEF Remembered
<1>9. Stage(l)'
  <2>1. /\ IsRead(l)' = IsRead(l) /\ IsOwned(l)' = IsOwned(l) /\ Selected' = Selected
    BY <1>1 DEF IsRead, Admitted, IsHoused, IsOwned, Selected, selectionVars
  <2> QED
    BY <1>1, <1>4, <2>1 DEF Stage, selectionVars
<1> QED
  BY <1>8, <1>9

LEMMA ReadProvenanceOwned ==
    ASSUME NEW f \in Declarations, Typed, Located, AllEvidenced, Unchanged, ReadProvenance(f)
    PROVE  AuthorityOwnsDeclarations'
<1> DEFINE d == Dir[f]
           owner == Owner(layout, d)
           nested == owner.end = "found" /\ Real(layout, owner.at) # authority.root
           alone == owner.end = "top" /\ ~IsPathWithin(authority.root, d)
           any == AncestorManifest(d, Sound)
           read == IF nested THEN {Real(layout, owner.at)} ELSE IF alone THEN {any.at} \ {None} ELSE {}
           named == {Manifest(e).identity : e \in {x \in read : HasManifest(x) /\ ~IsBroken(Manifest(x))}}
           found == IF nested \/ alone THEN named
                    ELSE IF owner.end = "limit" THEN {} ELSE {authority.identity}
           installed == Materialized \cap Has(layout)
<1>1. /\ pc = "done" /\ authority # None
      /\ UNCHANGED <<layout, changes, request, pc, error, selectionVars, followed>>
      /\ provenance' = [file |-> f, identity |-> IF IsPathWithin(authority.repository, d) /\ found # {}
                                                 THEN The(found) ELSE None]
  BY DEF ReadProvenance
<1>2. SUFFICES ASSUME changes = 0, IsPathWithin(authority.repository, d)
               PROVE  /\ f = declaration => provenance'.identity = authority.identity
                      /\ \A a \in Nearest(d, installed) : provenance'.identity = ManifestAt(layout, a).identity
  <2>1. {x \in Materialized : HasManifest(x)} = installed
    BY SelectionAssumption DEF HasManifest, Has
  <2>2. {x \in Materialized : HasManifest(x)}' = {x \in Materialized : HasManifest(x)}
    BY <1>1 DEF HasManifest
  <2>3. authority' = authority /\ declaration' = declaration /\ layout' = layout /\ changes' = changes
    BY <1>1 DEF selectionVars
  <2>4. provenance'.file = f
    BY <1>1
  <2> QED
    BY <1>2, <2>1, <2>2, <2>3, <2>4 DEF AuthorityOwnsDeclarations
<1>3. provenance'.identity = IF found # {} THEN The(found) ELSE None
  BY <1>1, <1>2
<1>4. layout \in Layouts /\ d \in Dirs
  BY SelectionAssumption DEF Typed
<1>5. Remembered(layout) /\ IsOwned(layout)
  BY <1>1, <1>2, <1>4 DEF Unchanged, AllEvidenced, Evidenced, Stage
<1>6. ASSUME f = declaration PROVE provenance'.identity = authority.identity
  <2>1. owner.end # "limit" /\ ~nested
    BY <1>5, <1>6 DEF IsOwned, Faults
  <2>2. ~alone
    BY <1>5, <1>6 DEF IsOwned
  <2>3. found = {authority.identity}
    BY <2>1, <2>2
  <2> QED
    BY <1>3, <2>3, TheOne
<1>7. ASSUME NEW a \in Nearest(d, installed) PROVE provenance'.identity = ManifestAt(layout, a).identity
  <2>1. owner.end = "found" /\ owner.at = a /\ a \in Has(layout)
    <3> HIDE DEF installed
    <3>1. Search(d, installed).end = "found" /\ Nearest(d, installed) = {Search(d, installed).at}
      BY <1>4, <1>7, SearchFinds
    <3>2. a \in installed
      BY <1>7 DEF Nearest
    <3> QED
      BY <1>7, <3>1, <3>2 DEF Owner, installed
  <2> DEFINE e == Real(layout, a)
             m == ManifestAt(layout, a)
  <2>2. a \in Dirs /\ m # None /\ IsManifest(m)
    BY <1>4, <2>1, HasOne
  <2>3. ManifestAt(layout, e) = m
    BY <1>4, <2>2, RealReal
  <2>4. CASE e # authority.root
    <3>1. nested /\ read = {e}
      BY <2>1, <2>4
    <3>2. HasManifest(e) /\ Manifest(e) = m
      BY <1>5, <2>2, <2>3 DEF HasManifest, Manifest, Remembered
    <3>3. CASE m.broken
      <4>1. found = {}
        BY <2>2, <3>1, <3>2, <3>3 DEF IsBroken
      <4> QED
        BY <1>3, <2>2, <3>3, <4>1 DEF IsManifest
    <3>4. CASE ~m.broken
      <4>1. {x \in read : HasManifest(x) /\ ~IsBroken(Manifest(x))} = {e}
        BY <3>1, <3>2, <3>4 DEF IsBroken
      <4>2. found = {m.identity}
        BY <3>1, <3>2, <4>1
      <4> HIDE DEF found
      <4>3. found # {} /\ The(found) = m.identity
        BY <4>2, TheOne
      <4> QED
        BY <1>3, <4>3
    <3> QED
      BY <3>3, <3>4
  <2>5. CASE e = authority.root
    <3>1. found = {authority.identity}
      BY <2>1, <2>5
    <3>2. authority.identity = ManifestAt(layout, authority.logical).identity
          /\ authority.root = Real(layout, authority.logical) /\ authority.logical \in Has(layout)
      BY <1>5 DEF IsOwned, NamedIn
    <3>3. ManifestAt(layout, authority.logical) = m
      BY <1>4, <2>3, <2>5, <3>2, HasOne, RealReal
    <3> QED
      BY <1>3, <3>1, <3>2, <3>3, TheOne
  <2> QED
    BY <2>4, <2>5
<1> QED
  BY <1>6, <1>7
-----------------------------------------------------------------------------
(* While nothing changes.                                                  *)

\* A package that is followed leads where it was observed to lead.
LEMMA FreshFollow ==
    ASSUME Trusted(layout), NEW where, Follow(where), layout' = layout, Typed,
           where # None => IsSeen(where) /\ where.root \in Has(layout),
           cacheable', Agrees(layout)', DOMAIN observed \subseteq DOMAIN observed',
           \A i \in DOMAIN observed : observed'[i] = observed[i]
    PROVE  Trusted(layout)'
<1>1. ASSUME NEW f \in followed' PROVE f[2] = observed'[<<"presence", f[1]>>]
  <2>1. CASE f \in followed
    BY <2>1 DEF Typed, Trusted, SameRoots
  <2>2. CASE f \notin followed
    <3>1. where # None /\ f[1] = where.root /\ f[2] = Real(layout, where.root)
      BY <2>2 DEF Follow
    <3>2. <<"presence", f[1]>> \in DOMAIN observed'
      BY <3>1 DEF IsSeen
    <3>3. Value(layout, <<"presence", f[1]>>) = observed'[<<"presence", f[1]>>]
      BY <3>2 DEF Agrees
    <3>4. ManifestAt(layout, f[1]) # None
      BY <3>1 DEF Has
    <3> QED
      BY <3>1, <3>3, <3>4, PresenceValue
  <2> QED
    BY <2>1, <2>2
<1>2. SameRoots'
  BY <1>1 DEF SameRoots
<1> QED
  BY <1>2 DEF Trusted

LEMMA FreshObserve ==
    ASSUME Trusted(layout), NEW items, Observe(items), NEW where, Follow(where), layout' = layout, Typed,
           where # None => IsSeen(where) /\ where.root \in Has(layout)
    PROVE  Trusted(layout)'
<1>1. cacheable' /\ Agrees(layout)'
  BY ObserveFresh DEF Trusted
<1>2. DOMAIN observed \subseteq DOMAIN observed' /\ \A i \in DOMAIN observed : observed'[i] = observed[i]
  BY DEF Observe
<1> QED
  BY <1>1, <1>2, FreshFollow

\* The present installation agrees with the observations until it changes.
LEMMA UnchangedStep ==
    ASSUME Typed, Located, AllEvidenced, Unchanged, [Next]_vars
    PROVE  Unchanged'
<1> SUFFICES ASSUME changes' = 0 PROVE Trusted(layout)'
  BY DEF Unchanged
<1>1. CASE Change
  <2>1. changes' = changes + 1 /\ changes \in Nat
    BY <1>1 DEF Change, Typed
  <2> QED
    BY <2>1
<1>2. CASE UNCHANGED vars
  BY <1>2 DEF vars, proofVars, Unchanged, Trusted, SameRoots, Agrees
<1>3. ASSUME layout' = layout, changes' = changes PROVE layout \in Layouts /\ Trusted(layout) /\ Stage(layout)
  BY <1>3 DEF Typed, Unchanged, AllEvidenced, Evidenced
<1>4. ASSUME layout' = layout, changes' = changes, followed' = followed, NEW items, Observe(items)
      PROVE  Trusted(layout)'
  <2>1. Follow(None)
    BY <1>4 DEF Follow
  <2> QED
    BY <1>3, <1>4, <2>1, FreshObserve
<1>5. CASE FindContext
  BY <1>4, <1>5 DEF FindContext, SeesManifests
<1>6. CASE FindPackage
  BY <1>4, <1>6 DEF FindPackage
<1>7. CASE FindRepository
  BY <1>4, <1>7 DEF FindRepository, SeesManifests
<1>8. CASE SelectPackage
  BY <1>4, <1>8 DEF SelectPackage
<1>9. CASE \E f \in Declarations : ReadProvenance(f)
  BY <1>4, <1>9 DEF ReadProvenance
<1>10. CASE ReadPackage
  <2>1. /\ pc = "manifest" /\ Observe(Contents({package.root})) /\ Follow(package)
        /\ layout' = layout /\ changes' = changes
    BY <1>10 DEF ReadPackage
  <2>2. IsSeen(package)
    BY <2>1 DEF Located, Typed
  <2>3. package.root \in Has(layout)
    BY <1>3, <2>1, InstalledHas DEF Stage
  <2> QED
    BY <1>3, <2>1, <2>2, <2>3, FreshObserve
<1>11. ASSUME pc \in {"resolve", "own"}, layout' = layout, changes' = changes, provider # None
       PROVE  IsSeen(provider) /\ provider.root \in Has(layout)
  <2>1. IsInstalled(layout, Types, provider)
    BY <1>3, <1>11 DEF Stage, IsProvided
  <2>2. provider.root \in Has(layout)
    BY <1>3, <1>11, <2>1, InstalledHas
  <2> QED
    BY <1>11, <2>2 DEF Typed
<1>12. CASE Resolve
  <2>1. /\ pc = "resolve" /\ Observe({<<"resolution", request.package>>}) /\ Follow(provider)
        /\ layout' = layout /\ changes' = changes
    BY <1>12 DEF Resolve
  <2> QED
    BY <1>3, <1>11, <2>1, FreshObserve
<1>13. CASE SelectProvider
  <2>1. pc = "own" /\ Follow(provider) /\ layout' = layout /\ changes' = changes
    BY <1>13 DEF SelectProvider
  <2>2. CASE UNCHANGED proofVars
    <3>1. cacheable' /\ Agrees(layout)'
      BY <1>3, <2>1, <2>2 DEF proofVars, Trusted, Agrees
    <3>2. DOMAIN observed \subseteq DOMAIN observed' /\ \A i \in DOMAIN observed : observed'[i] = observed[i]
      BY <2>2 DEF proofVars
    <3> QED
      BY <1>3, <1>11, <2>1, <3>1, <3>2, FreshFollow
  <2>3. ASSUME NEW items, Observe(items) PROVE Trusted(layout)'
    BY <1>3, <1>11, <2>1, <2>3, FreshObserve
  <2>4. UNCHANGED proofVars \/ \E items : Observe(items)
    BY <1>13 DEF SelectProvider
  <2> QED
    BY <2>2, <2>3, <2>4
<1> QED
  BY <1>1, <1>2, <1>5, <1>6, <1>7, <1>8, <1>9, <1>10, <1>12, <1>13 DEF Next

-----------------------------------------------------------------------------
(* The invariant.                                                          *)

LEMMA InitInv == Init => Inv
<1> SUFFICES ASSUME Init PROVE Inv
  OBVIOUS
<1>1. Typed /\ Located
  BY DEF Init, Typed, Located
<1>2. AllEvidenced
  BY DEF Init, AllEvidenced, Evidenced, Remembered, Stage
<1>3. Unchanged
  BY DEF Init, Unchanged, Trusted, SameRoots, Agrees
<1>4. AuthorityOwnsDeclarations
  BY DEF Init, AuthorityOwnsDeclarations
<1> QED
  BY <1>1, <1>2, <1>3, <1>4 DEF Inv

LEMMA NextInv == Inv /\ [Next]_vars => Inv'
<1> SUFFICES ASSUME Inv, [Next]_vars PROVE Inv'
  OBVIOUS
<1>1. Typed /\ Located /\ AllEvidenced /\ Unchanged /\ AuthorityOwnsDeclarations
  BY DEF Inv
<1>2. Unchanged'
  BY <1>1, UnchangedStep
<1>3. Typed' /\ Located'
  <2>1. CASE UNCHANGED vars
    BY <1>1, <2>1 DEF vars, selectionVars, proofVars, Typed, Located, IsSeen
  <2>2. CASE \E f \in Declarations : ReadProvenance(f)
    BY <1>1, <2>2, ReadProvenanceTyped
  <2> QED
    BY <1>1, <2>1, <2>2, FindContextTyped, FindPackageTyped, FindRepositoryTyped, ReadPackageTyped,
       ResolveTyped, SelectPackageTyped, SelectProviderTyped, ChangeTyped DEF Next
<1>4. AllEvidenced'
  <2> SUFFICES ASSUME NEW l \in Layouts, Trusted(l)' PROVE Remembered(l)' /\ Stage(l)'
    BY DEF AllEvidenced, Evidenced
  <2>1. Evidenced(l)
    BY <1>1 DEF AllEvidenced
  <2>2. CASE UNCHANGED vars \/ Change
    <3>1. UNCHANGED <<request, pc, error, selectionVars, proofVars, followed>>
      BY <2>2 DEF vars, Change
    <3> QED
      BY <2>1, <3>1, EvidenceStays
  <2>3. CASE \E f \in Declarations : ReadProvenance(f)
    BY <1>1, <2>1, <2>3, ReadProvenanceEvidence
  <2>4. CASE FindContext
    BY <1>1, <2>1, <2>4, FindContextEvidence
  <2>5. CASE FindPackage
    BY <1>1, <2>1, <2>5, FindPackageEvidence
  <2>6. CASE FindRepository
    BY <1>1, <2>1, <2>6, FindRepositoryEvidence
  <2>7. CASE ReadPackage
    BY <1>1, <2>1, <2>7, ReadPackageEvidence
  <2>8. CASE Resolve
    BY <1>1, <2>1, <2>8, ResolveEvidence
  <2>9. CASE SelectPackage
    BY <1>1, <2>1, <2>9, SelectPackageEvidence
  <2>10. CASE SelectProvider
    BY <1>1, <2>1, <2>10, SelectProviderEvidence
  <2> QED
    BY <2>2, <2>3, <2>4, <2>5, <2>6, <2>7, <2>8, <2>9, <2>10 DEF Next
<1>5. AuthorityOwnsDeclarations'
  <2>1. CASE \E f \in Declarations : ReadProvenance(f)
    BY <1>1, <2>1, ReadProvenanceOwned
  <2>2. CASE UNCHANGED vars
    BY <1>1, <2>2 DEF vars, selectionVars, AuthorityOwnsDeclarations, HasManifest
  <2>3. ASSUME pc # "done", provenance' = provenance PROVE AuthorityOwnsDeclarations'
    BY <1>1, <2>3 DEF Located, AuthorityOwnsDeclarations
  <2>4. CASE FindContext \/ FindPackage \/ FindRepository \/ ReadPackage
    BY <2>3, <2>4 DEF FindContext, FindPackage, FindRepository, ReadPackage
  <2>5. CASE Resolve \/ SelectPackage \/ SelectProvider \/ Change
    BY <2>3, <2>5 DEF Resolve, SelectPackage, SelectProvider, Change
  <2> QED
    BY <2>1, <2>2, <2>4, <2>5 DEF Next
<1> QED
  BY <1>1, <1>2, <1>3, <1>4, <1>5 DEF Inv

\* The control of the selection, what agrees with its observations, and what a
\* package owns, at every point of every selection.
THEOREM Invariance == Spec => []Inv
  BY InitInv, NextInv, PTL DEF Spec

\* What was selected, or why nothing was, is so in every installation that
\* agrees with what was observed (selectInspectableModule,
\* findVisiblePackageForDependency).
THEOREM Evidence == Spec => []SelectionIsEvidenced
<1>1. Inv => SelectionIsEvidenced
  BY DEF Inv, AllEvidenced, Evidenced, Trusted, Stage, SelectionIsEvidenced
<1> QED
  BY <1>1, Invariance, PTL

\* The authority of an inspection owns its entry declaration, and no declaration
\* of another installed package (selectedDeclarationPackage,
\* readDeclarationProvenance).
THEOREM Ownership == Spec => []AuthorityOwnsDeclarations
<1>1. Inv => AuthorityOwnsDeclarations
  BY DEF Inv
<1> QED
  BY <1>1, Invariance, PTL

=============================================================================
