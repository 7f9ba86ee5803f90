-------------------------- MODULE MCEvidenceSelection --------------------------
(***************************************************************************)
(* top > repo > app > deep are the directories above the context.  lib,    *)
(* types and node may be installed in repo and app; the slot of app may be *)
(* a link to store, a package of a shared store, or to the one nested in   *)
(* it, which types may be a link to as well.                               *)
(***************************************************************************)
EXTENDS EvidenceSelection, TLC

CONSTANTS top, repo, app, deep, repoLib, appLib, repoTypes, repoNode, store, nestedRoot, inner,
          lib, typesName, node, libFile, storeFile, innerFile, nestedFile, typesFile, nodeFile

ParentOf ==
    [d \in Dirs |->
        CASE d \in {top, repo} -> top [] d = app -> repo [] d \in {deep, appLib} -> app
          [] d \in {repoLib, repoTypes, repoNode, store} -> repo
          [] OTHER -> store]

SlotOf ==
    [d \in Dirs |-> [p \in Packages |->
        CASE d = repo /\ p = lib -> repoLib [] d = app /\ p = lib -> appLib
          [] d = repo /\ p = typesName -> repoTypes [] d = repo /\ p = node -> repoNode
          [] OTHER -> None]]

DirOf ==
    [f \in Declarations |->
        CASE f = libFile -> repoLib [] f = storeFile -> store [] f = innerFile -> inner
          [] f = nestedFile -> nestedRoot [] f = typesFile -> repoTypes [] OTHER -> repoNode]

TypesOfPackage == [p \in Packages |-> IF p = lib THEN typesName ELSE p]

M(identity, dependencies, exports, workspaces, entry) ==
    [broken |-> FALSE, identity |-> identity, dependencies |-> dependencies, exports |-> exports,
     workspaces |-> workspaces, types |-> entry]

BrokenManifest == [M(None, {}, FALSE, FALSE, None) EXCEPT !.broken = TRUE]

Fixed ==
    (store :> M(lib, {lib}, TRUE, FALSE, None)) @@ (nestedRoot :> M(typesName, {}, FALSE, FALSE, None))
    @@ (inner :> M(None, {}, FALSE, FALSE, None)) @@ (repoNode :> M(node, {}, FALSE, FALSE, None))

On(d, m) == IF m = None THEN <<>> ELSE d :> m

\* An installation by its choices: the manifests of app and repo, how lib is
\* installed, the provider, a marker, and what lib resolves to.
Layout(c) ==
    [manifest |-> On(app, c.app) @@ On(repo, c.repo)
                  @@ (IF c.types = "installed" THEN repoTypes :> M(typesName, {}, FALSE, FALSE, nestedFile) ELSE <<>>)
                  @@ (IF c.lib = "repo" THEN repoLib :> M(lib, {}, FALSE, FALSE, None) ELSE <<>>)
                  @@ Fixed,
     real     |-> (CASE c.lib = "linked" -> appLib :> store [] c.lib = "moved" -> appLib :> nestedRoot
                     [] OTHER -> <<>>)
                  @@ (IF c.types = "linked" THEN repoTypes :> nestedRoot ELSE <<>>),
     markers  |-> [m \in {"pnp.cjs", "pnp.js", "workspace"} |->
                      IF m = c.marker[1] THEN {c.marker[2]} ELSE {}],
     resolves |-> [p \in Packages |-> IF p = lib THEN c.resolves ELSE IF p = node THEN nodeFile ELSE None]]

LayoutChoices ==
    [app      : {None, M(lib, {lib, node}, TRUE, FALSE, None), M(None, {}, FALSE, FALSE, None)},
     repo     : {M(node, {lib}, FALSE, TRUE, None), BrokenManifest, M(None, {node}, FALSE, FALSE, None)},
     lib      : {"repo", "linked", "moved", "absent"},
     types    : {"absent", "installed", "linked"},
     marker   : {<<"pnp.js", app>>, <<"workspace", app>>, <<"pnp.cjs", repo>>},
     resolves : {None, libFile, innerFile, nestedFile, typesFile}]

Sensible(c) ==
    /\ c.resolves = typesFile => c.types = "installed"
    /\ CASE c.lib = "absent" -> c.resolves = None
         [] c.lib = "repo" -> c.resolves \in {libFile, nestedFile, typesFile}
         [] c.lib = "linked" -> c.resolves \in {innerFile, nestedFile, typesFile}
         [] OTHER -> c.resolves = nestedFile
    /\ c.repo.broken => c.marker = <<"pnp.js", app>>

InstalledLayouts == {Layout(c) : c \in {d \in LayoutChoices : Sensible(d)}}

LayoutNeighbours ==
    [l \in InstalledLayouts |->
        {k \in InstalledLayouts : Cardinality({f \in DOMAIN l : l[f] # k[f]}) = 1}]

Ask(kind, context, name, physical) ==
    [kind |-> kind, context |-> context, declared |-> name, package |-> physical]

SelectionRequests ==
    {Ask("package", app, lib, lib), Ask("package", deep, lib, lib), Ask("platform", app, node, node),
     Ask("dependency", app, lib, lib), Ask("dependency", store, lib, typesName)}
=============================================================================
