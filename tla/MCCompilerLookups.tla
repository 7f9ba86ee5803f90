------------------------- MODULE MCCompilerLookups ---------------------------
(***************************************************************************)
(* app has lib in its node_modules, lib has dep in its own, and alias, in  *)
(* the node_modules of app, is a link to dep.  The same question is asked  *)
(* with different roots, so that an answer of one context would be wrong   *)
(* in another.                                                             *)
(***************************************************************************)
EXTENDS CompilerLookups

CONSTANTS top, app, lib, dep, alias, topJson, appJson, libJson, depJson, aliasJson,
          libIndex, libScript, libTypes, depIndex, aliasIndex, libQuery, typesQuery,
          depQuery

ParentOf == [d \in Dirs |-> CASE d \in {top, app} -> top [] d \in {lib, alias} -> app
                              [] OTHER -> lib]

RealOf == [d \in Dirs |-> IF d = alias THEN dep ELSE d]

DirOf ==
    [f \in Files |->
        CASE f = topJson -> top [] f = appJson -> app
          [] f \in {libJson, libIndex, libScript, libTypes} -> lib
          [] f \in {depJson, depIndex} -> dep [] OTHER -> alias]

RealFileOf == [f \in Files |-> CASE f = aliasJson -> depJson [] f = aliasIndex -> depIndex
                                 [] OTHER -> f]

StyleOfExtension == [f \in Sources |-> IF f = libTypes THEN "import" ELSE None]

CandidateFiles ==
    [q \in Queries |->
        CASE q = libQuery -> <<libJson, libIndex, libScript>>
          [] q = typesQuery -> <<libTypes>>
          [] OTHER -> <<depJson, aliasIndex>>]

TypesQuery == [q \in Queries |-> IF q = libQuery THEN typesQuery ELSE q]

Ask1(d, roots) == [directory |-> d, roots |-> roots]

AskedContexts == {Ask1(lib, {app}), Ask1(lib, {lib}), Ask1(lib, {app, dep}), Ask1(dep, {alias, dep})}

Manifest(size, format, target) == [size |-> size, format |-> format, target |-> target]

\* The manifest of lib is small, too large, broken or absent; its file may be.
InstalledDisks ==
    {[f \in Files |->
        CASE f = libJson -> l
          [] f \in {depJson, aliasJson} -> d
          [] f = appJson -> Manifest(1, "module", None)
          [] f = topJson -> None
          [] f \in {libIndex, libTypes} -> i
          [] OTHER -> [size |-> 1]] :
        l \in {None, Manifest(1, "commonjs", libIndex), Manifest(3, "module", libTypes),
               Manifest(1, "broken", None)},
        d \in {Manifest(2, "commonjs", depIndex), None},
        i \in {None, [size |-> 1]}}
=============================================================================
