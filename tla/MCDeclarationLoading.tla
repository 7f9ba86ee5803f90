------------------------ MODULE MCDeclarationLoading -------------------------
(***************************************************************************)
(* A small installation.  app declares dep; dep declares base; nest lies   *)
(* in the node_modules of dep, which does not declare it; types is the     *)
(* Node provider.  The files of app refer to each other in a circle, by    *)
(* path into dep, and to packages app does not declare: to types, and to   *)
(* base, which only dep declares.  Two files change all the time.          *)
(***************************************************************************)
EXTENDS DeclarationLoading

CONSTANTS app, dep, base, nest, types, aIndex, aUtil, dIndex, bIndex, nIndex,
          tIndex, es, dom

Refer(paths, typeNames, relative, bare, libs) ==
    [paths |-> paths, types |-> typeNames, relative |-> relative, bare |-> bare,
     libs |-> libs]

InstalledOwner ==
    [f \in {aIndex, aUtil, dIndex, bIndex, nIndex, tIndex} |->
        CASE f \in {aIndex, aUtil} -> app
          [] f = dIndex -> dep
          [] f = bIndex -> base
          [] f = nIndex -> nest
          [] OTHER -> types]

InstalledWithin ==
    [f \in {aIndex, aUtil, dIndex, bIndex, nIndex, tIndex} |->
        IF f = nIndex THEN {nest, dep} ELSE {InstalledOwner[f]}]

InstalledEntry ==
    [p \in {app, dep, base, nest, types} |->
        CASE p = app -> aIndex [] p = dep -> dIndex [] p = base -> bIndex
          [] p = nest -> nIndex [] OTHER -> tIndex]

Declared ==
    [p \in {app, dep, base, nest, types} |->
        CASE p = app -> {dep} [] p = dep -> {base} [] OTHER -> {}]

InstalledText ==
    [f \in {aIndex, aUtil, dIndex, bIndex, nIndex, tIndex, es, dom} |->
        CASE f = aIndex -> Refer({}, {}, {aUtil}, {dep, types}, {})
          [] f = aUtil  -> Refer({dIndex}, {types, base}, {aIndex}, {}, {dom})
          [] f = dIndex -> Refer({}, {base}, {nIndex}, {}, {})
          [] f = nIndex -> Refer({}, {}, {}, {base}, {})
          [] f = bIndex -> Refer({}, {}, {}, {}, {})
          [] f = tIndex -> Refer({}, {base}, {}, {}, {es})
          [] f = es     -> Refer({}, {}, {}, {}, {dom})
          [] OTHER      -> Refer({}, {}, {}, {}, {es})]
=============================================================================
