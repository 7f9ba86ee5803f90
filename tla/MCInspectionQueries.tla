-------------------------- MODULE MCInspectionQueries --------------------------
(***************************************************************************)
(* Pages of two names and an index of three or four, so that a walk has a  *)
(* second page.  Two versions share their names and two their identity.    *)
(* Plans pass the budget for size or for members only with their last      *)
(* query; one index is too large for an overview and one for any query.    *)
(***************************************************************************)
EXTENDS InspectionQueries

CONSTANTS left, right, root, sub, word

Module(identity, exports, subpaths, members, large) ==
    [identity |-> identity, exports |-> exports, subpaths |-> subpaths,
     members |-> [n \in exports |-> IF n = 1 THEN members ELSE {}], large |-> large]

Small == Module("1.0", {1, 2, 3}, {root}, {1, 2}, {})
Grown == Module("1.0", {1, 2, 3, 4}, {root, sub}, {1, 2, 3}, {2})
Later == Module("2.0", {1, 2, 3}, {root}, {1, 2}, {2})
Huge  == Module("2.0", {1, 2, 3, 4, 5}, {root}, {}, {})

SomeModules == {Small, Grown, Later, Huge}

Search(w, scope) == Query("search", None, None, w, scope)
Subpaths == Query("subpaths", None, None, None, None)
Of(intent, name, w) == Query(intent, None, name, w, None)

Plan(queries) == Request("plan", left, queries)
Single(query) == Request("query", left, <<query>>)
Comparison(b, a) == Request("comparison", [before |-> b, after |-> a], <<Overview(None)>>)

StaleCursor == Cursor(<<"1.0", right>>, <<1, 2, 3>>, 2)

SomeRequests ==
    {Single(Overview(None)), Single(Overview(Start)), Single(Overview(StaleCursor)),
     Single(Search(word, "documentation")), Single(Subpaths), Single(Of("export", 2, None)),
     Single(Of("export", 4, None)),
     Plan(<<Overview(Start), Search(word, None)>>), Plan(<<Subpaths, Overview(None)>>),
     Plan(<<Of("members", 1, None), Of("declarations", 2, None), Of("members", 1, word)>>),
     Plan(<<Of("export", 1, None), Search(word, "documentation"), Of("export", 3, None)>>),
     Plan(<<Of("declarations", 1, None), Query("malformed", None, None, None, None)>>),
     Comparison(left, right), Request("comparison", [before |-> left, after |-> right], <<Overview(Start)>>)}

NamesMatching == [w \in 1..5 \cup {word} |-> IF w = word THEN {1, 4} ELSE {w}]
DocumentsMatching == [w \in 1..5 \cup {word} |-> IF w = word THEN {2, 3} ELSE {}]
=============================================================================
